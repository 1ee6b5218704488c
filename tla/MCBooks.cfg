CONSTANTS
  Ident = {i1}
  Block = {b1, b2}
  Amount = {0, 1, 2}
  MaxClaim = 2
  Found = {1, 2}
  Fee = {1}
  SoloBlock <- MCSoloBlock
  Bps = 5000
  Depth = 1
  PerPass = 2
  MaxHeight = 3
  MaxKills = 1
  MaxRebates = 3
  Addr = {a1}
  Secs = 1
  DatumSecs = 2
  Rearm = 3
  Epoch = 1
  Lookback = 2
  Coarse = 2
  MaxTime = 4
  MaxStops = 1
  Payee = {w1, w2}
  Name = {n1, n2, n3}
  Work = {1}
  MaxPerIdentity = 2
  MaxPerSession = 3
  Buckets = 2
  MaxNotes = 4
  MaxMinute = 2
  SlotJob = {j1, j2}
  CbId = {d1, d2}
  Class = {"plain", "whole", "bad"}
  Pot = {1, 2}
  Stamp = {1}
  MinPot = 1
  UncommittedPot = 2
  Trusted = FALSE
  MaxSections = 1
  MaxH2 = 2
  MaxCb = 2
  MaxPow = 3
  Host = {"four", "mapped", "six", "other", "loop", "mappedLoop"}
  Loopback = {"loop"}
  Network <- MCNetwork
  MaxTotal = 8
  MaxPerIp = 3
SPECIFICATION MCSpec
SYMMETRY Symmetric
CONSTRAINTS ClaimBound RebateBound
INVARIANTS Conservation BooksExact  SoloBookedOnce
INVARIANTS GraceMatchesRun TalliesAddUp HeaderIsHashed  PlacesCounted
CHECK_DEADLOCK FALSE
