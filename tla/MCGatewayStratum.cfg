CONSTANTS
  Conn = {c1, c2}
  Ip = {i1}
  IpOf <- MCIpOf
  Ident = {a, b}
  NoOne = NoOne
  Config <- Both
  MAX_CONNS = 2
  MAX_CONNS_PER_IP = 1
  JOB_HISTORY = 2
  SOLO_JOBS = 2
  SEEN_CAP = 1
  FLOOD_LIMIT = 1
  LOW_BURST = 1
  SUBMITTED_CAP = 1
  SOLO_BOOK_MINERS = 1
  SOLO_BOOK_BLOCKS = 1
  MaxPot = 1
  MaxCrash = 1
SPECIFICATION Spec
INVARIANTS SlotsExact  NoReplay 
SYMMETRY Symmetric
