CONSTANTS
  Ident = {i1}
  Block = {b1, b2}
  Batch = {h1, h2}
  Amount = {0, 1}
  Correction = {1}
  Sats = {0, 1, 2, 3, 4, 5}
  MaxSats = 2
  MaxOut = 1
SPECIFICATION Spec
SYMMETRY Symmetry
CHECK_DEADLOCK FALSE
INVARIANT PaidCoversHold
PROPERTY KeepsAccounts
