CONSTANTS
  Block = {b1, b2}
  PassSize = 2
  RecheckOrphan = 3
  GiveUp = 4
  NeverSeen = 1
  MaxTip = 4
  LastFind = 1
  Parent = {p1, p2}
  Session = {s1, s2}
  Real = {p1}
  MaxParents = 1
  Key = {"pool", "overflow"}
  Reader = {"r1"}
  Slots = 2
  MaxCopies = 2
SPECIFICATION MCSpec
CHECK_DEADLOCK FALSE
PROPERTIES RecordsDecided ValidIsTaken DeadIsRefused RequestsAnswered
