CONSTANTS
  Session = {s1, s2}
  Conn = {c1, c2}
  Share <- SomeShares
  BitsAt <- SomeBits
  Retarget = {3}
  Branch = {"a", "b"}
  Ours = "a"
  Stranger <- Strangers
  MaxPerHeight = 1
  MaxTotal = 1
  MaxTip = 4
  Lag = 2
  Candidate = {b1, b2}
  MaxCrash = 1
  MaxFail = 1
SPECIFICATION MCSpec
SYMMETRY Symmetric
CONSTRAINT OneSubmit
CHECK_DEADLOCK FALSE
INVARIANTS RecordMatchesLedger FirstBookingSurvives CreditedOnce PricedOffTheBooks
PROPERTIES BookedUnderPossibleTarget
