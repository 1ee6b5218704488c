SPECIFICATION Spec
CONSTANTS
  Miner = {1, 2, 3}
  FeeBps = 2000
  StratumBps = 4000
  RebateBps = 2000
  GraceBps = 3000
  GraceRebateBps = 1000
  MinPayout = 3
  StaleMinPayout = 1
  MaxOutputs = 2
  StaleMaxOutputs = 1
  Size <- SomeLonger
  ByteBudget = 2
  Works <- AllWorks
  Value = 12
  MaxCarry = 40
  MaxOwed = 8
  MaxChanges = 1
INVARIANT BacklogBounded
PROPERTIES EverySatAccounted NobodyWaitsForever
CHECK_DEADLOCK FALSE
