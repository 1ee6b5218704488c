CONSTANTS
  Thread = {t1}
  QueueCap = 1
  Value = {2, 3}
  MaxSess = 2
  MaxTip = 1
  MaxAsk = 1
SPECIFICATION MCSpec
INVARIANTS QueueBounded 
PROPERTIES LiveSplitReturns
