CONSTANTS
  Candidate = {b1}
  MaxCrash = 0
  MaxFail = 0
SPECIFICATION RecordsSpec
CHECK_DEADLOCK FALSE
INVARIANT LatestLineIsLatest
