SPECIFICATION FairSpec
CONSTANTS
  tolerance = 0
  empty_solo_fee_bps = 0
  Size <- MCSize
  Gateways <- MCGateways
  Window <- MCWindow
  Room <- MCRoom
  SectionBytes <- MCSectionBytes
  SubsidyOnly = 255
  HELD_SPLIT_SHARES = 2
  CLASS_BUDGET_SIGHTINGS = 2
  CLASS_BUDGET_MIN_BYTES = 2
  COINBASERS_KEPT = 2
  COINBASER_BURST = 1
  COINBASER_GRACE_BLOCKS = 0
  MaxCoinbaser = 2
  MAX_SESSION_IDENTITIES = 2
  MAX_LIVE_SLOTS = 1
  MAX_COINBASES_PER_SLOT = 2
  MAX_COINBASE_SECTION_BYTES = 3
  session_coinbase_budget = 4
  class_budget_carry_ceiling = 1
  quarantine_first = 1
  quarantine_cap = 2
  MaxStrikes = 2
  MaxTasks = 2
  MaxBlocks = 1
INVARIANTS SectionsWithinBudget 
PROPERTIES RefusalsStop FaultLifts
CHECK_DEADLOCK FALSE
