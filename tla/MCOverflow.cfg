CONSTANTS
  c1 = c1
  c2 = c2
  a = a
  Conn = {c1, c2}
  Ident = {a}
  Unpayable = Unpayable
  Names <- MCNames
  Window = {a}
  Known = {a}
  Upstream = {u1}
  Modes = {"auto", "force"}
  hold_polls = 1
  GRANDFATHER_MAX = 2
  CHURN_LOCAL_AFTER = 1
  MAX_PENDING_SUBMITS = 1
  MaxSubmit = 2
SPECIFICATION FairSpec
INVARIANTS RelayBooks
PROPERTIES ComesHome
CHECK_DEADLOCK FALSE
