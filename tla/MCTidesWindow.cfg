CONSTANTS
  Ident = {a, b}
  Work = {1, 2}
  Target = {2, 3}
  Slack = 1
  MaxShares = 3
  MaxStops = 1
SPECIFICATION Spec
CONSTRAINT OneOwed
SYMMETRY Symmetric
CHECK_DEADLOCK FALSE
INVARIANTS RowsKeepTheirOwner TotalsAreSums ReplayReproduces
PROPERTY NoRowLeavesEarly
