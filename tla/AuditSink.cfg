SPECIFICATION SinkSpec
CONSTANTS
  Rows = {r1, r2, r3}
  InitialState = "degraded-buffering"
  MaxCrashes = 1
  MaxErrors = 1
  MaxMoves = 1
CHECK_DEADLOCK FALSE
SYMMETRY Symmetry
INVARIANTS RowsInv EventsTellState
