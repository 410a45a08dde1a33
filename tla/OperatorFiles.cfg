SPECIFICATION Spec
CONSTANTS
  Requests = {r1, r2}
  Names = {p, q}
  MaxBars = 3
  MaxDone = 3
INVARIANT NoTornFile
INVARIANT DecisionsStand
INVARIANT HaltIsInForce
PROPERTY HistoryKept
CHECK_DEADLOCK FALSE
