SPECIFICATION Spec
CONSTANTS
  Runs = {r1, r2}
  NSymbols = 1
  Targets <- OneShare
  MaxOrders = 1
  MaxAttempts = 2
  ShortWrites = FALSE
SYMMETRY Symmetry
INVARIANTS HaltHolds CompletedAccountsForFills
CHECK_DEADLOCK FALSE
