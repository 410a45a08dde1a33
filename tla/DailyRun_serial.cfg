SPECIFICATION Spec
CONSTANTS
  Runs = {r1}
  NSymbols = 2
  Targets <- LongShort
  MaxOrders = 2
  MaxAttempts = 2
  ShortWrites = TRUE
INVARIANTS NeverPastTarget CheckPasses FillsWrittenOnce
PROPERTY WriteAhead
CHECK_DEADLOCK FALSE
