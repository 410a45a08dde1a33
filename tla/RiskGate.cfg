SPECIFICATION GateSpec
CONSTANTS
  NSymbols = 3
  Holdings <- SmallHoldings
  Deltas <- SmallDeltas
  Price <- ThreePrices
  MaxLeg = 4
  Caps = {2, 5}
  MaxOrders = 2
  Depth = 3
INVARIANTS FitsUnderCap LosingDayOnlyReduces GateContract
CHECK_DEADLOCK FALSE
