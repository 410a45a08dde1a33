SPECIFICATION Spec
CONSTANTS
  Lot = 2
  Prices = {10, 12}
  Contracts <- TwoCalls
  Asks = {1}
  QuickPct = 5
  RecoveryPct = 15
  BufferPct = 10
  LookBack = 1
  OrdersPerDay = 3
  Funds <- CashOrPark
  MaxOrders = 4
  MaxDays = 3
  MaxFaults = 1
INVARIANT LotIsTheOnlyOne
CHECK_DEADLOCK FALSE
