SPECIFICATION BookSpec
CONSTANTS
  Days = 3
  TradingDays = {1, 3}
  Prices = {4, 6}
  Quantities = {1, 2}
  Limits = {4, 5}
  MaxPlaced = 2
  StartingCash = 10
  Slippage = 1
  Commission = 1
  LossPct = 10
INVARIANT NoMargin
PROPERTIES GateReadsStand FillsCostOnlyCosts
CHECK_DEADLOCK FALSE
