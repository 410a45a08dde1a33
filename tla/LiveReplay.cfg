SPECIFICATION ReplaySpec
CONSTANTS
  Plans <- MCPlans
  Markets <- MCMarkets
  LastDays <- MCLastDays
  MaxBarAge = 2
  MaxTroubles = 1
INVARIANT LiveIsBacktest
INVARIANT TimeStop
INVARIANT FlatBetween
INVARIANT EntryIsNoExit
CHECK_DEADLOCK FALSE
