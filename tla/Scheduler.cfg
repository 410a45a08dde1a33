SPECIFICATION FairSpec
CONSTANTS
  NSessions = 2
  Closing <- EarlySecond
  Offset = 2
  Grace = 1
  Horizon = 9
  MaxKills = 2
  MaxNaps = 1
  MaxHalts = 1
  MaxPresses = 1
PROPERTIES FiresOnceInWindow NoDaySlips EverySessionSettles
CHECK_DEADLOCK FALSE
