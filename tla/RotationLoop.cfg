SPECIFICATION Spec
CONSTANTS
  Callers = {"loop", "cli"}
  Lifetime = 611
  MaxGrants = 5
  MaxTroubles = 1
  FirstDates <- MCFirstDates
  Sessions <- MCSessions
  Days = 2
  Instants <- MCInstants
  ManageEvery = 15
INVARIANT CyclesKeepHours
INVARIANT WindowsAreServed
INVARIANT HealthyLoopSucceeds
INVARIANT RestartHeals
PROPERTY PhaseFiresOnce
CHECK_DEADLOCK FALSE
