SPECIFICATION Spec
CONSTANTS
  Verdicts = {"promoted"}
  Specs = {1, 2}
  Studied = {1}
  MaxJobs = 2
  Times = {0, 1, 2}
  Month <- TwoMonths
  Open = {2}
  MaxTroubles = 1
INVARIANTS OffStaysOff OncePerMonth RecordTellsTheVerdict
CHECK_DEADLOCK FALSE
