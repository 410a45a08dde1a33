SPECIFICATION Spec
CONSTANTS
  Verdicts = {"promoted"}
  Studied = {1}
  Cancellers = {c1}
  MaxJobs = 2
INVARIANTS OthersAreCancelled CancelledIsOver SuccessIsWhole
PROPERTIES KeepsThePromise CancelReturns
CHECK_DEADLOCK FALSE
