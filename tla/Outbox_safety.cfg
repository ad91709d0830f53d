\* Two workers on two events, a crash and a failed statement anywhere, and an operator
\* who replays a dead letter; a request for a row in processing is refused.
CONSTANTS
  e1 = e1  e2 = e2  w1 = w1  w2 = w2  op1 = op1
  Events = {e1, e2}
  Workers = {w1, w2}
  Operators = {op1}
  None = None
  MaxAttempts = 2
  LeaseTimeout = 2
  BackoffBase = 2
  BackoffCap = 3
  Horizon = 4
  MaxClaims = 6
  Prompt = TRUE
  ReplayFrom = {"dead", "processing"}
  MaxCrashes = 1
  MaxFaults = 1
  MaxReplays = 1
SPECIFICATION Spec
SYMMETRY Symmetry
INVARIANTS TypeOK NoDoubleProcessing FinishedWasServed CrashCostsOneAttempt
PROPERTIES DeadLettersAreEarned ImplementsLifecycle
