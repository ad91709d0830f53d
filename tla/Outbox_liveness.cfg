\* One worker that crashes once and meets one failed statement: everything enqueued
\* is settled.
CONSTANTS
  e1 = e1  e2 = e2  w1 = w1  w2 = w2  op1 = op1
  Events = {e1, e2}
  Workers = {w1}
  Operators = {op1}
  None = None
  MaxAttempts = 2
  LeaseTimeout = 2
  BackoffBase = 2
  BackoffCap = 3
  Horizon = 4
  MaxClaims = 9
  Prompt = TRUE
  ReplayFrom = {"dead"}
  MaxCrashes = 1
  MaxFaults = 1
  MaxReplays = 1
SPECIFICATION FairSpec
PROPERTY EventuallySettled
