\* Two requests at a time over one invoice, with one failure, crash or refused webhook.
CONSTANTS
  r1 = r1  r2 = r2
  Requests = {r1, r2}
  Amounts = {0, 1, 2}
  MaxRequests = 4
  MaxMishaps = 1
SPECIFICATION Spec
SYMMETRY Symmetry
CHECK_DEADLOCK FALSE
INVARIANTS TypeOK BalanceAddsUp AnnouncementsHold
