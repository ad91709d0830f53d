\* Two requests and a visit, tokens that live for four ticks and are refreshed in the
\* last two, Intuit takes the newest refresh token and the one before, two mishaps.
CONSTANTS
  r1 = r1  r2 = r2
  Requests = {r1, r2}
  Life = 4
  Skew = 2
  Delay = 1
  StateTtl = 1
  Honoured = 2
  MaxMishaps = 2
SPECIFICATION FairSpec
INVARIANTS TypeOK TokenOutlivesItsCall LockoutIsEarned
PROPERTIES RequestsGetTokens
