\* Two accounts and a payment; one change of each kind, one failure that is tried again.
CONSTANTS
  a1 = a1  a2 = a2  p1 = p1  n1 = n1  n2 = n2
  k1 = k1  k2 = k2  q1 = q1  q2 = q2  q3 = q3  w1 = w1
  None = None
  Accounts = {a1, a2}
  Payments = {p1}
  Names = {n1, n2}
  Kinds = {k1, k2}
  Ids = {q1, q2, q3}
  Workers = {w1}
  RenamesUnlinked = FALSE
  MaxRenames = 1
  MaxEdits = 1
  MaxOthers = 1
  MaxRetries = 1
SPECIFICATION Spec
SYMMETRY Symmetry
CHECK_DEADLOCK FALSE
INVARIANTS TypeOK NothingTwice SettledIsShown
