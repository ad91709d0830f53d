\* An invoice entered in QuickBooks under our DocNumber, a lost webhook, a failure, the
\* reconciler, and an operator who resolves what it flags.
CONSTANTS
  d1 = d1  d2 = d2  w1 = w1  w2 = w2
  None = None
  a1 = a1  a2 = a2  a3 = a3
  Internal = Internal
  Docs = {d1, d2}
  Amounts = {a1, a2}
  Zero = Zero
  Workers = {w1}
  Reconciling = TRUE
  Overlap = FALSE
  Exhaustible = TRUE
  EditsDeleted = FALSE
  MaxEdits = 0
  MaxDeletes = 0
  MaxQboEdits = 0
  MaxVoids = 0
  MaxEntries = 1
  MaxOthers = 0
  MaxTouches = 0
  MaxDrops = 1
  MaxFaults = 1
  MaxResolves = 1
SPECIFICATION Spec
SYMMETRY Symmetry
CHECK_DEADLOCK FALSE
INVARIANT DivergenceIsVisible
