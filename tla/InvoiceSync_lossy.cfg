\* Two lost webhooks, and a failed call or a crash, around the create and an edit or a
\* deletion, with the reconciler and fair loops.
CONSTANTS
  d1 = d1  d2 = d2  w1 = w1  w2 = w2
  None = None
  a1 = a1  a2 = a2  a3 = a3
  Internal = Internal
  Docs = {d1, d2}
  Amounts = {a1, a2}
  Zero = Zero
  Workers = {w1}
  Reconciling = TRUE
  Overlap = FALSE
  Exhaustible = TRUE
  EditsDeleted = FALSE
  MaxEdits = 1
  MaxDeletes = 1
  MaxQboEdits = 0
  MaxVoids = 0
  MaxEntries = 0
  MaxOthers = 1
  MaxTouches = 0
  MaxDrops = 2
  MaxFaults = 1
  MaxResolves = 0
SPECIFICATION FairSpec
CHECK_DEADLOCK FALSE
CONSTRAINT OneChange
INVARIANTS NoDuplicateInvoice DeletionsArrive
PROPERTY Converges
