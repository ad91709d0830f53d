\* An internal edit while an edit from QuickBooks is on its way in.
CONSTANTS
  d1 = d1  d2 = d2  w1 = w1  w2 = w2
  None = None
  a1 = a1  a2 = a2  a3 = a3
  Internal = Internal
  Docs = {d1, d2}
  Amounts = {a1, a2, a3}
  Zero = Zero
  Workers = {w1}
  Reconciling = FALSE
  Overlap = FALSE
  Exhaustible = FALSE
  EditsDeleted = FALSE
  MaxEdits = 1
  MaxDeletes = 0
  MaxQboEdits = 1
  MaxVoids = 0
  MaxEntries = 0
  MaxOthers = 0
  MaxTouches = 0
  MaxDrops = 0
  MaxFaults = 0
  MaxResolves = 0
SPECIFICATION Spec
SYMMETRY Symmetry
CHECK_DEADLOCK FALSE
PROPERTY PullKeepsInternalEdits
