\* A change in QuickBooks of a field that is not synced, and a deletion.
CONSTANTS
  d1 = d1  d2 = d2  w1 = w1  w2 = w2
  None = None
  a1 = a1  a2 = a2  a3 = a3
  Internal = Internal
  Docs = {d1, d2}
  Amounts = {a1, a2, a3}
  Zero = Zero
  Workers = {w1}
  Reconciling = FALSE
  Overlap = FALSE
  Exhaustible = FALSE
  EditsDeleted = FALSE
  MaxEdits = 0
  MaxDeletes = 1
  MaxQboEdits = 0
  MaxVoids = 0
  MaxEntries = 0
  MaxOthers = 0
  MaxTouches = 1
  MaxDrops = 0
  MaxFaults = 0
  MaxResolves = 0
SPECIFICATION Spec
SYMMETRY Symmetry
CHECK_DEADLOCK FALSE
INVARIANT DeletedIsVoided
