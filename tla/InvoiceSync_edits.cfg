\* Two internal edits and a deletion against an edit, a void and a touch in
\* QuickBooks, one worker, nothing fails.
CONSTANTS
  d1 = d1  d2 = d2  w1 = w1  w2 = w2
  None = None
  a1 = a1  a2 = a2  a3 = a3
  Internal = Internal
  Docs = {d1, d2}
  Amounts = {a1, a2, a3}
  Zero = Zero
  Workers = {w1}
  Reconciling = FALSE
  Overlap = FALSE
  Exhaustible = FALSE
  EditsDeleted = FALSE
  MaxEdits = 2
  MaxDeletes = 1
  MaxQboEdits = 1
  MaxVoids = 1
  MaxEntries = 0
  MaxOthers = 0
  MaxTouches = 1
  MaxDrops = 0
  MaxFaults = 0
  MaxResolves = 0
SPECIFICATION Spec
SYMMETRY Symmetry
CHECK_DEADLOCK FALSE
INVARIANTS TypeOK DivergenceIsVisible EchoesDieOut DeletionsArrive ConflictsAreReal
PROPERTIES PushKeepsQboEdits HeldConflictIsHeld
