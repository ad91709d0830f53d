CONSTANTS
  e1 = e1  e2 = e2  l1 = l1  l2 = l2
  Internal = Internal  Quickbooks = Quickbooks
  None = None
  Events = {e1, e2}
  Links = {l1, l2}
  Sides = {Internal, Quickbooks}
  DemoActions = {"create-invoice", "edit-both", "reconcile"}
  Starts <- MCStarts
SPECIFICATION FairSpec
CHECK_DEADLOCK FALSE
INVARIANTS TypeOK PickedOnScreen OnlyDoneIsHidden DemoRunsOnce
PROPERTIES NoLateAnswer PollsComeTrue SpinnersStop
