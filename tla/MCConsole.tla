-------------------------------- MODULE MCConsole --------------------------------
EXTENDS Console, TLC

CONSTANTS e1, e2, l1, l2, Internal, Quickbooks

Situation(dead, inConflict, bury, flag, mishap, gets, late, posts, demos, pages) ==
  [dead |-> dead, conflict |-> inConflict, bury |-> bury, flag |-> flag,
   mishap |-> mishap, reads |-> gets, late |-> late, writes |-> posts,
   demos |-> demos, pages |-> pages]

OfEvents    == {"events", "event"}
OfConflicts == {"conflicts", "invoices", "invoice"}

\* Polls overtake each other, a late answer finds its page gone, reads fail.
Polls      == Situation({e1}, {l1}, 0, 1, 0, 2, 1, 0, 0, {"events", "conflicts"})
Overview   == Situation({e1}, {l1}, 0, 1, 1, 1, 0, 0, 0, {"overview"})
Addresses  == Situation({e1, e2}, {l1}, 0, 0, 0, 1, 1, 0, 0, {"event", "invoice", "invoices"})
FailedPoll == Situation({e1}, {l1}, 0, 0, 1, 2, 0, 0, 0, Pages)
\* Two dead events are replayed together, or one that dies again, with a failure.
Replays    == Situation({e1, e2}, {}, 0, 0, 0, 1, 0, 2, 0, {"events"})
OneReplay  == Situation({e1}, {}, 1, 0, 1, 1, 0, 1, 0, OfEvents)
\* Two conflicts, one conflict resolved twice, one that comes back, and a failure.
TwoSheets  == Situation({}, {l1, l2}, 0, 0, 0, 1, 0, 1, 0, OfConflicts)
TwoSides   == Situation({}, {l1}, 0, 0, 0, 1, 0, 2, 0, OfConflicts)
Reopened   == Situation({}, {l1}, 0, 1, 0, 1, 0, 1, 0, OfConflicts)
Unresolved == Situation({}, {l1}, 0, 0, 1, 1, 0, 1, 0, OfConflicts)
\* Two demo actions at a time, with a conflict that edit-both cannot use and one it can.
Demo       == Situation({}, {l1}, 0, 0, 0, 1, 0, 0, 2, {"overview", "events"})
Stuck      == Situation({}, {l1, l2}, 0, 0, 1, 1, 0, 0, 1, {"conflicts", "invoices"})

MCStarts == {Polls, Overview, Addresses, FailedPoll, Replays, OneReplay, TwoSheets,
             TwoSides, Reopened, Unresolved, Demo, Stuck}
================================================================================
