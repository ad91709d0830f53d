---------------------------- MODULE EventLifecycle ----------------------------
(***************************************************************************)
(* What the outbox table sync_events promises about one event, with no     *)
(* rows, clocks, leases or workers: an event that was enqueued is run, a   *)
(* run ends in another try, in success or in the dead-letter list, and     *)
(* nothing is finished that was not run after it was last asked for.       *)
(* Outbox.tla implements it.                                               *)
(***************************************************************************)
CONSTANT Events

VARIABLE stage

Stage == {"absent", "queued", "running", "done", "dead"}

Move(e, from, to) ==
  /\ stage[e] \in from
  /\ stage' = [stage EXCEPT ![e] = to]

Init == stage = [e \in Events |-> "absent"]

Enqueue(e) == Move(e, {"absent"}, "queued")
Start(e)   == Move(e, {"queued"}, "running")
Release(e) == Move(e, {"running"}, "queued")
Finish(e)  == Move(e, {"running"}, "done")
Bury(e)    == Move(e, {"running"}, "dead")
Replay(e)  == Move(e, {"queued", "done", "dead"}, "queued")

\* The writer of "done" may never learn that the write landed; it then takes
\* the run for failed and releases or buries the event again.
Retract(e) == Move(e, {"done"}, "dead")

Next ==
  \E e \in Events :
    \/ Enqueue(e) \/ Start(e) \/ Release(e) \/ Finish(e)
    \/ Bury(e) \/ Replay(e) \/ Retract(e)

Spec == Init /\ [][Next]_stage
================================================================================
