-------------------------- MODULE BridgeProcess_proofs --------------------------
(***************************************************************************)
(* Proofs about BridgeProcess for any notification, and any number of      *)
(* rejections, signals and losses.                                         *)
(***************************************************************************)
EXTENDS BridgeProcess, TLAPS

\* A loop's `current` is open exactly while the loop awaits it.
PromisesFit ==
  /\ worker.current = "pending" <=> worker.pc \in {"claiming", "empty", "running"}
  /\ reconciler.current = "pending" <=> reconciler.pc = "passing"

\* shutdown() stops one loop after the other, and goes on from a loop when nothing
\* of it is in flight any more.
StopsInOrder ==
  /\ shutdown = "none" => stopped = {}
  /\ shutdown = "listener" => stopped = {"listener"}
  /\ shutdown = "reconciler" => stopped = {"listener", "reconciler"}
  /\ shutdown \in {"worker", "server"} => stopped = Loop
  /\ shutdown \in {"worker", "server"} => reconciler.pc # "passing"
  /\ shutdown = "server" => worker.current # "pending"
  /\ exit = "drained" => shutdown = "server" /\ request = 0

Inv == TypeOK /\ PromisesFit /\ StopsInOrder

LEMMA EndType ==
  ASSUME Types, Running, NEW how \in {"drained", "failed"}, End(how)
  PROVE  /\ event' \in [Entities -> Event]
         /\ \A e \in Entities : event'[e] # "held"
         /\ request' = 0 /\ exit' = how
  BY DEF End, Types, Event

\* Every step keeps the types.
LEMMA NextType ==
  ASSUME Types, [Next]_vars
  PROVE  Types'
<1> USE DEF Types, Running, process, loops, budget, Event, Promise, WorkerPc, PassPc, Loop, Shutdown
<1>1. CASE Start
  BY <1>1 DEF Start, Fresh
<1>2. CASE Listen
  BY <1>2 DEF Listen
<1>3. CASE Deliver
  BY <1>3 DEF Deliver
<1>4. CASE Ingest
  <2>1. Len(Notification) \in Nat BY NotificationLists
  <2>2. \A e \in Entities : Inserted(e) \in [Entities -> Event]
                         /\ \A d \in Entities : Inserted(e)[d] = "held" <=> event[d] = "held"
    BY DEF Inserted
  <2>3. Notification[request] \in Entities BY <1>4, <2>1, NotificationLists DEF Ingest
  <2>4. /\ event' \in [Entities -> Event]
        /\ \A d \in Entities : event'[d] = "held" <=> event[d] = "held"
    BY <1>4, <2>2, <2>3 DEF Ingest
  <2>5. told' \in BOOLEAN
    BY <1>4 DEF Ingest
  <2> QED BY <1>4, <2>1, <2>4, <2>5 DEF Ingest
<1>5. CASE Respond
  <2>1. Len(Notification) \in Nat BY NotificationLists
  <2>2. /\ answered' \in BOOLEAN /\ request' = 0 /\ UNCHANGED <<event, process>>
        /\ rejects' = rejects /\ signals' = signals
    BY <1>5 DEF Respond, Lose
  <2>3. losses' \in Nat
    BY <1>5 DEF Respond, Lose
  <2> QED BY <2>1, <2>2, <2>3
<1>6. CASE WorkerLoop
  BY <1>6 DEF WorkerLoop, Work
<1>7. CASE ClaimOne
  BY <1>7 DEF ClaimOne, Work
<1>8. CASE ClaimNothing
  BY <1>8 DEF ClaimNothing, Work
<1>9. CASE GoIdle
  BY <1>9 DEF GoIdle, Work
<1>10. CASE Settle
  BY <1>10 DEF Settle, Work
<1>11. CASE Poll
  BY <1>11 DEF Poll, Woken
<1>12. CASE ReconcilerLoop
  <2>1. reconciler' \in [pc : PassPc, current : Promise]
    BY <1>12 DEF ReconcilerLoop, Pass
  <2>2. UNCHANGED <<event, request, answered, server, worker, listener, told, stopped,
                    shutdown, exit, budget>>
    BY <1>12 DEF ReconcilerLoop, Pass
  <2> QED BY <2>1, <2>2
<1>13. CASE PassEnds
  BY <1>13 DEF PassEnds, Pass
<1>14. CASE SleepEnds
  BY <1>14 DEF SleepEnds, Pass
<1>15. CASE Connected
  BY <1>15 DEF Connected, Connection
<1>16. CASE Closed
  BY <1>16 DEF Closed, Connection
<1>17. CASE Reconnect
  BY <1>17 DEF Reconnect, Connection
<1>18. CASE Notify
  <2>1. worker' \in [pc : WorkerPc, current : Promise]
        /\ (worker'.pc = "running" <=> worker.pc = "running")
    BY <1>18 DEF Notify, Woken
  <2>2. /\ told' \in BOOLEAN
        /\ UNCHANGED <<event, request, answered, server, reconciler, listener, stopped,
                       shutdown, exit, budget>>
    BY <1>18 DEF Notify
  <2> QED BY <2>1, <2>2
<1>19. ASSUME NEW e \in Entities, Due(e) PROVE Types'
  BY <1>19 DEF Due
<1>20. CASE Signal
  BY <1>20 DEF Signal, Stopping
<1>21. CASE ListenerStopped
  BY <1>21 DEF ListenerStopped, Stopping
<1>22. CASE ReconcilerStopped
  BY <1>22 DEF ReconcilerStopped, Stopping, Over, Woken
<1>23. CASE WorkerStopped
  BY <1>23 DEF WorkerStopped, Stopping, Over
<1>24. CASE ServerClosed
  <2>1. PICK how \in {"drained", "failed"} : Running /\ End(how)
    BY <1>24 DEF ServerClosed
  <2>2. /\ event' \in [Entities -> Event]
        /\ \A e \in Entities : event'[e] # "held"
        /\ request' = 0 /\ exit' = how
    BY <2>1, EndType
  <2>3. Len(Notification) \in Nat BY NotificationLists
  <2> QED BY <1>24, <2>1, <2>2, <2>3 DEF ServerClosed, End
<1>25. CASE ShutdownRejects
  <2>1. PICK how \in {"drained", "failed"} : Running /\ End(how)
    BY <1>25 DEF ShutdownRejects
  <2>2. /\ event' \in [Entities -> Event]
        /\ \A e \in Entities : event'[e] # "held"
        /\ request' = 0 /\ exit' = how
    BY <2>1, EndType
  <2>3. Len(Notification) \in Nat BY NotificationLists
  <2>4. told' \in BOOLEAN
        /\ UNCHANGED <<answered, server, loops, listener, stopped, shutdown, budget>>
    BY <1>25, <2>1 DEF ShutdownRejects, End
  <2> QED BY <2>2, <2>3, <2>4
<1>26. CASE ListenFails
  <2>1. PICK how \in {"drained", "failed"} : Running /\ End(how)
    BY <1>26 DEF ListenFails
  <2>2. /\ event' \in [Entities -> Event]
        /\ \A e \in Entities : event'[e] # "held"
        /\ request' = 0 /\ exit' = how
    BY <2>1, EndType
  <2>3. Len(Notification) \in Nat BY NotificationLists
  <2>4. told' \in BOOLEAN
        /\ UNCHANGED <<answered, server, loops, listener, stopped, shutdown>>
    BY <2>1 DEF End
  <2>5. losses' = losses + 1 /\ rejects' = rejects /\ signals' = signals
    BY <1>26 DEF ListenFails, Lose
  <2> QED BY <2>2, <2>3, <2>4, <2>5
<1>27. CASE IngestFails
  BY <1>27 DEF IngestFails, Reject
<1>28. CASE WorkerRejects
  BY <1>28 DEF WorkerRejects, Reject, Work
<1>29. CASE PassRejects
  BY <1>29 DEF PassRejects, Reject, Pass
<1>30. CASE Disconnected
  <2>1. listener' = "closing" /\ told' \in BOOLEAN
        /\ UNCHANGED <<event, request, answered, server, loops, stopped, shutdown, exit>>
    BY <1>30 DEF Disconnected, Connection
  <2>2. losses' = losses + 1 /\ rejects' = rejects /\ signals' = signals
    BY <1>30 DEF Disconnected, Lose
  <2> QED BY <2>1, <2>2
<1>31. CASE UNCHANGED vars
  BY <1>31 DEF vars
<1> QED
  BY <1>1, <1>2, <1>3, <1>4, <1>5, <1>6, <1>7, <1>8, <1>9, <1>10, <1>11, <1>12,
     <1>13, <1>14, <1>15, <1>16, <1>17, <1>18, <1>19, <1>20, <1>21, <1>22, <1>23,
     <1>24, <1>25, <1>26, <1>27, <1>28, <1>29, <1>30, <1>31
  DEF Next, Webhook, Worker, Reconciler, Listener, Stop, Mishap

\* Every step keeps the worker and the row it holds together.
LEMMA NextHeld ==
  ASSUME Types, HeldFits, [Next]_vars
  PROVE  HeldFits'
<1> USE DEF Types, HeldFits, Running, process, loops, budget, Event
<1>1. CASE Start
  BY <1>1 DEF Start, Fresh
<1>2. CASE Listen
  BY <1>2 DEF Listen
<1>3. CASE Deliver
  BY <1>3 DEF Deliver
<1>4. CASE Ingest
  BY <1>4 DEF Ingest, Inserted
<1>5. CASE Respond
  BY <1>5 DEF Respond, Lose
<1>6. CASE WorkerLoop
  BY <1>6 DEF WorkerLoop, Work
<1>7. CASE ClaimOne
  BY <1>7 DEF ClaimOne, Work
<1>8. CASE ClaimNothing
  BY <1>8 DEF ClaimNothing, Work
<1>9. CASE GoIdle
  BY <1>9 DEF GoIdle, Work
<1>10. CASE Settle
  BY <1>10 DEF Settle, Work
<1>11. CASE Poll
  BY <1>11 DEF Poll, Woken
<1>12. CASE ReconcilerLoop
  <2>1. CASE "reconciler" \in stopped
    BY <1>12, <2>1 DEF ReconcilerLoop, Pass
  <2>2. CASE "reconciler" \notin stopped
    BY <1>12, <2>2 DEF ReconcilerLoop, Pass
  <2> QED BY <2>1, <2>2
<1>13. CASE PassEnds
  BY <1>13 DEF PassEnds, Pass
<1>14. CASE SleepEnds
  BY <1>14 DEF SleepEnds, Pass
<1>15. CASE Connected
  BY <1>15 DEF Connected, Connection
<1>16. CASE Closed
  BY <1>16 DEF Closed, Connection
<1>17. CASE Reconnect
  BY <1>17 DEF Reconnect, Connection
<1>18. CASE Notify
  BY <1>18 DEF Notify, Woken
<1>19. ASSUME NEW e \in Entities, Due(e) PROVE HeldFits'
  BY <1>19 DEF Due
<1>20. CASE Signal
  BY <1>20 DEF Signal, Stopping
<1>21. CASE ListenerStopped
  BY <1>21 DEF ListenerStopped, Stopping
<1>22. CASE ReconcilerStopped
  BY <1>22 DEF ReconcilerStopped, Stopping, Over, Woken
<1>23. CASE WorkerStopped
  BY <1>23 DEF WorkerStopped, Stopping, Over
<1>24. CASE ServerClosed
  BY <1>24 DEF ServerClosed, End
<1>25. CASE ShutdownRejects
  BY <1>25 DEF ShutdownRejects, End
<1>26. CASE ListenFails
  BY <1>26 DEF ListenFails, Lose, End
<1>27. CASE IngestFails
  BY <1>27 DEF IngestFails, Reject
<1>28. CASE WorkerRejects
  BY <1>28 DEF WorkerRejects, Reject, Work
<1>29. CASE PassRejects
  BY <1>29 DEF PassRejects, Reject, Pass
<1>30. CASE Disconnected
  BY <1>30 DEF Disconnected, Connection, Lose
<1>31. CASE UNCHANGED vars
  BY <1>31 DEF vars
<1> QED
  BY <1>1, <1>2, <1>3, <1>4, <1>5, <1>6, <1>7, <1>8, <1>9, <1>10, <1>11, <1>12,
     <1>13, <1>14, <1>15, <1>16, <1>17, <1>18, <1>19, <1>20, <1>21, <1>22, <1>23,
     <1>24, <1>25, <1>26, <1>27, <1>28, <1>29, <1>30, <1>31
  DEF Next, Webhook, Worker, Reconciler, Listener, Stop, Mishap

\* Every step keeps the promises in step with the loops.
LEMMA NextPromises ==
  ASSUME Types, PromisesFit, [Next]_vars
  PROVE  PromisesFit'
<1> USE DEF Types, PromisesFit, Running, process, loops, budget, Promise, WorkerPc, PassPc
<1>1. CASE Start
  BY <1>1 DEF Start, Fresh
<1>2. CASE Listen
  BY <1>2 DEF Listen
<1>3. CASE Deliver
  BY <1>3 DEF Deliver
<1>4. CASE Ingest
  BY <1>4 DEF Ingest, Inserted
<1>5. CASE Respond
  BY <1>5 DEF Respond, Lose
<1>6. CASE WorkerLoop
  BY <1>6 DEF WorkerLoop, Work
<1>7. CASE ClaimOne
  BY <1>7 DEF ClaimOne, Work
<1>8. CASE ClaimNothing
  BY <1>8 DEF ClaimNothing, Work
<1>9. CASE GoIdle
  BY <1>9 DEF GoIdle, Work
<1>10. CASE Settle
  BY <1>10 DEF Settle, Work
<1>11. CASE Poll
  BY <1>11 DEF Poll, Woken
<1>12. CASE ReconcilerLoop
  <2>1. CASE "reconciler" \in stopped
    BY <1>12, <2>1 DEF ReconcilerLoop, Pass
  <2>2. CASE "reconciler" \notin stopped
    BY <1>12, <2>2 DEF ReconcilerLoop, Pass
  <2> QED BY <2>1, <2>2
<1>13. CASE PassEnds
  BY <1>13 DEF PassEnds, Pass
<1>14. CASE SleepEnds
  BY <1>14 DEF SleepEnds, Pass
<1>15. CASE Connected
  BY <1>15 DEF Connected, Connection
<1>16. CASE Closed
  BY <1>16 DEF Closed, Connection
<1>17. CASE Reconnect
  BY <1>17 DEF Reconnect, Connection
<1>18. CASE Notify
  BY <1>18 DEF Notify, Woken
<1>19. ASSUME NEW e \in Entities, Due(e) PROVE PromisesFit'
  BY <1>19 DEF Due
<1>20. CASE Signal
  BY <1>20 DEF Signal, Stopping
<1>21. CASE ListenerStopped
  BY <1>21 DEF ListenerStopped, Stopping
<1>22. CASE ReconcilerStopped
  BY <1>22 DEF ReconcilerStopped, Stopping, Over, Woken
<1>23. CASE WorkerStopped
  BY <1>23 DEF WorkerStopped, Stopping, Over
<1>24. CASE ServerClosed
  BY <1>24 DEF ServerClosed, End
<1>25. CASE ShutdownRejects
  BY <1>25 DEF ShutdownRejects, End
<1>26. CASE ListenFails
  BY <1>26 DEF ListenFails, Lose, End
<1>27. CASE IngestFails
  BY <1>27 DEF IngestFails, Reject
<1>28. CASE WorkerRejects
  BY <1>28 DEF WorkerRejects, Reject, Work
<1>29. CASE PassRejects
  BY <1>29 DEF PassRejects, Reject, Pass
<1>30. CASE Disconnected
  BY <1>30 DEF Disconnected, Connection, Lose
<1>31. CASE UNCHANGED vars
  BY <1>31 DEF vars
<1> QED
  BY <1>1, <1>2, <1>3, <1>4, <1>5, <1>6, <1>7, <1>8, <1>9, <1>10, <1>11, <1>12,
     <1>13, <1>14, <1>15, <1>16, <1>17, <1>18, <1>19, <1>20, <1>21, <1>22, <1>23,
     <1>24, <1>25, <1>26, <1>27, <1>28, <1>29, <1>30, <1>31
  DEF Next, Webhook, Worker, Reconciler, Listener, Stop, Mishap

\* Every step keeps the order of the shutdown.
LEMMA NextStops ==
  ASSUME Inv, [Next]_vars
  PROVE  StopsInOrder'
<1> USE DEF Inv, TypeOK, Types, PromisesFit, StopsInOrder, Running, process, loops, budget, Promise, Loop
<1>1. CASE Start
  BY <1>1 DEF Start, Fresh
<1>2. CASE Listen
  BY <1>2 DEF Listen
<1>3. CASE Deliver
  BY <1>3 DEF Deliver
<1>4. CASE Ingest
  BY <1>4 DEF Ingest, Inserted
<1>5. CASE Respond
  BY <1>5 DEF Respond, Lose
<1>6. CASE WorkerLoop
  BY <1>6 DEF WorkerLoop, Work
<1>7. CASE ClaimOne
  BY <1>7 DEF ClaimOne, Work
<1>8. CASE ClaimNothing
  BY <1>8 DEF ClaimNothing, Work
<1>9. CASE GoIdle
  BY <1>9 DEF GoIdle, Work
<1>10. CASE Settle
  BY <1>10 DEF Settle, Work
<1>11. CASE Poll
  BY <1>11 DEF Poll, Woken
<1>12. CASE ReconcilerLoop
  <2>1. CASE "reconciler" \in stopped
    <3>1. reconciler' = [pc |-> "ended", current |-> reconciler.current]
      BY <1>12, <2>1 DEF ReconcilerLoop, Pass
    <3>2. UNCHANGED <<stopped, shutdown, worker, exit, request>>
      BY <1>12 DEF ReconcilerLoop, Pass
    <3> QED BY <3>1, <3>2
  <2>2. CASE "reconciler" \notin stopped
    <3>1. shutdown \notin {"worker", "server"}
      BY <2>2
    <3>2. UNCHANGED <<stopped, shutdown, worker, exit, request>>
      BY <1>12 DEF ReconcilerLoop, Pass
    <3> QED BY <3>1, <3>2
  <2> QED BY <2>1, <2>2
<1>13. CASE PassEnds
  BY <1>13 DEF PassEnds, Pass
<1>14. CASE SleepEnds
  BY <1>14 DEF SleepEnds, Pass
<1>15. CASE Connected
  BY <1>15 DEF Connected, Connection
<1>16. CASE Closed
  BY <1>16 DEF Closed, Connection
<1>17. CASE Reconnect
  BY <1>17 DEF Reconnect, Connection
<1>18. CASE Notify
  BY <1>18 DEF Notify, Woken
<1>19. ASSUME NEW e \in Entities, Due(e) PROVE StopsInOrder'
  BY <1>19 DEF Due
<1>20. CASE Signal
  BY <1>20 DEF Signal, Stopping
<1>21. CASE ListenerStopped
  BY <1>21 DEF ListenerStopped, Stopping
<1>22. CASE ReconcilerStopped
  BY <1>22 DEF ReconcilerStopped, Stopping, Over, Woken
<1>23. CASE WorkerStopped
  BY <1>23 DEF WorkerStopped, Stopping, Over
<1>24. CASE ServerClosed
  BY <1>24 DEF ServerClosed, End
<1>25. CASE ShutdownRejects
  BY <1>25 DEF ShutdownRejects, End
<1>26. CASE ListenFails
  BY <1>26 DEF ListenFails, Lose, End
<1>27. CASE IngestFails
  BY <1>27 DEF IngestFails, Reject
<1>28. CASE WorkerRejects
  BY <1>28 DEF WorkerRejects, Reject, Work
<1>29. CASE PassRejects
  BY <1>29 DEF PassRejects, Reject, Pass
<1>30. CASE Disconnected
  BY <1>30 DEF Disconnected, Connection, Lose
<1>31. CASE UNCHANGED vars
  BY <1>31 DEF vars
<1> QED
  BY <1>1, <1>2, <1>3, <1>4, <1>5, <1>6, <1>7, <1>8, <1>9, <1>10, <1>11, <1>12,
     <1>13, <1>14, <1>15, <1>16, <1>17, <1>18, <1>19, <1>20, <1>21, <1>22, <1>23,
     <1>24, <1>25, <1>26, <1>27, <1>28, <1>29, <1>30, <1>31
  DEF Next, Webhook, Worker, Reconciler, Listener, Stop, Mishap

LEMMA InitInv == Init => Inv
<1> SUFFICES ASSUME Init PROVE Inv
  OBVIOUS
<1>1. Len(Notification) \in Nat BY NotificationLists
<1>2. Types
  <2>1. /\ Fresh.worker \in [pc : WorkerPc, current : Promise]
        /\ Fresh.reconciler \in [pc : PassPc, current : Promise]
        /\ Fresh.server = "starting" /\ Fresh.listener = "connecting"
    BY DEF Fresh, WorkerPc, PassPc, Promise
  <2>2. answered \in BOOLEAN /\ told \in BOOLEAN
    BY DEF Init
  <2>3. event \in [Entities -> Event]
    BY DEF Init, Event
  <2>4. /\ request = 0 /\ stopped = {} /\ shutdown = "none" /\ exit = "running"
        /\ rejects = 0 /\ signals = 0 /\ losses = 0
        /\ server = Fresh.server /\ worker = Fresh.worker
        /\ reconciler = Fresh.reconciler /\ listener = Fresh.listener
    BY DEF Init
  <2> QED BY <1>1, <2>1, <2>2, <2>3, <2>4 DEF Types, Shutdown
<1>3. HeldFits
  <2>1. \A e \in Entities : event[e] # "held" BY DEF Init
  <2>2. worker.pc # "running" BY DEF Init, Fresh
  <2> QED BY <2>1, <2>2 DEF HeldFits
<1>4. PromisesFit BY DEF Init, Fresh, PromisesFit
<1>5. StopsInOrder BY DEF Init, StopsInOrder
<1> QED BY <1>2, <1>3, <1>4, <1>5 DEF Inv, TypeOK

LEMMA NextInv == Inv /\ [Next]_vars => Inv'
  BY NextType, NextHeld, NextPromises, NextStops DEF Inv, TypeOK

\* The inductive invariant.
LEMMA Invariance == Spec => []Inv
  BY InitInv, NextInv, PTL DEF Spec

\* Types hold, and the worker holds an event exactly while it runs one.
THEOREM ProcessTypeOK == Spec => []TypeOK
<1>1. Inv => TypeOK BY DEF Inv
<1> QED BY <1>1, Invariance, PTL

\* shutdown() gets to process.exit(0) only with nothing of the process in flight.
THEOREM Drained == Spec => []DrainedMeansDrained
<1>1. Inv => DrainedMeansDrained
  BY DEF Inv, TypeOK, Types, PromisesFit, StopsInOrder, DrainedMeansDrained
<1> QED BY <1>1, Invariance, PTL

\* When worker.stop() has resolved no event is begun: the loop is past its last turn.
THEOREM NothingLate == Spec => NothingClaimedLate
<1>1. ASSUME Inv, [Next]_vars, shutdown = "server", NEW e \in Entities,
             event'[e] = "held", event[e] # "held"
      PROVE  FALSE
  <2>1. event \in [Entities -> Event] /\ worker.pc # "claiming"
    BY <1>1 DEF Inv, TypeOK, Types, PromisesFit, StopsInOrder
  <2>2. CASE ClaimOne
    BY <2>1, <2>2 DEF ClaimOne
  <2>3. CASE Ingest
    BY <1>1, <2>1, <2>3 DEF Ingest, Inserted, Event
  <2>4. CASE Settle \/ WorkerRejects
    BY <1>1, <2>1, <2>4 DEF Settle, WorkerRejects
  <2>5. CASE ListenFails \/ ServerClosed \/ ShutdownRejects
    BY <1>1, <2>1, <2>5 DEF ListenFails, ServerClosed, ShutdownRejects, End
  <2>6. ASSUME NEW d \in Entities, Due(d) PROVE FALSE
    BY <1>1, <2>1, <2>6 DEF Due
  <2>7. CASE UNCHANGED event
    BY <1>1, <2>7
  <2> QED
    BY <1>1, <2>2, <2>3, <2>4, <2>5, <2>6, <2>7
    DEF Next, Webhook, Worker, Reconciler, Listener, Stop, Mishap, vars, process, loops,
        Start, Listen, Deliver, Respond, WorkerLoop, ClaimNothing, GoIdle, Poll,
        ReconcilerLoop, PassEnds, PassRejects, SleepEnds, Pass, Connected, Disconnected,
        Closed, Reconnect, Connection, Notify, Signal, ListenerStopped,
        ReconcilerStopped, WorkerStopped, IngestFails
<1>2. Inv /\ [Next]_vars =>
        [shutdown = "server" => \A e \in Entities : event'[e] = "held" => event[e] = "held"]_vars
  BY <1>1
<1> QED BY <1>2, Invariance, PTL DEF Spec, NothingClaimedLate

\* What was handled stays so, whatever QuickBooks sends again.
THEOREM HandledOnce == Spec => HandledIsNotRepeated
<1>1. ASSUME TypeOK, [Next]_vars, NEW e \in Entities, event[e] = "done"
      PROVE  event'[e] = "done"
  <2>1. event \in [Entities -> Event]
    BY <1>1 DEF TypeOK, Types
  <2>2. CASE ClaimOne
    BY <1>1, <2>1, <2>2 DEF ClaimOne
  <2>3. CASE Ingest
    BY <1>1, <2>1, <2>3 DEF Ingest, Inserted
  <2>4. CASE Settle \/ WorkerRejects
    BY <1>1, <2>1, <2>4 DEF Settle, WorkerRejects
  <2>5. CASE ListenFails \/ ServerClosed \/ ShutdownRejects
    BY <1>1, <2>1, <2>5 DEF ListenFails, ServerClosed, ShutdownRejects, End
  <2>6. ASSUME NEW d \in Entities, Due(d) PROVE event'[e] = "done"
    BY <1>1, <2>1, <2>6 DEF Due
  <2>7. CASE UNCHANGED event
    BY <1>1, <2>7
  <2> QED
    BY <1>1, <2>2, <2>3, <2>4, <2>5, <2>6, <2>7
    DEF Next, Webhook, Worker, Reconciler, Listener, Stop, Mishap, vars, process, loops,
        Start, Listen, Deliver, Respond, WorkerLoop, ClaimNothing, GoIdle, Poll,
        ReconcilerLoop, PassEnds, PassRejects, SleepEnds, Pass, Connected, Disconnected,
        Closed, Reconnect, Connection, Notify, Signal, ListenerStopped,
        ReconcilerStopped, WorkerStopped, IngestFails
<1>2. TypeOK /\ [Next]_vars =>
        [\A e \in Entities : event[e] = "done" => event'[e] = "done"]_vars
  BY <1>1
<1> QED BY <1>2, ProcessTypeOK, PTL DEF Spec, HandledIsNotRepeated
--------------------------------------------------------------------------------
(***************************************************************************)
(* The events of a notification live as the outbox promises.               *)
(***************************************************************************)
StageOf(s) ==
  CASE s = "held" -> "running" [] s \in {"pending", "waiting"} -> "queued" [] OTHER -> s

LifeStage == [e \in Entities |-> StageOf(event[e])]

Life == INSTANCE EventLifecycle WITH Events <- Entities, stage <- LifeStage

\* One loop works on one event.
OneHeld == \A d, e \in Entities : event[d] = "held" /\ event[e] = "held" => d = e

\* The only ways an event's row moves, one row at a time.
EventMoves(e) ==
  \/ event[e] = "absent" /\ event' = [event EXCEPT ![e] = "pending"]
  \/ event[e] = "waiting" /\ event' = [event EXCEPT ![e] = "pending"]
  \/ /\ event[e] = "pending" /\ event' = [event EXCEPT ![e] = "held"]
     /\ \A d \in Entities : event[d] # "held"
  \/ event[e] = "held" /\ event' = [event EXCEPT ![e] = "waiting"]
  \/ event[e] = "held" /\ event' = [event EXCEPT ![e] = "done"]

LEMMA LetGo ==
  ASSUME OneHeld, event \in [Entities -> Event], NEW s \in {"waiting", "done"},
         event' = [e \in Entities |-> IF event[e] = "held" THEN s ELSE event[e]]
  PROVE  UNCHANGED event \/ \E e \in Entities : EventMoves(e)
<1>1. CASE \A e \in Entities : event[e] # "held"
  BY <1>1
<1>2. ASSUME NEW e \in Entities, event[e] = "held" PROVE EventMoves(e)
  <2>1. event' = [event EXCEPT ![e] = s] BY <1>2 DEF OneHeld
  <2> QED BY <1>2, <2>1 DEF EventMoves
<1> QED BY <1>1, <1>2

LEMMA EventSteps ==
  ASSUME Inv, OneHeld, [Next]_vars
  PROVE  UNCHANGED event \/ \E e \in Entities : EventMoves(e)
<1>0. event \in [Entities -> Event] /\ HeldFits
  BY DEF Inv, TypeOK, Types
<1>1. CASE ClaimOne
  <2>1. PICK e \in Entities : event[e] = "pending" /\ event' = [event EXCEPT ![e] = "held"]
    BY <1>1 DEF ClaimOne
  <2>2. \A d \in Entities : event[d] # "held" BY <1>0, <1>1 DEF ClaimOne, HeldFits
  <2> QED BY <2>1, <2>2 DEF EventMoves
<1>2. CASE Ingest
  <2> DEFINE e == Notification[request]
  <2>1. e \in Entities
    <3>1. Len(Notification) \in Nat BY NotificationLists
    <3> QED BY <1>2, <3>1, NotificationLists DEF Ingest
  <2>2. \/ UNCHANGED event
        \/ event[e] = "absent" /\ event' = [event EXCEPT ![e] = "pending"]
    BY <1>2 DEF Ingest, Inserted
  <2> HIDE DEF e
  <2> QED BY <2>1, <2>2 DEF EventMoves
<1>3. CASE Settle
  BY <1>0, <1>3, LetGo DEF Settle
<1>4. CASE WorkerRejects
  BY <1>0, <1>4, LetGo DEF WorkerRejects
<1>5. CASE ListenFails \/ ServerClosed \/ ShutdownRejects
  BY <1>0, <1>5, LetGo DEF ListenFails, ServerClosed, ShutdownRejects, End
<1>6. ASSUME NEW d \in Entities, Due(d) PROVE EventMoves(d)
  BY <1>6 DEF Due, EventMoves
<1> QED
  BY <1>1, <1>2, <1>3, <1>4, <1>5, <1>6
  DEF Next, Webhook, Worker, Reconciler, Listener, Stop, Mishap, vars, process, loops,
      Start, Listen, Deliver, Respond, WorkerLoop, ClaimNothing, GoIdle, Poll,
      ReconcilerLoop, PassEnds, PassRejects, SleepEnds, Pass, Connected, Disconnected,
      Closed, Reconnect, Connection, Notify, Signal, ListenerStopped,
      ReconcilerStopped, WorkerStopped, IngestFails

LEMMA OneHeldStep == Inv /\ OneHeld /\ [Next]_vars => OneHeld'
<1> SUFFICES ASSUME Inv, OneHeld, [Next]_vars PROVE OneHeld'
  OBVIOUS
<1>0. event \in [Entities -> Event]
  BY DEF Inv, TypeOK, Types
<1>1. ASSUME NEW e \in Entities, EventMoves(e) PROVE OneHeld'
  BY <1>0, <1>1 DEF EventMoves, OneHeld
<1>2. CASE UNCHANGED event
  BY <1>2 DEF OneHeld
<1> QED BY <1>1, <1>2, EventSteps

\* Through failed inserts, repeated notifications, dead processes and restarts an event
\* goes the way EventLifecycle says: it is run, and a run ends in success or in another
\* try; nothing is marked done that was not running, and what is done stays so.
THEOREM EventsLive == Spec => Life!Spec
<1>1. Init => OneHeld
  BY DEF Init, OneHeld
<1>2. Init => Life!Init
  BY DEF Init, Life!Init, LifeStage, StageOf
<1>3. Inv /\ OneHeld /\ [Next]_vars => [Life!Next]_LifeStage
  <2> SUFFICES ASSUME Inv, OneHeld, [Next]_vars PROVE Life!Next \/ UNCHANGED LifeStage
    OBVIOUS
  <2>0. event \in [Entities -> Event]
    BY DEF Inv, TypeOK, Types
  <2>1. CASE UNCHANGED event
    BY <2>1 DEF LifeStage
  <2>2. ASSUME NEW e \in Entities, EventMoves(e) PROVE Life!Next \/ UNCHANGED LifeStage
    <3>1. ASSUME NEW s, event' = [event EXCEPT ![e] = s]
          PROVE  LifeStage' = [LifeStage EXCEPT ![e] = StageOf(s)]
      BY <2>0, <3>1 DEF LifeStage
    <3>2. LifeStage[e] = StageOf(event[e])
      BY DEF LifeStage
    <3>3. CASE event[e] = "absent" /\ event' = [event EXCEPT ![e] = "pending"]
      <4>1. Life!Enqueue(e) BY <3>1, <3>2, <3>3 DEF StageOf, Life!Enqueue, Life!Move
      <4> QED BY <4>1 DEF Life!Next
    <3>4. CASE event[e] = "waiting" /\ event' = [event EXCEPT ![e] = "pending"]
      <4>1. LifeStage' = [LifeStage EXCEPT ![e] = LifeStage[e]]
        BY <3>1, <3>2, <3>4 DEF StageOf
      <4> QED BY <4>1 DEF LifeStage
    <3>5. CASE event[e] = "pending" /\ event' = [event EXCEPT ![e] = "held"]
      <4>1. Life!Start(e) BY <3>1, <3>2, <3>5 DEF StageOf, Life!Start, Life!Move
      <4> QED BY <4>1 DEF Life!Next
    <3>6. CASE event[e] = "held" /\ event' = [event EXCEPT ![e] = "waiting"]
      <4>1. Life!Release(e) BY <3>1, <3>2, <3>6 DEF StageOf, Life!Release, Life!Move
      <4> QED BY <4>1 DEF Life!Next
    <3>7. CASE event[e] = "held" /\ event' = [event EXCEPT ![e] = "done"]
      <4>1. Life!Finish(e) BY <3>1, <3>2, <3>7 DEF StageOf, Life!Finish, Life!Move
      <4> QED BY <4>1 DEF Life!Next
    <3> QED BY <2>2, <3>3, <3>4, <3>5, <3>6, <3>7 DEF EventMoves
  <2> QED BY <2>1, <2>2, EventSteps
<1> QED BY <1>1, <1>2, <1>3, OneHeldStep, Invariance, PTL DEF Spec, Life!Spec
================================================================================
