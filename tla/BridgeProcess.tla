----------------------------- MODULE BridgeProcess -----------------------------
(***************************************************************************)
(* One API process after another: the worker's loop, the reconciler's      *)
(* loop, the LISTEN connection that wakes the worker, the webhook requests *)
(* from QuickBooks, the shutdown on SIGTERM, and the restarts.  What an    *)
(* event's handler and a reconciler's pass do is other modules' business;  *)
(* here they end well or reject.                                           *)
(*                                                                         *)
(* The code between two awaits is one step.  `current` is the promise of   *)
(* the last processOne (or reconcileOnce): it stays rejected, or resolved, *)
(* while the loop waits for its next turn.                                 *)
(***************************************************************************)
EXTENDS Naturals, Sequences

CONSTANTS
  Entities,     \* the changed entities of the notification QuickBooks sends
  Invoices,     \* those of them that are invoices
  Notification, \* the order they are listed in
  MaxRejects,   \* bound on passes and statements that reject
  MaxSignals,   \* bound on SIGTERM and SIGINT
  MaxLosses     \* bound on failed starts, broken LISTENs and lost answers

ASSUME InvoicesAreEntities == Invoices \subseteq Entities
ASSUME NotificationLists ==
  /\ Notification \in Seq(Entities)
  /\ Invoices \subseteq {Notification[i] : i \in 1..Len(Notification)}
ASSUME BoundsAreNaturals ==
  MaxRejects \in Nat /\ MaxSignals \in Nat /\ MaxLosses \in Nat

VARIABLES
  event,       \* the row of sync_events of an entity, as far as it matters here
  request,     \* how far the webhook request has got; 0: none is in progress
  answered,    \* QuickBooks has got its 202
  server,      \* the HTTP server
  worker,      \* the worker's loop: where it stands, and its `current`
  reconciler,  \* the reconciler's loop, the same
  listener,    \* the LISTEN connection
  told,        \* a NOTIFY is on its way to the listener
  stopped,     \* the loops whose `stopped` is set
  shutdown,    \* what shutdown() is awaiting
  exit,        \* how the process ended
  rejects, signals, losses

loops   == <<worker, reconciler>>
process == <<server, loops, listener, told, stopped, shutdown, exit>>
budget  == <<rejects, signals, losses>>
vars    == <<event, request, answered, process, budget>>

Event    == {"absent", "pending", "held", "waiting", "done"}
Promise  == {"pending", "resolved", "rejected"}
WorkerPc == {"loop", "claiming", "empty", "running", "idle", "ended"}
PassPc   == {"loop", "passing", "sleeping", "ended"}
Loop     == {"listener", "reconciler", "worker"}
Shutdown == {"none", "listener", "reconciler", "worker", "server"}

\* What a new process begins with: the loops start before the server listens.
Fresh ==
  [server |-> "starting", worker |-> [pc |-> "loop", current |-> "resolved"],
   reconciler |-> [pc |-> "loop", current |-> "resolved"], listener |-> "connecting"]

Init ==
  /\ event = [e \in Entities |-> "absent"]
  /\ request = 0 /\ answered = FALSE
  /\ server = Fresh.server /\ worker = Fresh.worker /\ reconciler = Fresh.reconciler
  /\ listener = Fresh.listener /\ told = FALSE
  /\ stopped = {} /\ shutdown = "none" /\ exit = "running"
  /\ rejects = 0 /\ signals = 0 /\ losses = 0
--------------------------------------------------------------------------------
Running == exit = "running"

Reject == rejects < MaxRejects /\ rejects' = rejects + 1 /\ UNCHANGED <<signals, losses>>
Lose   == losses < MaxLosses /\ losses' = losses + 1 /\ UNCHANGED <<rejects, signals>>

\* The process is gone, and with it every promise and connection: the event the
\* worker held stays processing until its lease is over.
End(how) ==
  /\ exit' = how
  /\ event' = [e \in Entities |-> IF event[e] = "held" THEN "waiting" ELSE event[e]]
  /\ request' = 0
  /\ told' = FALSE
  /\ UNCHANGED <<answered, server, loops, listener, stopped, shutdown>>

\* QuickBooks tells the next process what it did not hear an answer about.
Start ==
  /\ ~Running
  /\ exit' = "running"
  /\ server' = Fresh.server /\ worker' = Fresh.worker
  /\ reconciler' = Fresh.reconciler /\ listener' = Fresh.listener
  /\ told' = FALSE /\ stopped' = {} /\ shutdown' = "none"
  /\ UNCHANGED <<event, request, answered, budget>>

Listen ==
  /\ Running /\ server = "starting"
  /\ server' = "listening"
  /\ UNCHANGED <<event, request, answered, loops, listener, told, stopped, shutdown,
                 exit, budget>>

\* app.listen rejects: process.exit(1), whatever the loops are at.
ListenFails ==
  /\ Running /\ server = "starting"
  /\ Lose
  /\ End("failed")
--------------------------------------------------------------------------------
(***************************************************************************)
(* POST /webhooks/qbo.  QuickBooks sends its notification again until it   *)
(* hears a 2xx.  The entities are inserted one by one, and what is not an  *)
(* invoice is passed over.                                                 *)
(***************************************************************************)
Deliver ==
  /\ Running /\ server = "listening"
  /\ request = 0 /\ ~answered
  /\ request' = 1
  /\ UNCHANGED <<event, answered, process, budget>>

\* Wrong: the row is written again whatever is there.
InsertedAnew(e) == [event EXCEPT ![e] = "pending"]

\* onConflictDoNothing
Inserted(e) == IF event[e] = "absent" THEN [event EXCEPT ![e] = "pending"] ELSE event

Ingest ==
  LET e == Notification[request]
  IN  /\ Running /\ request \in 1..Len(Notification)
      /\ event' = IF e \in Invoices THEN Inserted(e) ELSE event
      /\ told' = (told \/ event' # event)
      /\ request' = request + 1
      /\ UNCHANGED <<answered, server, loops, listener, stopped, shutdown, exit, budget>>

\* The insert fails: a 500 for the whole notification, parts of which are in.
IngestFails ==
  /\ Running /\ request \in 1..Len(Notification)
  /\ Reject
  /\ request' = 0
  /\ UNCHANGED <<event, answered, process>>

\* The 202, which may get lost.
Respond ==
  /\ Running /\ request = Len(Notification) + 1
  /\ request' = 0
  /\ \/ answered' = TRUE /\ UNCHANGED budget
     \/ answered' = FALSE /\ Lose
  /\ UNCHANGED <<event, process>>
--------------------------------------------------------------------------------
(***************************************************************************)
(* startWorker.                                                            *)
(***************************************************************************)
Work(pc, current) == worker' = [pc |-> pc, current |-> current]

WorkerLoop ==
  /\ Running /\ worker.pc = "loop"
  /\ IF "worker" \in stopped THEN Work("ended", worker.current)
                             ELSE Work("claiming", "pending")
  /\ UNCHANGED <<event, request, answered, server, reconciler, listener, told, stopped,
                 shutdown, exit, budget>>

ClaimOne ==
  /\ Running /\ worker.pc = "claiming"
  /\ \E e \in Entities : /\ event[e] = "pending"
                         /\ event' = [event EXCEPT ![e] = "held"]
  /\ Work("running", "pending")
  /\ UNCHANGED <<request, answered, server, reconciler, listener, told, stopped,
                 shutdown, exit, budget>>

\* The claim finds nothing; an event that comes before the loop is back in idle()
\* wakes nobody.
ClaimNothing ==
  /\ Running /\ worker.pc = "claiming"
  /\ \A e \in Entities : event[e] # "pending"
  /\ Work("empty", "pending")
  /\ UNCHANGED <<event, request, answered, server, reconciler, listener, told, stopped,
                 shutdown, exit, budget>>

GoIdle ==
  /\ Running /\ worker.pc = "empty"
  /\ Work("idle", "resolved")
  /\ UNCHANGED <<event, request, answered, server, reconciler, listener, told, stopped,
                 shutdown, exit, budget>>

\* Wrong: the worker goes on and leaves the row as it is.
SettleUnwritten ==
  /\ Running /\ worker.pc = "running"
  /\ Work("loop", "resolved")
  /\ UNCHANGED <<event, request, answered, server, reconciler, listener, told, stopped,
                 shutdown, exit, budget>>

Settle ==
  /\ Running /\ worker.pc = "running"
  /\ event' = [e \in Entities |-> IF event[e] = "held" THEN "done" ELSE event[e]]
  /\ Work("loop", "resolved")
  /\ UNCHANGED <<request, answered, server, reconciler, listener, told, stopped,
                 shutdown, exit, budget>>

\* processOne rejects: the error is logged, the row keeps its lease, and the
\* loop idles with `current` rejected.
WorkerRejects ==
  /\ Running /\ worker.pc \in {"claiming", "running"}
  /\ Reject
  /\ event' = [e \in Entities |-> IF event[e] = "held" THEN "waiting" ELSE event[e]]
  /\ Work("idle", "rejected")
  /\ UNCHANGED <<request, answered, server, reconciler, listener, told, stopped,
                 shutdown, exit>>

Woken == [worker EXCEPT !.pc = IF @ = "idle" THEN "loop" ELSE @]

\* Wrong: there is no timer and the worker waits to be woken.
PollNever == Running /\ worker.pc = "idle" /\ FALSE /\ UNCHANGED vars

Poll ==
  /\ Running /\ worker.pc = "idle"
  /\ worker' = Woken
  /\ UNCHANGED <<event, request, answered, server, reconciler, listener, told, stopped,
                 shutdown, exit, budget>>

\* The lease of a row, or the wait before it is tried again, is over.
Due(e) ==
  /\ event[e] = "waiting"
  /\ event' = [event EXCEPT ![e] = "pending"]
  /\ UNCHANGED <<request, answered, process, budget>>
--------------------------------------------------------------------------------
(***************************************************************************)
(* startReconciler.  Its sleep is not cut short.                           *)
(***************************************************************************)
Pass(pc, current) ==
  /\ Running
  /\ reconciler' = [pc |-> pc, current |-> current]
  /\ UNCHANGED <<event, request, answered, server, worker, listener, told, stopped,
                 shutdown, exit>>

ReconcilerLoop ==
  /\ reconciler.pc = "loop"
  /\ IF "reconciler" \in stopped THEN Pass("ended", reconciler.current)
                                 ELSE Pass("passing", "pending")
  /\ UNCHANGED budget

PassEnds    == reconciler.pc = "passing" /\ Pass("sleeping", "resolved") /\ UNCHANGED budget
PassRejects == reconciler.pc = "passing" /\ Pass("sleeping", "rejected") /\ Reject
SleepEnds   == reconciler.pc = "sleeping" /\ Pass("loop", reconciler.current)
               /\ UNCHANGED budget
--------------------------------------------------------------------------------
(***************************************************************************)
(* startNotifyListener.  A NOTIFY reaches it only while it listens, and    *)
(* the worker only while it is idle.                                       *)
(***************************************************************************)
Connection(from, to) ==
  /\ Running /\ listener = from
  /\ listener' = to
  /\ UNCHANGED <<event, request, answered, server, loops, stopped, shutdown, exit>>

Connected    == Connection("connecting", "listening") /\ UNCHANGED <<told, budget>>
Disconnected == /\ \/ Connection("connecting", "closing")
                   \/ Connection("listening", "closing")
                /\ told' = FALSE
                /\ Lose
Closed       == /\ Connection("closing", IF "listener" \in stopped THEN "ended"
                                         ELSE "waiting")
                /\ UNCHANGED <<told, budget>>
Reconnect    == /\ Connection("waiting", IF "listener" \in stopped THEN "ended"
                                         ELSE "connecting")
                /\ UNCHANGED <<told, budget>>

Notify ==
  /\ Running /\ told
  /\ told' = FALSE
  /\ worker' = IF listener = "listening" THEN Woken ELSE worker
  /\ UNCHANGED <<event, request, answered, server, reconciler, listener, stopped,
                 shutdown, exit, budget>>
--------------------------------------------------------------------------------
(***************************************************************************)
(* shutdown(): stop the listener, the reconciler and the worker one after  *)
(* the other, close the server, exit.  Nothing catches its rejection, so   *)
(* awaiting a `current` that has rejected, now or long ago, ends the       *)
(* process at once.                                                        *)
(***************************************************************************)
Stopping(next) ==
  /\ shutdown' = next
  /\ stopped' = stopped \cup ({next} \cap Loop)

Signal ==
  /\ Running /\ shutdown = "none"
  /\ signals < MaxSignals
  /\ signals' = signals + 1
  /\ Stopping("listener")
  /\ listener' = IF listener \in {"connecting", "listening"} THEN "closing" ELSE listener
  /\ UNCHANGED <<event, request, answered, server, loops, told, exit, rejects, losses>>

ListenerStopped ==
  /\ Running /\ shutdown = "listener" /\ listener # "closing"
  /\ Stopping("reconciler")
  /\ UNCHANGED <<event, request, answered, server, loops, listener, told, exit, budget>>

\* Wrong: stop() does not await the pass.
OverAtOnce(loop) == loop.current # "rejected"

\* `await current` resolves.
Over(loop) == loop.current = "resolved"

ReconcilerStopped ==
  /\ Running /\ shutdown = "reconciler" /\ Over(reconciler)
  /\ Stopping("worker")
  /\ worker' = Woken
  /\ UNCHANGED <<event, request, answered, server, reconciler, listener, told, exit,
                 budget>>

\* app.close() takes no new requests and waits for the one in progress.
WorkerStopped ==
  /\ Running /\ shutdown = "worker" /\ Over(worker)
  /\ Stopping("server")
  /\ server' = "closing"
  /\ UNCHANGED <<event, request, answered, loops, listener, told, exit, budget>>

ServerClosed ==
  /\ Running /\ shutdown = "server" /\ request = 0
  /\ End("drained")
  /\ UNCHANGED budget

\* Wrong: a rejection of the reconciler's pass leaves shutdown() waiting.
ShutdownHangs ==
  /\ Running /\ shutdown = "worker" /\ worker.current = "rejected"
  /\ End("failed")
  /\ UNCHANGED budget

\* `await current` rejects.
ShutdownRejects ==
  /\ Running
  /\ \/ shutdown = "reconciler" /\ reconciler.current = "rejected"
     \/ shutdown = "worker" /\ worker.current = "rejected"
  /\ End("failed")
  /\ UNCHANGED budget
--------------------------------------------------------------------------------
Worker     == WorkerLoop \/ ClaimOne \/ ClaimNothing \/ GoIdle \/ Settle \/ Poll
Reconciler == ReconcilerLoop \/ PassEnds \/ SleepEnds
Listener   == Connected \/ Closed \/ Reconnect \/ Notify
Stop       == ListenerStopped \/ ReconcilerStopped \/ WorkerStopped \/ ServerClosed
              \/ ShutdownRejects
Webhook    == Deliver \/ Ingest \/ Respond
Mishap     == ListenFails \/ IngestFails \/ WorkerRejects \/ PassRejects \/ Disconnected

Next ==
  \/ Start \/ Listen \/ Webhook \/ Worker \/ Reconciler \/ Listener
  \/ \E e \in Entities : Due(e)
  \/ Signal \/ Stop \/ Mishap

Spec == Init /\ [][Next]_vars

\* The platform starts a new process, timers fire, calls return, and QuickBooks
\* repeats what was not answered.  Nothing is assumed of the LISTEN connection
\* but that closing it ends.
Fairness ==
  /\ WF_vars(Start) /\ WF_vars(Listen) /\ WF_vars(Closed) /\ WF_vars(Stop)
  /\ WF_vars(Worker) /\ WF_vars(Reconciler) /\ WF_vars(Webhook)
  /\ \A e \in Entities : WF_vars(Due(e))

FairSpec == Spec /\ Fairness
--------------------------------------------------------------------------------
(***************************************************************************)
(* Properties.                                                             *)
(***************************************************************************)

Types ==
  /\ event \in [Entities -> Event]
  /\ request \in 0..Len(Notification) + 1 /\ answered \in BOOLEAN
  /\ server \in {"starting", "listening", "closing"}
  /\ worker \in [pc : WorkerPc, current : Promise]
  /\ reconciler \in [pc : PassPc, current : Promise]
  /\ listener \in {"connecting", "listening", "closing", "waiting", "ended"}
  /\ told \in BOOLEAN /\ stopped \subseteq Loop /\ shutdown \in Shutdown
  /\ exit \in {"running", "drained", "failed"}
  /\ rejects \in Nat /\ signals \in Nat /\ losses \in Nat

HeldFits == (\E e \in Entities : event[e] = "held") <=> (Running /\ worker.pc = "running")

\* Types; and a process that runs holds an event exactly while its worker runs one.
TypeOK == Types /\ HeldFits

\* DESIGN.md:28: SIGTERM drains in-flight events, so nothing is left half-applied.
\* A process that exits with 0 was in the middle of no event, pass or request, and
\* its loops can begin none.
DrainedMeansDrained ==
  exit = "drained" =>
    /\ worker.pc \notin {"claiming", "empty", "running"}
    /\ reconciler.pc # "passing"
    /\ request = 0
    /\ stopped = Loop

\* worker.ts:132: "stop() lets the in-flight event finish before resolving".  Once
\* it has resolved, no event is begun any more.
NothingClaimedLate ==
  [][ shutdown = "server" => \A e \in Entities : event'[e] = "held" => event[e] = "held" ]_vars

\* A notification that QuickBooks sends again, because it was answered with an
\* error half way or its answer was lost, asks for nothing that was handled.
HandledIsNotRepeated ==
  [][ \A e \in Entities : event[e] = "done" => event'[e] = "done" ]_vars

\* Every invoice QuickBooks tells of is handled in the end: over failed inserts and
\* lost answers, restarts, a worker that dies on it, and a wake that is lost.
EveryInvoiceIsHandled == \A e \in Invoices : <>(event[e] = "done")

\* A signal ends the process, one way or the other.
SignalEndsProcess == (shutdown # "none") ~> (exit # "running")
================================================================================
