-------------------------------- MODULE Outbox --------------------------------
(***************************************************************************)
(* The outbox table sync_events and everything that writes a row of it:    *)
(* the ingest handlers, the workers (claimNext and processOne, one         *)
(* database statement per step, with startWorker's loop around them), the  *)
(* operator's replay, and the failures of the process and of a statement.  *)
(* What an event's handler does is another module's business: here a run   *)
(* succeeds or throws.                                                     *)
(*                                                                         *)
(* Times are relative to the present: due[e] is next_attempt_at - now,     *)
(* age[e] is now - locked_at and spent[w] is the time since worker w read  *)
(* its clock.  A tick moves them all; they stop at Horizon.                *)
(***************************************************************************)
EXTENDS Integers, FiniteSets

CONSTANTS
  Events,         \* event ids (the UNIQUE key of sync_events)
  Workers,        \* worker loops, one per running API process
  Operators,      \* replay requests being served at the same time
  None,           \* the SQL null
  MaxAttempts,    \* DEFAULT_MAX_ATTEMPTS
  LeaseTimeout,   \* LEASE_TIMEOUT_MS
  BackoffBase,    \* BACKOFF_BASE_MS
  BackoffCap,     \* BACKOFF_CAP_MS
  Horizon,        \* relative times are not told apart beyond this
  MaxClaims,      \* bound on the attempts of one row
  Prompt,         \* TRUE: no run outlives its lease
  ReplayFrom,     \* statuses at which somebody asks for a replay
  MaxCrashes, MaxFaults, MaxReplays   \* bounds on what goes wrong

ASSUME NoneIsNeither == None \notin Events /\ None \notin Workers
ASSUME TimesAreNaturals ==
  /\ LeaseTimeout \in Nat /\ BackoffBase \in Nat /\ BackoffCap \in Nat
  /\ Horizon \in Nat /\ LeaseTimeout < Horizon /\ BackoffCap <= Horizon
ASSUME LimitsAreNaturals ==
  /\ MaxAttempts \in Nat /\ MaxClaims \in Nat
  /\ MaxCrashes \in Nat /\ MaxFaults \in Nat /\ MaxReplays \in Nat
ASSUME PromptIsBoolean == Prompt \in BOOLEAN

VARIABLES
  status,     \* [Events -> Status]; "absent" is a row not inserted yet
  attempts,   \* claims since the row was enqueued or replayed
  due,        \* next_attempt_at
  age,        \* age of locked_at, 0 when it is null
  lockedBy,   \* locked_by
  pc,         \* where worker w stands in processOne
  cur,        \* the event it holds
  tries,      \* event.attempts as the worker read it after the claim
  spent,      \* time since processOne read the clock
  err,        \* the error being handled in the catch block
  asked,      \* the row an operator's replay has checked and not yet written
  crashes, faults, replays,
  \* History, read by the properties only:
  served,     \* how the last run begun since the event was asked for ended
  fresh       \* did worker w's run begin after its event was last asked for

row    == <<status, attempts, due, age, lockedBy>>
local  == <<pc, cur, tries, spent, err>>
budget == <<crashes, faults, replays>>
ghost  == <<served, fresh>>
vars   == <<row, local, asked, budget, ghost>>

Status   == {"absent", "pending", "processing", "done", "dead"}
Step     == {"idle", "claimed", "running", "succeeded", "failed", "settling"}
ErrKind  == {"none", "transient", "permanent"}
Outcome  == {"none", "failed", "succeeded"}

Init ==
  /\ status = [e \in Events |-> "absent"]
  /\ attempts = [e \in Events |-> 0]
  /\ due = [e \in Events |-> 0]
  /\ age = [e \in Events |-> 0]
  /\ lockedBy = [e \in Events |-> None]
  /\ pc = [w \in Workers |-> "idle"]
  /\ cur = [w \in Workers |-> None]
  /\ tries = [w \in Workers |-> 0]
  /\ spent = [w \in Workers |-> 0]
  /\ err = [w \in Workers |-> "none"]
  /\ asked = [o \in Operators |-> None]
  /\ crashes = 0 /\ faults = 0 /\ replays = 0
  /\ served = [e \in Events |-> "none"]
  /\ fresh = [w \in Workers |-> FALSE]
--------------------------------------------------------------------------------
\* A time is not told apart from others beyond the horizon.
Clamp(t) == IF t < -Horizon THEN -Horizon ELSE IF t > Horizon THEN Horizon ELSE t

\* min(base * 2^(attempts - 1), cap).  A run whose row was replayed under it
\* reads attempts = 0 and waits half the base.
Backoff(n) ==
  LET delay == IF n = 0 THEN BackoffBase \div 2 ELSE BackoffBase * 2 ^ (n - 1)
  IN  IF delay < BackoffCap THEN delay ELSE BackoffCap

\* Wrong: a lease is over while its holder may still be within it.
WorkableTooEarly(e) ==
  \/ status[e] = "pending" /\ due[e] <= 0
  \/ status[e] = "processing" /\ age[e] >= LeaseTimeout

\* Wrong: a row left in processing is never taken again.
WorkableWhilePending(e) == status[e] = "pending" /\ due[e] <= 0

\* Due and pending, or left processing beyond the lease.
Workable(e) ==
  \/ status[e] = "pending" /\ due[e] <= 0
  \/ status[e] = "processing" /\ age[e] > LeaseTimeout

Oldest(e) == Workable(e) /\ \A f \in Events : Workable(f) => due[e] <= due[f]

\* Writes that end a lease set locked_at and locked_by to null.
Unlock(e) ==
  /\ age' = [age EXCEPT ![e] = 0]
  /\ lockedBy' = [lockedBy EXCEPT ![e] = None]

\* Wrong: the worker still holds the event it is through with.
GoIdleHolding(w) ==
  /\ pc' = [pc EXCEPT ![w] = "idle"]
  /\ tries' = [tries EXCEPT ![w] = 0]
  /\ spent' = [spent EXCEPT ![w] = 0]
  /\ err' = [err EXCEPT ![w] = "none"]
  /\ fresh' = [fresh EXCEPT ![w] = FALSE]
  /\ UNCHANGED cur

\* processOne returns or rejects: its locals are gone.
GoIdle(w) ==
  /\ pc' = [pc EXCEPT ![w] = "idle"]
  /\ cur' = [cur EXCEPT ![w] = None]
  /\ tries' = [tries EXCEPT ![w] = 0]
  /\ spent' = [spent EXCEPT ![w] = 0]
  /\ err' = [err EXCEPT ![w] = "none"]
  /\ fresh' = [fresh EXCEPT ![w] = FALSE]

Fault == faults < MaxFaults /\ faults' = faults + 1 /\ UNCHANGED <<crashes, replays>>
--------------------------------------------------------------------------------
(***************************************************************************)
(* Enqueueing.  A second insert of the same event_id does nothing.         *)
(***************************************************************************)
Enqueue(e) ==
  /\ status[e] = "absent"
  /\ status' = [status EXCEPT ![e] = "pending"]
  /\ UNCHANGED <<attempts, due, age, lockedBy, local, asked, budget, ghost>>

(***************************************************************************)
(* claimNext.  The UPDATE takes the oldest workable row; the SELECT that   *)
(* follows reads the row again.                                            *)
(***************************************************************************)
Lease(w, e) ==
  /\ pc[w] = "idle"
  /\ Oldest(e)
  /\ attempts[e] < MaxClaims
  /\ status' = [status EXCEPT ![e] = "processing"]
  /\ age' = [age EXCEPT ![e] = 0]
  /\ lockedBy' = [lockedBy EXCEPT ![e] = w]
  /\ attempts' = [attempts EXCEPT ![e] = @ + 1]
  /\ UNCHANGED due

Claim(w, e) ==
  /\ Lease(w, e)
  /\ pc' = [pc EXCEPT ![w] = "claimed"]
  /\ cur' = [cur EXCEPT ![w] = e]
  /\ fresh' = [fresh EXCEPT ![w] = TRUE]
  /\ UNCHANGED <<tries, spent, err, asked, budget, served>>

\* The UPDATE landed and its answer did not arrive.
ClaimLost(w, e) ==
  /\ Lease(w, e)
  /\ Fault
  /\ UNCHANGED <<local, asked, ghost>>

LoadClaimed(w) ==
  /\ pc[w] = "claimed"
  /\ tries' = [tries EXCEPT ![w] = attempts[cur[w]]]
  /\ pc' = [pc EXCEPT ![w] = "running"]
  /\ UNCHANGED <<row, cur, spent, err, asked, budget, ghost>>

LoadFails(w) ==
  /\ pc[w] = "claimed"
  /\ Fault
  /\ GoIdle(w)
  /\ UNCHANGED <<row, asked, served>>

(***************************************************************************)
(* processEvent returns or throws.                                         *)
(***************************************************************************)
Ended(w, outcome) ==
  served' = IF fresh[w] THEN [served EXCEPT ![cur[w]] = outcome] ELSE served

RunSucceeds(w) ==
  /\ pc[w] = "running"
  /\ pc' = [pc EXCEPT ![w] = "succeeded"]
  /\ Ended(w, "succeeded")
  /\ UNCHANGED <<row, cur, tries, spent, err, asked, budget, fresh>>

RunThrows(w, kind) ==
  /\ pc[w] = "running"
  /\ pc' = [pc EXCEPT ![w] = "failed"]
  /\ err' = [err EXCEPT ![w] = kind]
  /\ Ended(w, "failed")
  /\ UNCHANGED <<row, cur, tries, spent, asked, budget, fresh>>

(***************************************************************************)
(* The write of "done" names the row by its id alone.  It is inside the    *)
(* try: when it throws, whether or not it landed, the catch block treats   *)
(* the run as failed.                                                      *)
(***************************************************************************)
SetDone(e) ==
  /\ status' = [status EXCEPT ![e] = "done"]
  /\ Unlock(e)
  /\ UNCHANGED <<attempts, due>>

WriteDone(w) ==
  /\ pc[w] = "succeeded"
  /\ SetDone(cur[w])
  /\ GoIdle(w)
  /\ UNCHANGED <<asked, budget, served>>

WriteDoneFails(w) ==
  /\ pc[w] = "succeeded"
  /\ Fault
  /\ SetDone(cur[w]) \/ UNCHANGED row
  /\ pc' = [pc EXCEPT ![w] = "failed"]
  /\ err' = [err EXCEPT ![w] = "transient"]
  /\ UNCHANGED <<cur, tries, spent, asked, ghost>>

(***************************************************************************)
(* The catch block: the audit row first, then dead letter or backoff.  A   *)
(* throw inside it leaves processOne, and the row, as they are.            *)
(***************************************************************************)
WriteAudit(w) ==
  /\ pc[w] = "failed"
  /\ pc' = [pc EXCEPT ![w] = "settling"]
  /\ UNCHANGED <<row, cur, tries, spent, err, asked, budget, ghost>>

AuditFails(w) ==
  /\ pc[w] = "failed"
  /\ Fault
  /\ GoIdle(w)
  /\ UNCHANGED <<row, asked, served>>

\* Wrong, by one either way.
ExhaustedLate(w)  == err[w] = "permanent" \/ tries[w] > MaxAttempts
ExhaustedEarly(w) == err[w] = "permanent" \/ tries[w] >= MaxAttempts - 1

Exhausted(w) == err[w] = "permanent" \/ tries[w] >= MaxAttempts

SetFailed(w) ==
  LET e == cur[w] IN
  /\ Unlock(e)
  /\ UNCHANGED attempts
  /\ \/ /\ Exhausted(w)
        /\ status' = [status EXCEPT ![e] = "dead"]
        /\ UNCHANGED due
     \/ /\ ~Exhausted(w)
        /\ status' = [status EXCEPT ![e] = "pending"]
        /\ due' = [due EXCEPT ![e] = Clamp(Backoff(tries[w]) - spent[w])]

Settle(w) ==
  /\ pc[w] = "settling"
  /\ SetFailed(w)
  /\ GoIdle(w)
  /\ UNCHANGED <<asked, budget, served>>

SettleFails(w) ==
  /\ pc[w] = "settling"
  /\ Fault
  /\ SetFailed(w) \/ UNCHANGED row
  /\ GoIdle(w)
  /\ UNCHANGED <<asked, served>>

(***************************************************************************)
(* The process dies and is started again: the loop begins afresh.          *)
(***************************************************************************)
Crash(w) ==
  /\ pc[w] # "idle"
  /\ crashes < MaxCrashes
  /\ crashes' = crashes + 1
  /\ GoIdle(w)
  /\ UNCHANGED <<row, asked, faults, replays, served>>

(***************************************************************************)
(* replayEvent: a SELECT that refuses a row in processing, then an UPDATE  *)
(* by id.                                                                  *)
(***************************************************************************)
\* Wrong: a row in processing may be replayed.
ReplayCheckAnyRow(o, e) ==
  /\ asked[o] = None
  /\ replays < MaxReplays
  /\ status[e] \in ReplayFrom
  /\ status[e] # "absent"
  /\ asked' = [asked EXCEPT ![o] = e]
  /\ replays' = replays + 1
  /\ UNCHANGED <<row, local, crashes, faults, ghost>>

ReplayCheck(o, e) ==
  /\ asked[o] = None
  /\ replays < MaxReplays
  /\ status[e] \in ReplayFrom
  /\ status[e] \notin {"absent", "processing"}
  /\ asked' = [asked EXCEPT ![o] = e]
  /\ replays' = replays + 1
  /\ UNCHANGED <<row, local, crashes, faults, ghost>>

ReplayWrite(o) ==
  LET e == asked[o] IN
  /\ e # None
  /\ status' = [status EXCEPT ![e] = "pending"]
  /\ attempts' = [attempts EXCEPT ![e] = 0]
  /\ due' = [due EXCEPT ![e] = 0]
  /\ Unlock(e)
  /\ asked' = [asked EXCEPT ![o] = None]
  /\ served' = [served EXCEPT ![e] = "none"]
  /\ fresh' = [w \in Workers |-> fresh[w] /\ cur[w] # e]
  /\ UNCHANGED <<local, budget>>

(***************************************************************************)
(* Time.  Prompt is the assumption that a run ends before its lease does;  *)
(* nothing in the worker enforces it.                                      *)
(***************************************************************************)
Tick ==
  /\ Prompt => \A w \in Workers : pc[w] # "idle" => spent[w] < LeaseTimeout
  /\ due' = [e \in Events |-> IF status[e] \in {"pending", "processing"}
                              THEN Clamp(due[e] - 1) ELSE due[e]]
  /\ age' = [e \in Events |-> IF status[e] = "processing"
                              THEN Clamp(age[e] + 1) ELSE age[e]]
  /\ spent' = [w \in Workers |-> IF pc[w] = "idle" THEN spent[w]
                                 ELSE Clamp(spent[w] + 1)]
  /\ UNCHANGED <<status, attempts, lockedBy, pc, cur, tries, err, asked, budget, ghost>>
--------------------------------------------------------------------------------
WorkerStep(w) ==
  \/ \E e \in Events : Claim(w, e)
  \/ LoadClaimed(w)
  \/ RunSucceeds(w)
  \/ \E kind \in {"transient", "permanent"} : RunThrows(w, kind)
  \/ WriteDone(w) \/ WriteAudit(w) \/ Settle(w)

Mishap(w) ==
  \/ \E e \in Events : ClaimLost(w, e)
  \/ LoadFails(w) \/ WriteDoneFails(w) \/ AuditFails(w) \/ SettleFails(w)
  \/ Crash(w)

Next ==
  \/ \E e \in Events : Enqueue(e)
  \/ \E w \in Workers : WorkerStep(w) \/ Mishap(w)
  \/ \E o \in Operators : ReplayWrite(o) \/ \E e \in Events : ReplayCheck(o, e)
  \/ Tick

Spec == Init /\ [][Next]_vars

\* startWorker loops for ever and the clock runs; an HTTP request that was
\* begun is answered.
Fairness ==
  /\ \A w \in Workers : WF_vars(WorkerStep(w))
  /\ \A o \in Operators : WF_vars(ReplayWrite(o))
  /\ WF_vars(Tick)

FairSpec == Spec /\ Fairness
--------------------------------------------------------------------------------
\* Every row and every local is of its type; a worker is idle exactly when it
\* holds no event.
TypeOK ==
  /\ status \in [Events -> Status]
  /\ attempts \in [Events -> Nat]
  /\ due \in [Events -> -Horizon..Horizon]
  /\ age \in [Events -> 0..Horizon]
  /\ lockedBy \in [Events -> Workers \cup {None}]
  /\ pc \in [Workers -> Step]
  /\ cur \in [Workers -> Events \cup {None}]
  /\ \A w \in Workers : pc[w] = "idle" <=> cur[w] = None
  /\ tries \in [Workers -> Nat]
  /\ spent \in [Workers -> 0..Horizon]
  /\ err \in [Workers -> ErrKind]
  /\ asked \in [Operators -> Events \cup {None}]
  /\ crashes \in Nat /\ faults \in Nat /\ replays \in Nat
  /\ served \in [Events -> Outcome]
  /\ fresh \in [Workers -> BOOLEAN]

\* Two workers never run the handler of one event at the same time: SKIP LOCKED
\* keeps them apart while they claim, the lease afterwards (worker.ts:18-22).
Running(w, e) == pc[w] \in {"claimed", "running"} /\ cur[w] = e
NoDoubleProcessing ==
  \A v, w \in Workers, e \in Events : Running(v, e) /\ Running(w, e) => v = w

\* A done event was carried out, and a dead one was tried, by a run that began
\* after it was last enqueued or replayed: no stale writer finishes an event, and
\* no replay is answered "replayed" and then forgotten (queries.ts:145-158).
FinishedWasServed ==
  \A e \in Events :
    /\ status[e] = "done" => served[e] = "succeeded"
    /\ status[e] = "dead" => served[e] # "none"

\* Only crashes and failed statements can take a row beyond MaxAttempts, one
\* claim each: "a crashed lease costs one attempt" (worker.ts:15).
CrashCostsOneAttempt ==
  \A e \in Events : attempts[e] <= MaxAttempts + crashes + faults

\* An event goes to the dead letters only out of attempts or on a permanent error
\* of the worker that holds it, whatever other workers and operators write to
\* its row meanwhile (worker.ts:103).
DeathIsEarned ==
  \A e \in Events :
    status[e] # "dead" /\ status'[e] = "dead" =>
      \/ attempts[e] >= MaxAttempts
      \/ \E w \in Workers : cur[w] = e /\ err[w] = "permanent"
DeadLettersAreEarned == [][DeathIsEarned]_vars

\* Every enqueued event is eventually done or dead, through crashes that leave it
\* processing and through failed writes (worker.ts:14-16, 33-35).
EventuallySettled ==
  \A e \in Events : status[e] # "absent" ~> status[e] \in {"done", "dead"}

\* The outbox implements the life of an event.
StageOf(s) == CASE s = "pending" -> "queued" [] s = "processing" -> "running"
                [] OTHER -> s
Lifecycle == INSTANCE EventLifecycle
               WITH stage <- [e \in Events |-> StageOf(status[e])]
ImplementsLifecycle == Lifecycle!Spec
================================================================================
