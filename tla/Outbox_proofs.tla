---------------------------- MODULE Outbox_proofs ----------------------------
(***************************************************************************)
(* Proofs about Outbox for any number of events, workers and operators,    *)
(* any lease, backoff and attempt limit, and any number of crashes, failed *)
(* statements and replays.                                                 *)
(***************************************************************************)
EXTENDS Outbox, TLAPS

\* Clamped times stay within the horizon.
LEMMA ClampRange ==
  ASSUME NEW t \in Int
  PROVE  /\ Clamp(t) \in -Horizon..Horizon
         /\ t >= 0 => Clamp(t) \in 0..Horizon
  BY TimesAreNaturals DEF Clamp

\* A backoff is an integer number of ticks.
LEMMA BackoffType ==
  ASSUME NEW n \in Nat
  PROVE  Backoff(n) \in Int
  BY TimesAreNaturals DEF Backoff

\* Writes that end a lease keep the lock columns well typed.
LEMMA UnlockType ==
  ASSUME TypeOK, NEW e \in Events, Unlock(e)
  PROVE  /\ age' \in [Events -> 0..Horizon]
         /\ lockedBy' \in [Events -> Workers \cup {None}]
  BY TimesAreNaturals DEF TypeOK, Unlock

\* A worker that leaves processOne holds nothing.
LEMMA GoIdleType ==
  ASSUME TypeOK, NEW w \in Workers, GoIdle(w)
  PROVE  /\ pc' \in [Workers -> Step]
         /\ cur' \in [Workers -> Events \cup {None}]
         /\ \A v \in Workers : pc'[v] = "idle" <=> cur'[v] = None
         /\ tries' \in [Workers -> Nat]
         /\ spent' \in [Workers -> 0..Horizon]
         /\ err' \in [Workers -> ErrKind]
         /\ fresh' \in [Workers -> BOOLEAN]
  BY TimesAreNaturals DEF TypeOK, GoIdle, Step, ErrKind

\* The row that the catch block writes is well typed.
LEMMA SetFailedType ==
  ASSUME TypeOK, NEW w \in Workers, pc[w] # "idle", SetFailed(w)
  PROVE  /\ status' \in [Events -> Status]
         /\ attempts' \in [Events -> Nat]
         /\ due' \in [Events -> -Horizon..Horizon]
         /\ age' \in [Events -> 0..Horizon]
         /\ lockedBy' \in [Events -> Workers \cup {None}]
  <1>1. cur[w] \in Events
    BY DEF TypeOK
  <1>2. Clamp(Backoff(tries[w]) - spent[w]) \in -Horizon..Horizon
    <2>1. tries[w] \in Nat /\ spent[w] \in Int
      BY TimesAreNaturals DEF TypeOK
    <2>2. Backoff(tries[w]) - spent[w] \in Int
      BY <2>1, BackoffType
    <2> QED BY <2>2, ClampRange
  <1>3. Unlock(cur[w])
    BY DEF SetFailed
  <1> QED
    BY <1>1, <1>2, <1>3, UnlockType DEF SetFailed, TypeOK, Status

LEMMA SetDoneType ==
  ASSUME TypeOK, NEW e \in Events, SetDone(e)
  PROVE  /\ status' \in [Events -> Status]
         /\ attempts' \in [Events -> Nat]
         /\ due' \in [Events -> -Horizon..Horizon]
         /\ age' \in [Events -> 0..Horizon]
         /\ lockedBy' \in [Events -> Workers \cup {None}]
  BY UnlockType DEF SetDone, TypeOK, Status

LEMMA LeaseType ==
  ASSUME TypeOK, NEW w \in Workers, NEW e \in Events, Lease(w, e)
  PROVE  /\ status' \in [Events -> Status]
         /\ attempts' \in [Events -> Nat]
         /\ due' \in [Events -> -Horizon..Horizon]
         /\ age' \in [Events -> 0..Horizon]
         /\ lockedBy' \in [Events -> Workers \cup {None}]
  BY TimesAreNaturals DEF Lease, TypeOK, Status

\* Every action keeps every row, every worker's locals and every budget well typed.
LEMMA NextTypeOK == TypeOK /\ [Next]_vars => TypeOK'
<1> SUFFICES ASSUME TypeOK, [Next]_vars PROVE TypeOK'
  OBVIOUS
<1> USE DEF row, local, budget, ghost
<1>1. ASSUME NEW e \in Events, Enqueue(e) PROVE TypeOK'
  BY <1>1 DEF Enqueue, TypeOK, Status
<1>2. ASSUME NEW w \in Workers, NEW e \in Events, Claim(w, e) PROVE TypeOK'
  <2>1. Lease(w, e) BY <1>2 DEF Claim
  <2> QED BY <1>2, <2>1, LeaseType, NoneIsNeither DEF Claim, Lease, TypeOK, Step
<1>3. ASSUME NEW w \in Workers, LoadClaimed(w) PROVE TypeOK'
  <2>1. cur[w] \in Events BY <1>3 DEF LoadClaimed, TypeOK
  <2> QED BY <1>3, <2>1 DEF LoadClaimed, TypeOK, Step
<1>4. ASSUME NEW w \in Workers, RunSucceeds(w) PROVE TypeOK'
  BY <1>4 DEF RunSucceeds, Ended, TypeOK, Step, Outcome
<1>5. ASSUME NEW w \in Workers, NEW kind \in {"transient", "permanent"},
             RunThrows(w, kind)
      PROVE TypeOK'
  BY <1>5 DEF RunThrows, Ended, TypeOK, Step, Outcome, ErrKind
<1>6. ASSUME NEW w \in Workers, WriteDone(w) PROVE TypeOK'
  <2>1. cur[w] \in Events /\ SetDone(cur[w]) /\ GoIdle(w)
    BY <1>6 DEF WriteDone, TypeOK
  <2> QED BY <1>6, <2>1, SetDoneType, GoIdleType DEF WriteDone, TypeOK
<1>7. ASSUME NEW w \in Workers, WriteAudit(w) PROVE TypeOK'
  BY <1>7 DEF WriteAudit, TypeOK, Step
<1>8. ASSUME NEW w \in Workers, Settle(w) PROVE TypeOK'
  <2>1. pc[w] # "idle" /\ SetFailed(w) /\ GoIdle(w)
    BY <1>8 DEF Settle
  <2> QED BY <1>8, <2>1, SetFailedType, GoIdleType DEF Settle, TypeOK
<1>9. ASSUME NEW w \in Workers, NEW e \in Events, ClaimLost(w, e) PROVE TypeOK'
  <2>1. Lease(w, e) BY <1>9 DEF ClaimLost
  <2> QED BY <1>9, <2>1, LeaseType DEF ClaimLost, Fault, TypeOK
<1>10. ASSUME NEW w \in Workers, LoadFails(w) PROVE TypeOK'
  BY <1>10, GoIdleType DEF LoadFails, Fault, TypeOK
<1>11. ASSUME NEW w \in Workers, WriteDoneFails(w) PROVE TypeOK'
  <2>1. cur[w] \in Events /\ pc[w] # "idle"
    BY <1>11 DEF WriteDoneFails, TypeOK
  <2>2. CASE SetDone(cur[w])
    BY <1>11, <2>1, <2>2, SetDoneType DEF WriteDoneFails, Fault, TypeOK, Step, ErrKind
  <2>3. CASE UNCHANGED row
    BY <1>11, <2>1, <2>3 DEF WriteDoneFails, Fault, TypeOK, Step, ErrKind
  <2> QED BY <1>11, <2>2, <2>3 DEF WriteDoneFails
<1>12. ASSUME NEW w \in Workers, AuditFails(w) PROVE TypeOK'
  BY <1>12, GoIdleType DEF AuditFails, Fault, TypeOK
<1>13. ASSUME NEW w \in Workers, SettleFails(w) PROVE TypeOK'
  <2>1. pc[w] # "idle" /\ GoIdle(w)
    BY <1>13 DEF SettleFails
  <2>2. CASE SetFailed(w)
    BY <1>13, <2>1, <2>2, SetFailedType, GoIdleType DEF SettleFails, Fault, TypeOK
  <2>3. CASE UNCHANGED row
    BY <1>13, <2>1, <2>3, GoIdleType DEF SettleFails, Fault, TypeOK
  <2> QED BY <1>13, <2>2, <2>3 DEF SettleFails
<1>14. ASSUME NEW w \in Workers, Crash(w) PROVE TypeOK'
  BY <1>14, GoIdleType DEF Crash, TypeOK
<1>15. ASSUME NEW o \in Operators, NEW e \in Events, ReplayCheck(o, e) PROVE TypeOK'
  BY <1>15 DEF ReplayCheck, TypeOK
<1>16. ASSUME NEW o \in Operators, ReplayWrite(o) PROVE TypeOK'
  <2>1. asked[o] \in Events /\ Unlock(asked[o])
    BY <1>16 DEF ReplayWrite, TypeOK
  <2> QED
    BY <1>16, <2>1, UnlockType, TimesAreNaturals
    DEF ReplayWrite, TypeOK, Status, Outcome
<1>17. CASE Tick
  <2>1. \A e \in Events : Clamp(due[e] - 1) \in -Horizon..Horizon
    <3> TAKE e \in Events
    <3>1. due[e] - 1 \in Int BY TimesAreNaturals DEF TypeOK
    <3> QED BY <3>1, ClampRange
  <2>2. \A e \in Events : Clamp(age[e] + 1) \in 0..Horizon
    <3> TAKE e \in Events
    <3>1. age[e] + 1 \in Int /\ age[e] + 1 >= 0 BY TimesAreNaturals DEF TypeOK
    <3> QED BY <3>1, ClampRange
  <2>3. \A w \in Workers : Clamp(spent[w] + 1) \in 0..Horizon
    <3> TAKE w \in Workers
    <3>1. spent[w] + 1 \in Int /\ spent[w] + 1 >= 0 BY TimesAreNaturals DEF TypeOK
    <3> QED BY <3>1, ClampRange
  <2> QED BY <1>17, <2>1, <2>2, <2>3 DEF Tick, TypeOK
<1>18. CASE UNCHANGED vars
  BY <1>18 DEF vars, TypeOK
<1> QED
  BY <1>1, <1>2, <1>3, <1>4, <1>5, <1>6, <1>7, <1>8, <1>9, <1>10, <1>11, <1>12,
     <1>13, <1>14, <1>15, <1>16, <1>17, <1>18 DEF Next, WorkerStep, Mishap

\* Every row, every worker's locals and every budget keep their types through
\* claims, reclaims, unfenced writes, crashes and replays.
THEOREM OutboxTypeOK == Spec => []TypeOK
<1>1. Init => TypeOK
  BY TimesAreNaturals DEF Init, TypeOK, Status, Step, ErrKind, Outcome
<1>2. TypeOK /\ [Next]_vars => TypeOK'
  BY NextTypeOK
<1> QED
  BY <1>1, <1>2, PTL DEF Spec
--------------------------------------------------------------------------------
(***************************************************************************)
(* The rest holds of an orderly deployment: runs end within their lease,   *)
(* and replays are asked for one at a time, of rows in the dead-letter     *)
(* list (or in processing, where they are refused).                        *)
(* The README tells what happens otherwise.                                *)
(***************************************************************************)
Orderly ==
  /\ Prompt
  /\ ReplayFrom \subseteq {"dead", "processing"}
  /\ \A o, p \in Operators : o = p

\* The lease of worker w is the one in the row.
Leased(w) ==
  /\ status[cur[w]] = "processing"
  /\ lockedBy[cur[w]] = w
  /\ age[cur[w]] = spent[w]

\* A busy worker has its lease, or it is in the catch block after a write of
\* "done" that landed and was not acknowledged.
HoldersAreLeased ==
  \A w \in Workers :
    IF pc[w] = "idle" THEN spent[w] = 0
    ELSE /\ spent[w] <= LeaseTimeout
         /\ \/ Leased(w)
            \/ pc[w] \in {"failed", "settling"} /\ status[cur[w]] = "done"

OneHolder ==
  \A v, w \in Workers : pc[v] # "idle" /\ cur[v] = cur[w] => v = w

AskedAreDead ==
  \A o \in Operators : asked[o] # None => status[asked[o]] = "dead"

\* What a worker knows of its event is still so.
LocalsAreCurrent ==
  \A w \in Workers : pc[w] # "idle" =>
    /\ fresh[w]
    /\ pc[w] # "claimed" => tries[w] = attempts[cur[w]]
    /\ pc[w] = "succeeded" => served[cur[w]] = "succeeded"
    /\ pc[w] \in {"failed", "settling"} => served[cur[w]] # "none"

IInv ==
  TypeOK /\ HoldersAreLeased /\ OneHolder /\ AskedAreDead
         /\ LocalsAreCurrent /\ FinishedWasServed

\* The invariant is inductive: no step of any worker, operator or clock can put
\* a row into other hands than those that hold its lease.
LEMMA NextIInv == Orderly /\ IInv /\ [Next]_vars => IInv'
<1> SUFFICES ASSUME Orderly, IInv, [Next]_vars PROVE IInv'
  OBVIOUS
<1> USE DEF row, local, budget, ghost
<1>0. TypeOK' BY NextTypeOK DEF IInv
<1>a. \A w \in Workers : pc[w] # "idle" => cur[w] \in Events /\ cur[w] # None
  BY DEF IInv, TypeOK
<1>b. \A v, w \in Workers : pc[w] # "idle" /\ v # w => cur[v] # cur[w]
  BY DEF IInv, OneHolder
<1> DEFINE Rest == /\ HoldersAreLeased /\ OneHolder /\ AskedAreDead
                   /\ LocalsAreCurrent /\ FinishedWasServed
<1>1. ASSUME NEW e \in Events, Enqueue(e) PROVE Rest'
  <2> USE <1>1, <1>a DEF Enqueue, IInv, TypeOK
  <2>1. HoldersAreLeased' BY DEF HoldersAreLeased, Leased
  <2>2. OneHolder' BY DEF OneHolder
  <2>3. AskedAreDead' BY DEF AskedAreDead
  <2>4. LocalsAreCurrent' BY DEF LocalsAreCurrent
  <2>5. FinishedWasServed' BY DEF FinishedWasServed
  <2> QED BY <2>1, <2>2, <2>3, <2>4, <2>5
<1>2. ASSUME NEW w \in Workers, NEW e \in Events, Lease(w, e)
      PROVE  /\ \A v \in Workers : pc[v] # "idle" => cur[v] # e
             /\ AskedAreDead /\ UNCHANGED asked => AskedAreDead'
             /\ UNCHANGED served => FinishedWasServed'
  <2>1. Workable(e) /\ pc[w] = "idle" /\ status' = [status EXCEPT ![e] = "processing"]
    BY <1>2 DEF Lease, Oldest
  <2>2. ASSUME NEW v \in Workers, pc[v] # "idle", cur[v] = e PROVE FALSE
    <3>1. age[e] = spent[v] /\ spent[v] <= LeaseTimeout /\ status[e] = "processing"
      BY <2>1, <2>2 DEF IInv, HoldersAreLeased, Leased, Workable
    <3> QED BY <2>1, <3>1, TimesAreNaturals DEF Workable, IInv, TypeOK
  <2>3. AskedAreDead /\ UNCHANGED asked => AskedAreDead'
    BY <2>1 DEF AskedAreDead, Workable, IInv, TypeOK
  <2>4. UNCHANGED served => FinishedWasServed'
    BY <2>1 DEF FinishedWasServed, IInv, TypeOK
  <2> QED BY <2>2, <2>3, <2>4
<1>3. ASSUME NEW w \in Workers, NEW e \in Events, Claim(w, e) PROVE Rest'
  <2>0. /\ Lease(w, e) /\ UNCHANGED <<asked, served>>
        /\ \A v \in Workers : pc[v] # "idle" => cur[v] # e
    BY <1>3, <1>2 DEF Claim
  <2> USE <1>3, <2>0, <1>a DEF Claim, Lease, IInv, TypeOK
  <2>1. HoldersAreLeased'
    <3> SUFFICES ASSUME NEW v \in Workers
                 PROVE IF pc'[v] = "idle" THEN spent'[v] = 0
                       ELSE /\ spent'[v] <= LeaseTimeout
                            /\ \/ Leased(v)'
                               \/ pc'[v] \in {"failed", "settling"}
                                  /\ status'[cur'[v]] = "done"
      BY DEF HoldersAreLeased
    <3>1. CASE v = w
      BY <3>1, TimesAreNaturals DEF HoldersAreLeased, Leased
    <3>2. CASE v # w
      BY <3>2 DEF HoldersAreLeased, Leased
    <3> QED BY <3>1, <3>2
  <2>2. OneHolder'
    <3> SUFFICES ASSUME NEW v \in Workers, NEW u \in Workers,
                        pc'[v] # "idle", cur'[v] = cur'[u]
                 PROVE v = u
      BY DEF OneHolder
    <3>1. CASE v # w /\ u = w
      BY <3>1
    <3>2. CASE v # w /\ u # w
      BY <3>2 DEF OneHolder
    <3>3. CASE v = w /\ u # w
      <4>1. cur[u] = e /\ pc[u] = "idle" BY <3>3
      <4> QED BY <4>1, NoneIsNeither
    <3> QED BY <3>1, <3>2, <3>3
  <2>3. AskedAreDead' BY <1>2
  <2>4. LocalsAreCurrent' BY DEF LocalsAreCurrent
  <2>5. FinishedWasServed' BY <1>2
  <2> QED BY <2>1, <2>2, <2>3, <2>4, <2>5
<1>4. ASSUME NEW w \in Workers, NEW e \in Events, ClaimLost(w, e) PROVE Rest'
  <2> USE <1>4, <1>2, <1>a DEF ClaimLost, Lease, IInv, TypeOK
  <2>1. HoldersAreLeased' BY DEF HoldersAreLeased, Leased
  <2>2. OneHolder' BY DEF OneHolder
  <2>3. AskedAreDead' OBVIOUS
  <2>4. LocalsAreCurrent' BY DEF LocalsAreCurrent
  <2>5. FinishedWasServed' OBVIOUS
  <2> QED BY <2>1, <2>2, <2>3, <2>4, <2>5
\* A worker that leaves with the row as it is.
<1>5. ASSUME NEW w \in Workers, GoIdle(w), UNCHANGED <<row, asked, served>> PROVE Rest'
  <2> USE <1>5, <1>a DEF GoIdle, IInv, TypeOK
  <2>1. HoldersAreLeased' BY DEF HoldersAreLeased, Leased
  <2>2. OneHolder' BY DEF OneHolder
  <2>3. AskedAreDead' BY DEF AskedAreDead
  <2>4. LocalsAreCurrent' BY DEF LocalsAreCurrent
  <2>5. FinishedWasServed' BY DEF FinishedWasServed
  <2> QED BY <2>1, <2>2, <2>3, <2>4, <2>5
\* A worker between two writes of the row.
<1>6. ASSUME NEW w \in Workers, LoadClaimed(w) PROVE Rest'
  <2> USE <1>6, <1>a DEF LoadClaimed, IInv, TypeOK
  <2>1. HoldersAreLeased' BY DEF HoldersAreLeased, Leased
  <2>2. OneHolder' BY DEF OneHolder
  <2>3. AskedAreDead' BY DEF AskedAreDead
  <2>4. LocalsAreCurrent' BY DEF LocalsAreCurrent
  <2>5. FinishedWasServed' BY DEF FinishedWasServed
  <2> QED BY <2>1, <2>2, <2>3, <2>4, <2>5
<1>7. ASSUME NEW w \in Workers, NEW kind \in {"transient", "permanent"},
             RunSucceeds(w) \/ RunThrows(w, kind)
      PROVE Rest'
  <2> USE <1>7, <1>a, <1>b DEF RunSucceeds, RunThrows, Ended, IInv, TypeOK
  <2>0. fresh[w] /\ status[cur[w]] = "processing"
    BY DEF LocalsAreCurrent, HoldersAreLeased, Leased
  <2>1. HoldersAreLeased' BY DEF HoldersAreLeased, Leased
  <2>2. OneHolder' BY DEF OneHolder
  <2>3. AskedAreDead' BY DEF AskedAreDead
  <2>4. LocalsAreCurrent' BY <2>0 DEF LocalsAreCurrent
  <2>5. FinishedWasServed' BY <2>0 DEF FinishedWasServed
  <2> QED BY <2>1, <2>2, <2>3, <2>4, <2>5
<1>8. ASSUME NEW w \in Workers, WriteAudit(w) PROVE Rest'
  <2> USE <1>8, <1>a DEF WriteAudit, IInv, TypeOK
  <2>1. HoldersAreLeased' BY DEF HoldersAreLeased, Leased
  <2>2. OneHolder' BY DEF OneHolder
  <2>3. AskedAreDead' BY DEF AskedAreDead
  <2>4. LocalsAreCurrent' BY DEF LocalsAreCurrent
  <2>5. FinishedWasServed' BY DEF FinishedWasServed
  <2> QED BY <2>1, <2>2, <2>3, <2>4, <2>5
\* Writes that end the lease touch the row of the one worker that holds it.
<1>9. ASSUME NEW w \in Workers, WriteDone(w) PROVE Rest'
  <2> USE <1>9, <1>a, <1>b DEF WriteDone, SetDone, Unlock, GoIdle, IInv, TypeOK
  <2>1. HoldersAreLeased' BY DEF HoldersAreLeased, Leased
  <2>2. OneHolder' BY DEF OneHolder
  <2>3. AskedAreDead' BY DEF AskedAreDead, HoldersAreLeased, Leased
  <2>4. LocalsAreCurrent' BY DEF LocalsAreCurrent
  <2>5. FinishedWasServed' BY DEF FinishedWasServed, LocalsAreCurrent
  <2> QED BY <2>1, <2>2, <2>3, <2>4, <2>5
<1>10. ASSUME NEW w \in Workers, WriteDoneFails(w) PROVE Rest'
  <2> USE <1>10, <1>a, <1>b DEF WriteDoneFails, SetDone, Unlock, IInv, TypeOK
  <2>1. HoldersAreLeased' BY DEF HoldersAreLeased, Leased
  <2>2. OneHolder' BY DEF OneHolder
  <2>3. AskedAreDead' BY DEF AskedAreDead, HoldersAreLeased, Leased
  <2>4. LocalsAreCurrent' BY DEF LocalsAreCurrent
  <2>5. FinishedWasServed' BY DEF FinishedWasServed, LocalsAreCurrent
  <2> QED BY <2>1, <2>2, <2>3, <2>4, <2>5
<1>11. ASSUME NEW w \in Workers, pc[w] = "settling", SetFailed(w), GoIdle(w),
              UNCHANGED <<asked, served>>
       PROVE Rest'
  <2> USE <1>11, <1>a, <1>b DEF SetFailed, Unlock, GoIdle, IInv, TypeOK
  <2>1. HoldersAreLeased' BY DEF HoldersAreLeased, Leased
  <2>2. OneHolder' BY DEF OneHolder
  <2>3. AskedAreDead' BY DEF AskedAreDead, HoldersAreLeased, Leased
  <2>4. LocalsAreCurrent' BY DEF LocalsAreCurrent
  <2>5. FinishedWasServed' BY DEF FinishedWasServed, LocalsAreCurrent
  <2> QED BY <2>1, <2>2, <2>3, <2>4, <2>5
<1>12. ASSUME NEW o \in Operators, NEW e \in Events, ReplayCheck(o, e) PROVE Rest'
  <2> USE <1>12 DEF ReplayCheck, Orderly, IInv, TypeOK
  <2>1. HoldersAreLeased' BY DEF HoldersAreLeased, Leased
  <2>2. OneHolder' BY DEF OneHolder
  <2>3. AskedAreDead' BY DEF AskedAreDead
  <2>4. LocalsAreCurrent' BY DEF LocalsAreCurrent
  <2>5. FinishedWasServed' BY DEF FinishedWasServed
  <2> QED BY <2>1, <2>2, <2>3, <2>4, <2>5
<1>13. ASSUME NEW o \in Operators, ReplayWrite(o) PROVE Rest'
  <2> USE <1>13, <1>a DEF ReplayWrite, Unlock, IInv, TypeOK
  <2>0. \A v \in Workers : pc[v] # "idle" => cur[v] # asked[o]
    BY DEF AskedAreDead, HoldersAreLeased, Leased
  <2>1. HoldersAreLeased' BY <2>0 DEF HoldersAreLeased, Leased
  <2>2. OneHolder' BY DEF OneHolder
  <2>3. AskedAreDead' BY DEF AskedAreDead, Orderly
  <2>4. LocalsAreCurrent' BY <2>0 DEF LocalsAreCurrent
  <2>5. FinishedWasServed' BY DEF FinishedWasServed
  <2> QED BY <2>1, <2>2, <2>3, <2>4, <2>5
<1>14. ASSUME Tick PROVE Rest'
  <2> USE <1>14, <1>a DEF Tick, IInv, TypeOK
  <2>1. HoldersAreLeased'
    BY TimesAreNaturals DEF Orderly, HoldersAreLeased, Leased, Clamp
  <2>2. OneHolder' BY DEF OneHolder
  <2>3. AskedAreDead' BY DEF AskedAreDead
  <2>4. LocalsAreCurrent' BY DEF LocalsAreCurrent
  <2>5. FinishedWasServed' BY DEF FinishedWasServed
  <2> QED BY <2>1, <2>2, <2>3, <2>4, <2>5
<1>15. ASSUME UNCHANGED vars PROVE Rest'
  BY <1>15 DEF vars, IInv, TypeOK, HoldersAreLeased, Leased, OneHolder, AskedAreDead,
               LocalsAreCurrent, FinishedWasServed
<1>16. ASSUME NEW w \in Workers, WorkerStep(w) \/ Mishap(w) PROVE Rest'
  <2>1. ASSUME Settle(w) PROVE Rest'
    BY <2>1, <1>11 DEF Settle
  <2>2. ASSUME SettleFails(w) PROVE Rest'
    BY <2>2, <1>5, <1>11 DEF SettleFails
  <2>3. ASSUME LoadFails(w) \/ AuditFails(w) \/ Crash(w) PROVE Rest'
    BY <2>3, <1>5 DEF LoadFails, AuditFails, Crash
  <2> QED
    BY <1>16, <2>1, <2>2, <2>3, <1>3, <1>4, <1>6, <1>7, <1>8, <1>9, <1>10
    DEF WorkerStep, Mishap
<1>17. Rest'
  BY <1>1, <1>12, <1>13, <1>14, <1>15, <1>16 DEF Next
<1> QED
  BY <1>0, <1>17 DEF IInv

\* IInv holds in every state of an orderly deployment.
LEMMA Inductive == Orderly => (Spec => []IInv)
<1> SUFFICES ASSUME Orderly PROVE Spec => []IInv
  OBVIOUS
<1>1. Init => IInv
  <2>1. Init => TypeOK
    BY TimesAreNaturals DEF Init, TypeOK, Status, Step, ErrKind, Outcome
  <2> QED
    BY <2>1 DEF Init, IInv, HoldersAreLeased, OneHolder, AskedAreDead,
                LocalsAreCurrent, FinishedWasServed
<1>2. IInv /\ [Next]_vars => IInv'
  BY NextIInv
<1> QED
  BY <1>1, <1>2, PTL DEF Spec

\* In an orderly deployment no two workers run the handler of one event at the
\* same time, whatever crashes and whatever statements fail (worker.ts:18-22).
THEOREM Exclusion == Orderly => (Spec => []NoDoubleProcessing)
<1>1. IInv => NoDoubleProcessing
  BY DEF IInv, OneHolder, NoDoubleProcessing, Running
<1> QED
  BY <1>1, Inductive, PTL

\* In an orderly deployment a done event was carried out, and a dead one tried,
\* after it was last enqueued or replayed (worker.ts:79-120, queries.ts:145-158).
THEOREM NothingFinishedUnserved == Orderly => (Spec => []FinishedWasServed)
<1>1. IInv => FinishedWasServed
  BY DEF IInv
<1> QED
  BY <1>1, Inductive, PTL

--------------------------------------------------------------------------------
\* In an orderly deployment an event is buried only out of attempts or on a
\* permanent error of the worker that holds it (worker.ts:101-107).
THEOREM DeathsEarned == Orderly => (Spec => DeadLettersAreEarned)
<1> SUFFICES ASSUME Orderly PROVE Spec => DeadLettersAreEarned
  OBVIOUS
<1>1. IInv /\ [Next]_vars => [DeathIsEarned]_vars
  <2> SUFFICES ASSUME IInv, Next, NEW e \in Events, status[e] # "dead", status'[e] = "dead"
               PROVE  \/ attempts[e] >= MaxAttempts
                      \/ \E w \in Workers : cur[w] = e /\ err[w] = "permanent"
    BY DEF DeathIsEarned
  <2>1. ASSUME NEW w \in Workers, pc[w] = "settling", SetFailed(w)
        PROVE  \/ attempts[e] >= MaxAttempts
               \/ \E v \in Workers : cur[v] = e /\ err[v] = "permanent"
    <3>1. cur[w] = e /\ Exhausted(w)
      BY <2>1 DEF SetFailed, IInv, TypeOK
    <3>2. tries[w] = attempts[e]
      BY <2>1, <3>1 DEF IInv, LocalsAreCurrent
    <3> QED BY <3>1, <3>2 DEF Exhausted
  <2>2. \E w \in Workers : pc[w] = "settling" /\ SetFailed(w)
    <3> USE DEF IInv, TypeOK, row, local
    <3>1. ASSUME NEW f \in Events, Enqueue(f) PROVE FALSE
      BY <3>1 DEF Enqueue
    <3>2. ASSUME NEW o \in Operators, ReplayWrite(o) \/ \E f \in Events : ReplayCheck(o, f)
          PROVE FALSE
      BY <3>2 DEF ReplayWrite, ReplayCheck
    <3>3. ASSUME Tick PROVE FALSE
      BY <3>3 DEF Tick
    <3>4. ASSUME NEW w \in Workers, WorkerStep(w) \/ Mishap(w)
          PROVE pc[w] = "settling" /\ SetFailed(w)
      <4>1. Settle(w) \/ SettleFails(w)
        BY <3>4 DEF WorkerStep, Mishap, Claim, ClaimLost, Lease, LoadClaimed, LoadFails,
          RunSucceeds, RunThrows, WriteDone, WriteDoneFails, SetDone, WriteAudit,
          AuditFails, Crash
      <4> QED BY <4>1 DEF Settle, SettleFails
    <3> QED BY <3>1, <3>2, <3>3, <3>4 DEF Next
  <2> QED BY <2>1, <2>2
<1> QED
  BY <1>1, Inductive, PTL DEF DeadLettersAreEarned, Spec
--------------------------------------------------------------------------------
\* A row at its bound is finished or in the hands of the worker that made the
\* last claim: every claim beyond MaxAttempts was paid for by a crash or a
\* failed statement that took an earlier lease away.
AttemptsPaid ==
  \A e \in Events :
    /\ attempts[e] <= MaxAttempts + crashes + faults
    /\ attempts[e] = MaxAttempts + crashes + faults =>
         \/ status[e] \in {"done", "dead"}
         \/ \E w \in Workers : pc[w] # "idle" /\ cur[w] = e

\* Every step pays for the claims it makes or allows.
LEMMA NextAttemptsPaid ==
  ASSUME Orderly, MaxAttempts > 0, IInv, AttemptsPaid, [Next]_vars
  PROVE  AttemptsPaid'
<1> USE LimitsAreNaturals DEF IInv, TypeOK, row, local, budget, ghost
<1>b. \A v, w \in Workers : pc[w] # "idle" /\ v # w => cur[v] # cur[w]
  BY DEF OneHolder
<1>1. ASSUME NEW e \in Events, Enqueue(e) PROVE AttemptsPaid'
  BY <1>1 DEF Enqueue, AttemptsPaid
<1>2. ASSUME NEW w \in Workers, NEW e \in Events, Claim(w, e) PROVE AttemptsPaid'
  <2> SUFFICES ASSUME NEW f \in Events
               PROVE  /\ attempts'[f] <= MaxAttempts + crashes + faults
                      /\ attempts'[f] = MaxAttempts + crashes + faults =>
                           \/ status'[f] \in {"done", "dead"}
                           \/ \E v \in Workers : pc'[v] # "idle" /\ cur'[v] = f
    BY <1>2 DEF Claim, AttemptsPaid
  <2>1. CASE f = e
    <3>1. attempts[e] < MaxAttempts + crashes + faults
      <4>1. Workable(e)
        BY <1>2 DEF Claim, Lease, Oldest
      <4>2. ASSUME NEW v \in Workers, pc[v] # "idle", cur[v] = e PROVE FALSE
        BY <4>1, <4>2, TimesAreNaturals DEF Workable, HoldersAreLeased, Leased
      <4> QED BY <4>1, <4>2 DEF Workable, AttemptsPaid
    <3> QED BY <1>2, <2>1, <3>1 DEF Claim, Lease
  <2>2. CASE f # e
    BY <1>2, <2>2 DEF Claim, Lease, AttemptsPaid
  <2> QED BY <2>1, <2>2
<1>3. ASSUME NEW w \in Workers, NEW e \in Events, ClaimLost(w, e) PROVE AttemptsPaid'
  <2>1. attempts[e] < MaxAttempts + crashes + faults
    <3>1. Workable(e)
      BY <1>3 DEF ClaimLost, Lease, Oldest
    <3>2. ASSUME NEW v \in Workers, pc[v] # "idle", cur[v] = e PROVE FALSE
      BY <3>1, <3>2, TimesAreNaturals DEF Workable, HoldersAreLeased, Leased
    <3> QED BY <3>1, <3>2 DEF Workable, AttemptsPaid
  <2> QED BY <1>3, <2>1 DEF ClaimLost, Lease, Fault, AttemptsPaid
\* A lease that is taken away is paid for.
<1>4. ASSUME NEW w \in Workers, GoIdle(w), UNCHANGED attempts,
             crashes' + faults' = crashes + faults + 1
      PROVE AttemptsPaid'
  <2>1. crashes' \in Nat /\ faults' \in Nat => AttemptsPaid'
    BY <1>4 DEF AttemptsPaid
  <2> QED BY <2>1, NextTypeOK
<1>5. ASSUME NEW w \in Workers, LoadClaimed(w) \/ RunSucceeds(w) \/ WriteAudit(w)
      PROVE AttemptsPaid'
  BY <1>5 DEF LoadClaimed, RunSucceeds, WriteAudit, AttemptsPaid
<1>6. ASSUME NEW w \in Workers, NEW kind \in {"transient", "permanent"}, RunThrows(w, kind)
      PROVE AttemptsPaid'
  BY <1>6 DEF RunThrows, AttemptsPaid
<1>7. ASSUME NEW w \in Workers, WriteDone(w) PROVE AttemptsPaid'
  BY <1>7, <1>b DEF WriteDone, SetDone, GoIdle, AttemptsPaid
<1>8. ASSUME NEW w \in Workers, WriteDoneFails(w) PROVE AttemptsPaid'
  BY <1>8, <1>b DEF WriteDoneFails, SetDone, Fault, AttemptsPaid
<1>9. ASSUME NEW w \in Workers, Settle(w) PROVE AttemptsPaid'
  <2>1. tries[w] = attempts[cur[w]]
    BY <1>9 DEF Settle, LocalsAreCurrent
  <2> QED BY <1>9, <1>b, <2>1 DEF Settle, SetFailed, Exhausted, GoIdle, AttemptsPaid
<1>10. ASSUME NEW o \in Operators, ReplayWrite(o) PROVE AttemptsPaid'
  BY <1>10 DEF ReplayWrite, AttemptsPaid
<1>11. ASSUME NEW o \in Operators, NEW e \in Events, ReplayCheck(o, e) PROVE AttemptsPaid'
  BY <1>11 DEF ReplayCheck, AttemptsPaid
<1>12. ASSUME Tick PROVE AttemptsPaid'
  BY <1>12 DEF Tick, AttemptsPaid
<1>13. ASSUME UNCHANGED vars PROVE AttemptsPaid'
  BY <1>13 DEF vars, AttemptsPaid
<1>14. ASSUME NEW w \in Workers,
              LoadFails(w) \/ AuditFails(w) \/ SettleFails(w) \/ Crash(w)
       PROVE AttemptsPaid'
  <2>1. GoIdle(w) /\ UNCHANGED attempts
    BY <1>14 DEF LoadFails, AuditFails, SettleFails, SetFailed, Crash
  <2>2. crashes' + faults' = crashes + faults + 1
    BY <1>14 DEF LoadFails, AuditFails, SettleFails, Crash, Fault
  <2> QED BY <2>1, <2>2, <1>4
<1>15. ASSUME NEW w \in Workers, WorkerStep(w) \/ Mishap(w) PROVE AttemptsPaid'
  BY <1>15, <1>2, <1>3, <1>5, <1>6, <1>7, <1>8, <1>9, <1>14 DEF WorkerStep, Mishap
<1> QED
  BY <1>1, <1>10, <1>11, <1>12, <1>13, <1>15 DEF Next

\* In an orderly deployment only crashes and failed statements take a row beyond
\* MaxAttempts, one claim each (worker.ts:14-15).
THEOREM CrashCosts ==
  Orderly /\ MaxAttempts > 0 => (Spec => []CrashCostsOneAttempt)
<1> SUFFICES ASSUME Orderly, MaxAttempts > 0 PROVE Spec => []CrashCostsOneAttempt
  OBVIOUS
<1>1. Init => AttemptsPaid
  BY LimitsAreNaturals DEF Init, AttemptsPaid
<1>2. IInv /\ AttemptsPaid /\ [Next]_vars => AttemptsPaid'
  BY NextAttemptsPaid
<1>3. AttemptsPaid => CrashCostsOneAttempt
  BY DEF AttemptsPaid, CrashCostsOneAttempt
<1> QED
  BY <1>1, <1>2, <1>3, Inductive, PTL DEF Spec
--------------------------------------------------------------------------------
\* What one write of a row's status does to its stage.
LEMMA StageStep ==
  ASSUME TypeOK, NEW e \in Events, NEW s \in Status, status' = [status EXCEPT ![e] = s]
  PROVE  [f \in Events |-> StageOf(status'[f])] =
           [[f \in Events |-> StageOf(status[f])] EXCEPT ![e] = StageOf(s)]
  BY DEF TypeOK

\* In an orderly deployment the outbox implements the life of an event: claims,
\* reclaims, retries, crashes, lost answers and replays of a row are moves of
\* its stage, or none (worker.ts:23-123, queries.ts:145-158).
THEOREM Implementation == Orderly => (Spec => ImplementsLifecycle)
<1> SUFFICES ASSUME Orderly PROVE Spec => ImplementsLifecycle
  OBVIOUS
<1> DEFINE stage == [e \in Events |-> StageOf(status[e])]
<1>1. Init => Lifecycle!Init
  BY DEF Init, Lifecycle!Init, StageOf
<1>2. IInv /\ [Next]_vars => [Lifecycle!Next]_stage
  <2> SUFFICES ASSUME IInv, Next, status' # status
               PROVE  \E e \in Events :
                        \/ Lifecycle!Enqueue(e) \/ Lifecycle!Start(e)
                        \/ Lifecycle!Release(e) \/ Lifecycle!Finish(e)
                        \/ Lifecycle!Bury(e) \/ Lifecycle!Replay(e)
                        \/ Lifecycle!Retract(e) \/ stage' = stage
    BY DEF vars, row, Lifecycle!Next
  <2> USE DEF row, local
  <2>0. TypeOK /\ \A w \in Workers : pc[w] # "idle" => cur[w] \in Events
    BY DEF IInv, TypeOK
  <2>1. ASSUME NEW e \in Events, Enqueue(e) PROVE Lifecycle!Enqueue(e)
    BY <2>0, <2>1, StageStep
    DEF Enqueue, Lifecycle!Enqueue, Lifecycle!Move, StageOf, Status
  <2>2. ASSUME NEW w \in Workers, NEW e \in Events, Lease(w, e)
        PROVE  Lifecycle!Start(e) \/ stage' = stage
    <3>1. status[e] \in {"pending", "processing"} /\ status' = [status EXCEPT ![e] = "processing"]
      BY <2>2 DEF Lease, Oldest, Workable
    <3>2. stage' = [stage EXCEPT ![e] = "running"]
      BY <2>0, <3>1, StageStep DEF StageOf, Status
    <3> QED
      BY <2>0, <3>1, <3>2 DEF Lifecycle!Start, Lifecycle!Move, StageOf
  <2>3. ASSUME NEW w \in Workers, pc[w] = "succeeded", SetDone(cur[w])
        PROVE  Lifecycle!Finish(cur[w])
    <3>1. status[cur[w]] = "processing" /\ cur[w] \in Events
      BY <2>0, <2>3 DEF IInv, HoldersAreLeased, Leased
    <3> QED
      BY <2>0, <2>3, <3>1, StageStep
      DEF SetDone, Lifecycle!Finish, Lifecycle!Move, StageOf, Status
  <2>4. ASSUME NEW w \in Workers, pc[w] = "settling", SetFailed(w)
        PROVE  \/ Lifecycle!Release(cur[w]) \/ Lifecycle!Bury(cur[w])
               \/ Lifecycle!Replay(cur[w]) \/ Lifecycle!Retract(cur[w])
    <3>1. status[cur[w]] \in {"processing", "done"} /\ cur[w] \in Events
      BY <2>0, <2>4 DEF IInv, HoldersAreLeased, Leased
    <3>2. CASE status' = [status EXCEPT ![cur[w]] = "dead"]
      BY <2>0, <3>1, <3>2, StageStep
      DEF Lifecycle!Bury, Lifecycle!Retract, Lifecycle!Move, StageOf, Status
    <3>3. CASE status' = [status EXCEPT ![cur[w]] = "pending"]
      BY <2>0, <3>1, <3>3, StageStep
      DEF Lifecycle!Release, Lifecycle!Replay, Lifecycle!Move, StageOf, Status
    <3> QED BY <2>4, <3>2, <3>3 DEF SetFailed
  <2>5. ASSUME NEW o \in Operators, ReplayWrite(o)
        PROVE  \E e \in Events : Lifecycle!Replay(e)
    <3>1. asked[o] \in Events /\ status[asked[o]] = "dead"
      BY <2>0, <2>5 DEF ReplayWrite, IInv, AskedAreDead, TypeOK
    <3>2. Lifecycle!Replay(asked[o])
      BY <2>0, <2>5, <3>1, StageStep
      DEF ReplayWrite, Lifecycle!Replay, Lifecycle!Move, StageOf, Status
    <3> QED BY <3>1, <3>2
  <2>6. ASSUME NEW w \in Workers, WorkerStep(w) \/ Mishap(w)
        PROVE  \/ \E e \in Events : Lease(w, e)
               \/ pc[w] = "succeeded" /\ SetDone(cur[w])
               \/ pc[w] = "settling" /\ SetFailed(w)
    BY <2>6 DEF WorkerStep, Mishap, Claim, ClaimLost, LoadClaimed, LoadFails,
          RunSucceeds, RunThrows, WriteDone, WriteDoneFails, WriteAudit,
          AuditFails, Settle, SettleFails, Crash
  <2>7. ASSUME NEW w \in Workers, WorkerStep(w) \/ Mishap(w)
        PROVE  \E e \in Events :
                 \/ Lifecycle!Start(e) \/ stage' = stage \/ Lifecycle!Finish(e)
                 \/ Lifecycle!Release(e) \/ Lifecycle!Bury(e)
                 \/ Lifecycle!Replay(e) \/ Lifecycle!Retract(e)
    BY <2>0, <2>2, <2>3, <2>4, <2>6, <2>7
  <2> QED
    BY <2>1, <2>5, <2>7 DEF Next, ReplayCheck, Tick
<1> QED
  BY <1>1, <1>2, Inductive, PTL DEF ImplementsLifecycle, Lifecycle!Spec, Spec
================================================================================
