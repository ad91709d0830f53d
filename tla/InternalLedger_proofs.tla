------------------------- MODULE InternalLedger_proofs -------------------------
(***************************************************************************)
(* Proofs about InternalLedger for any number of requests in progress, any *)
(* amounts and any number of failures.                                     *)
(***************************************************************************)
EXTENDS InternalLedger, TLAPS

\* What a caller asks for.
LEMMA OpType ==
  ASSUME NEW o \in Op
  PROVE  /\ o.cents \in Nat
         /\ o.kind \in {"create", "update", "pay", "rename", "delete", "none"}
  <1>1. CASE o \in [kind : {"create", "update", "pay"}, cents : Amounts]
    BY <1>1, AmountsAreNaturals
  <1>2. CASE o \in [kind : {"rename", "delete", "none"}, cents : {0}]
    BY <1>2
  <1> QED BY <1>1, <1>2 DEF Op

\* What a request writes is a row, whatever it read.
LEMMA WrittenType ==
  ASSUME TypeOK, NEW r \in Requests, pc[r] # "idle"
  PROVE  Written(r) \in Row
  <1> DEFINE old == read[r]
             cents == op[r].cents
  <1>1. /\ old \in Row /\ invoice \in Row /\ cents \in Nat
        /\ op[r].kind \in {"create", "update", "rename", "pay", "delete"}
    BY OpType DEF TypeOK
  <1>2. ASSUME NEW c \in Nat PROVE UpdatedRow(old, c) \in Row
    BY <1>1, <1>2 DEF UpdatedRow, Settled, Larger, Row
  <1>3. CASE op[r].kind = "create"
    BY <1>1, <1>3 DEF Written, CreatedRow, Row
  <1>4. CASE op[r].kind = "update"
    BY <1>1, <1>2, <1>4 DEF Written
  <1>5. CASE op[r].kind = "rename"
    <2>1. old.amount \in Nat BY <1>1 DEF Row
    <2> QED BY <1>1, <1>2, <1>5, <2>1 DEF Written
  <1>6. CASE op[r].kind = "pay"
    BY <1>1, <1>6 DEF Written, PaidRow, Larger, Row
  <1>7. CASE op[r].kind = "delete"
    <2>1. Written(r) = [invoice EXCEPT !.status = "deleted", !.version = old.version + 1]
      BY <1>7 DEF Written, DeletedRow
    <2>2. old.version + 1 \in Nat BY <1>1 DEF Row
    <2> QED BY <1>1, <2>1, <2>2 DEF Row
  <1> QED BY <1>1, <1>3, <1>4, <1>5, <1>6, <1>7

\* The answer to a request keeps the locals of all of them well typed.
LEMMA AnswerType ==
  ASSUME TypeOK, NEW r \in Requests, Answer(r)
  PROVE  /\ pc' \in [Requests -> Step] /\ op' \in [Requests -> Op]
         /\ read' \in [Requests -> Row] /\ change' \in [Requests -> Nat]
         /\ \A s \in Requests : IF pc'[s] \in {"emit", "deliver"}
                                THEN change'[s] \in 1..Len(changes)
                                ELSE change'[s] = 0
         /\ \A s \in Requests : /\ op'[s].kind = "none" <=> pc'[s] = "idle"
                                /\ op'[s].kind = "pay" => op'[s].cents > 0
  BY DEF Answer, TypeOK, Step, Op, NoOp, Row, Absent

\* Every step keeps the row, the feed and every request's locals well typed.
LEMMA NextTypeOK == TypeOK /\ [Next]_vars => TypeOK'
<1> SUFFICES ASSUME TypeOK, [Next]_vars PROVE TypeOK'
  OBVIOUS
<1> USE DEF row, local, ghost
<1>1. ASSUME NEW r \in Requests, Begin(r) PROVE TypeOK'
  BY <1>1 DEF Begin, Goto, TypeOK, Step, Op
<1>2. ASSUME NEW r \in Requests, Load(r) PROVE TypeOK'
  BY <1>2 DEF Load, Goto, TypeOK, Step
<1>3. ASSUME NEW r \in Requests, NotFound(r) PROVE TypeOK'
  BY <1>3, AnswerType DEF NotFound, TypeOK
<1>4. ASSUME NEW r \in Requests, InsertPayment(r) PROVE TypeOK'
  <2>1. op[r].cents \in Nat BY OpType DEF TypeOK
  <2> QED BY <1>4, <2>1 DEF InsertPayment, Goto, TypeOK, Step
<1>5. ASSUME NEW r \in Requests, WriteRow(r) PROVE TypeOK'
  <2>1. op[r].cents \in Nat BY OpType DEF TypeOK
  <2>2. Written(r) \in Row BY <1>5, WrittenType DEF WriteRow
  <2> QED BY <1>5, <2>1, <2>2 DEF WriteRow, Goto, TypeOK, Step
<1>6. ASSUME NEW r \in Requests, RecordChange(r) PROVE TypeOK'
  <2> DEFINE new == [kind |-> IF op[r].kind = "rename" THEN "update" ELSE op[r].kind,
                     delivered |-> FALSE,
                     version |-> IF op[r].kind = "pay" THEN 1 ELSE read[r].version]
  <2>1. op[r].kind \in {"create", "update", "rename", "pay", "delete"}
        /\ read[r].version \in Nat
    BY <1>6, OpType DEF RecordChange, TypeOK, Row
  <2>2. new \in Change
    BY <2>1 DEF Change
  <2>3. changes' = Append(changes, new) /\ changes \in Seq(Change)
    BY <1>6 DEF RecordChange, TypeOK
  <2> HIDE DEF new
  <2>4. changes' \in Seq(Change) /\ Len(changes') = Len(changes) + 1
        /\ Len(changes) \in Nat
    BY <2>2, <2>3
  <2> QED BY <1>6, <2>4 DEF RecordChange, Goto, TypeOK, Step
<1>7. ASSUME NEW r \in Requests, Accepted(r) PROVE TypeOK'
  <2>1. unheard' \in BOOLEAN BY <1>7 DEF Accepted, Enqueue
  <2> QED BY <1>7, <2>1 DEF Accepted, Enqueue, EventId, Goto, TypeOK, Step
<1>8. ASSUME NEW r \in Requests, Refused(r) PROVE TypeOK'
  BY <1>8 DEF Refused, Goto, TypeOK, Step
<1>9. ASSUME NEW r \in Requests, MarkDelivered(r) PROVE TypeOK'
  <2>1. changes' = [changes EXCEPT ![change[r]].delivered = TRUE]
        /\ changes \in Seq(Change) /\ change[r] \in 1..Len(changes)
    BY <1>9 DEF MarkDelivered, TypeOK
  <2>2. [changes[change[r]] EXCEPT !.delivered = TRUE] \in Change
    <3>1. changes[change[r]] \in Change BY <2>1
    <3> QED BY <3>1 DEF Change
  <2>3. changes' \in Seq(Change) /\ Len(changes') = Len(changes)
    BY <2>1, <2>2
  <2> QED BY <1>9, <2>3, AnswerType DEF MarkDelivered, TypeOK
<1>10. ASSUME NEW r \in Requests, Fail(r) PROVE TypeOK'
  BY <1>10, AnswerType DEF Fail, TypeOK
<1>11. CASE Crash
  BY <1>11 DEF Crash, TypeOK, Step, Op, NoOp, Row, Absent
<1>12. CASE UNCHANGED vars
  BY <1>12 DEF vars, TypeOK
<1> QED
  BY <1>1, <1>2, <1>3, <1>4, <1>5, <1>6, <1>7, <1>8, <1>9, <1>10, <1>11, <1>12
  DEF Next, Serve

LEMMA LedgerInit == Init => TypeOK
<1> SUFFICES ASSUME Init PROVE TypeOK
  OBVIOUS
<1>1. NoOp \in Op /\ NoOp.kind = "none" /\ Absent \in Row
  BY DEF NoOp, Op, Absent, Row
<1>2. changes \in Seq(Change)
  BY DEF Init
<1> QED BY <1>1, <1>2 DEF Init, TypeOK, Step

\* The row, the feed and every request's locals keep their types.
THEOREM LedgerTypeOK == Spec => []TypeOK
  BY LedgerInit, NextTypeOK, PTL DEF Spec
--------------------------------------------------------------------------------
(***************************************************************************)
(* Money.  The balance and the status fit the payments as long as no       *)
(* request writes over a row that changed after it was read: then what it  *)
(* computes from is the row itself.                                        *)
(***************************************************************************)
Sound == NothingPaidFromNowhere /\ StatusFitsBalance

\* A row written over the row it was computed from stays sound.
LEMMA WriteSound ==
  ASSUME TypeOK, Sound, NEW r \in Requests, WriteRow(r)
  PROVE  Sound'
  <1> SUFFICES ASSUME ~raced' PROVE Sound'
    BY DEF Sound, NothingPaidFromNowhere, StatusFitsBalance
  <1> DEFINE old == invoice
             new == invoice'
             cents == op[r].cents
  <1>1. ~raced /\ read[r] = old /\ old \in Row /\ new = Written(r) /\ credited \in Nat
    BY DEF WriteRow, TypeOK
  <1>2. /\ old.balance \in Nat /\ old.amount \in Nat
        /\ old.balance <= old.amount /\ old.amount - old.balance <= credited
    BY <1>1 DEF Sound, NothingPaidFromNowhere, Row
  <1>3. cents \in Nat
    BY OpType DEF TypeOK
  <1>4. op[r].kind \in {"create", "update", "rename", "pay", "delete"}
    BY OpType DEF WriteRow, TypeOK
  <1>5. ASSUME NEW c \in Nat, new = UpdatedRow(old, c), credited' = credited PROVE Sound'
    BY <1>1, <1>2, <1>5
    DEF UpdatedRow, Settled, Larger, Sound, NothingPaidFromNowhere, StatusFitsBalance
  <1>6. CASE op[r].kind = "create"
    BY <1>1, <1>3, <1>6
    DEF WriteRow, Written, CreatedRow, Sound, NothingPaidFromNowhere, StatusFitsBalance
  <1>7. CASE op[r].kind = "update"
    BY <1>1, <1>3, <1>5, <1>7 DEF WriteRow, Written
  <1>8. CASE op[r].kind = "rename"
    BY <1>1, <1>2, <1>5, <1>8 DEF WriteRow, Written
  <1>9. CASE op[r].kind = "pay"
    <2>1. cents > 0 /\ credited' = credited + cents
      BY <1>9 DEF WriteRow, TypeOK
    <2>2. new = PaidRow(old, old, cents)
      BY <1>1, <1>9 DEF Written
    <2> QED BY <1>1, <1>2, <1>3, <2>1, <2>2
            DEF PaidRow, Larger, Sound, NothingPaidFromNowhere, StatusFitsBalance
  <1>10. CASE op[r].kind = "delete"
    <2>1. new = DeletedRow(old, old) /\ credited' = credited
      BY <1>1, <1>10 DEF WriteRow, Written
    <2> QED BY <1>1, <1>2, <2>1
            DEF DeletedRow, Row, Sound, NothingPaidFromNowhere, StatusFitsBalance
  <1> QED BY <1>4, <1>6, <1>7, <1>8, <1>9, <1>10

\* No other step touches the row or what it is compared with.
LEMMA NextSound == TypeOK /\ Sound /\ [Next]_vars => Sound'
<1> SUFFICES ASSUME TypeOK, Sound, [Next]_vars PROVE Sound'
  OBVIOUS
<1>1. ASSUME NEW r \in Requests, WriteRow(r) PROVE Sound'
  BY <1>1, WriteSound
<1>2. ASSUME UNCHANGED <<invoice, raced, credited>> PROVE Sound'
  BY <1>2 DEF Sound, NothingPaidFromNowhere, StatusFitsBalance
<1>3. (\E r \in Requests : WriteRow(r)) \/ UNCHANGED <<invoice, raced, credited>>
  BY DEF Next, Serve, Begin, Load, NotFound, InsertPayment, RecordChange, Accepted,
         Enqueue, Refused, MarkDelivered, Fail, Crash, vars, row, ghost
<1> QED BY <1>1, <1>2, <1>3

\* Requests that did not write over each other's rows took no more off the
\* invoice than was paid (NothingPaidFromNowhere, updateInvoice and recordPayment).
THEOREM NothingFromNowhere == Spec => []NothingPaidFromNowhere
<1>1. Init => TypeOK /\ Sound
  BY LedgerInit DEF Init, Sound, NothingPaidFromNowhere, StatusFitsBalance, Absent
<1>2. TypeOK /\ Sound /\ [Next]_vars => (TypeOK /\ Sound)'
  BY NextTypeOK, NextSound
<1>3. Sound => NothingPaidFromNowhere
  BY DEF Sound
<1> QED BY <1>1, <1>2, <1>3, PTL DEF Spec

\* Under the same condition the status fits the balance (StatusFitsBalance).
THEOREM StatusFits == Spec => []StatusFitsBalance
<1>1. Init => TypeOK /\ Sound
  BY LedgerInit DEF Init, Sound, NothingPaidFromNowhere, StatusFitsBalance, Absent
<1>2. TypeOK /\ Sound /\ [Next]_vars => (TypeOK /\ Sound)'
  BY NextTypeOK, NextSound
<1>3. Sound => StatusFitsBalance
  BY DEF Sound
<1> QED BY <1>1, <1>2, <1>3, PTL DEF Spec

\* What is owed adds up for any number of requests (BalanceAddsUp).
THEOREM BalanceHolds == Spec => []BalanceAddsUp
<1>1. NothingPaidFromNowhere /\ StatusFitsBalance => BalanceAddsUp
  BY DEF BalanceAddsUp
<1> QED BY <1>1, NothingFromNowhere, StatusFits, PTL
--------------------------------------------------------------------------------
(***************************************************************************)
(* Announcements.  Each request in emitChange holds a change row of its    *)
(* own, whose event is inserted when the bridge accepts it and not before. *)
(***************************************************************************)
Announcing == {"emit", "deliver"}

ChangesAreOwn ==
  /\ outbox \subseteq 1..Len(changes)
  /\ \A r \in Requests : pc[r] = "emit" => change[r] \notin outbox
  /\ \A r, s \in Requests :
       r # s /\ pc[r] \in Announcing /\ pc[s] \in Announcing => change[r] # change[s]

\* An unheard write is about to be announced, or somebody knows of it.
WriterIsAtIt ==
  unheard /\ ~excused => \E r \in Requests : pc[r] \in {"record", "emit"}

\* What is marked delivered, or about to be, is enqueued.
MarkIsTrue ==
  refusals = 0 =>
    /\ \A id \in 1..Len(changes) : changes[id].delivered => id \in outbox
    /\ \A r \in Requests : pc[r] = "deliver" => change[r] \in outbox

Told == ChangesAreOwn /\ WriterIsAtIt /\ MarkIsTrue

LEMMA NextTold == TypeOK /\ Told /\ [Next]_vars => Told'
<1> SUFFICES ASSUME TypeOK, Told, [Next]_vars PROVE Told'
  OBVIOUS
<1> USE DEF row, local, ghost, Announcing
<1>1. ASSUME NEW r \in Requests, Begin(r) PROVE Told'
  BY <1>1 DEF Begin, Goto, TypeOK, Told, ChangesAreOwn, WriterIsAtIt, MarkIsTrue
<1>2. ASSUME NEW r \in Requests, Load(r) \/ InsertPayment(r) PROVE Told'
  <2>1. CASE Load(r)
    BY <2>1 DEF Load, Goto, TypeOK, Told, ChangesAreOwn, WriterIsAtIt, MarkIsTrue
  <2>2. CASE InsertPayment(r)
    BY <2>2 DEF InsertPayment, Goto, TypeOK, Told, ChangesAreOwn, WriterIsAtIt, MarkIsTrue
  <2> QED BY <1>2, <2>1, <2>2
<1>3. ASSUME NEW r \in Requests, NotFound(r) PROVE Told'
  BY <1>3 DEF NotFound, Answer, TypeOK, Told, ChangesAreOwn, WriterIsAtIt, MarkIsTrue
<1>4. ASSUME NEW r \in Requests, WriteRow(r) PROVE Told'
  BY <1>4 DEF WriteRow, Goto, TypeOK, Told, ChangesAreOwn, WriterIsAtIt, MarkIsTrue
<1>5. ASSUME NEW r \in Requests, RecordChange(r) PROVE Told'
  <2>1. PICK new : changes' = Append(changes, new) /\ new.delivered = FALSE
    BY <1>5 DEF RecordChange
  <2>2. changes \in Seq(Change) /\ Len(changes) \in Nat /\ Len(changes') = Len(changes) + 1
    BY <2>1 DEF TypeOK
  <2>3. \A id \in 1..Len(changes') :
          changes'[id] = IF id = Len(changes) + 1 THEN new ELSE changes[id]
    BY <2>1, <2>2
  <2>4. ChangesAreOwn'
    BY <1>5, <2>2 DEF RecordChange, Goto, TypeOK, Told, ChangesAreOwn
  <2>5. WriterIsAtIt'
    BY <1>5 DEF RecordChange, Goto, TypeOK, Told, WriterIsAtIt
  <2>6. MarkIsTrue'
    BY <1>5, <2>1, <2>2, <2>3 DEF RecordChange, Goto, TypeOK, Told, MarkIsTrue
  <2> QED BY <2>4, <2>5, <2>6 DEF Told
<1>6. ASSUME NEW r \in Requests, Accepted(r) PROVE Told'
  <2>1. change[r] \notin outbox /\ change[r] \in 1..Len(changes)
    BY <1>6 DEF Accepted, Told, ChangesAreOwn, TypeOK
  <2>2. ~unheard' /\ outbox' = outbox \cup {change[r]}
    BY <1>6, <2>1 DEF Accepted, Enqueue, EventId
  <2> QED BY <1>6, <2>1, <2>2
          DEF Accepted, Goto, TypeOK, Told, ChangesAreOwn, WriterIsAtIt, MarkIsTrue
<1>7. ASSUME NEW r \in Requests, Refused(r) PROVE Told'
  BY <1>7 DEF Refused, Goto, TypeOK, Told, ChangesAreOwn, WriterIsAtIt, MarkIsTrue
<1>8. ASSUME NEW r \in Requests, MarkDelivered(r) PROVE Told'
  <2>1. changes' = [changes EXCEPT ![change[r]].delivered = TRUE]
        /\ changes \in Seq(Change) /\ change[r] \in 1..Len(changes)
    BY <1>8 DEF MarkDelivered, TypeOK
  <2>2. Len(changes') = Len(changes)
        /\ \A id \in 1..Len(changes) : id # change[r] => changes'[id] = changes[id]
    BY <2>1
  <2>3. ChangesAreOwn' /\ WriterIsAtIt'
    BY <1>8, <2>2
    DEF MarkDelivered, Answer, TypeOK, Told, ChangesAreOwn, WriterIsAtIt
  <2>4. MarkIsTrue'
    BY <1>8, <2>2 DEF MarkDelivered, Answer, TypeOK, Told, MarkIsTrue
  <2> QED BY <2>3, <2>4 DEF Told
<1>9. ASSUME NEW r \in Requests, Fail(r) PROVE Told'
  BY <1>9 DEF Fail, Answer, TypeOK, Told, ChangesAreOwn, WriterIsAtIt, MarkIsTrue
<1>10. CASE Crash
  BY <1>10 DEF Crash, TypeOK, Told, ChangesAreOwn, WriterIsAtIt, MarkIsTrue
<1>11. CASE UNCHANGED vars
  BY <1>11 DEF vars, Told, ChangesAreOwn, WriterIsAtIt, MarkIsTrue
<1> QED
  BY <1>1, <1>2, <1>3, <1>4, <1>5, <1>6, <1>7, <1>8, <1>9, <1>10, <1>11
  DEF Next, Serve

LEMMA AlwaysTold == Spec => [](TypeOK /\ Told)
<1>1. Init => TypeOK /\ Told
  <2>1. Init => Len(changes) = 0
    BY DEF Init
  <2> QED BY <2>1, LedgerInit DEF Init, Announcing, Told, ChangesAreOwn, WriterIsAtIt,
                             MarkIsTrue
<1>2. TypeOK /\ Told /\ [Next]_vars => (TypeOK /\ Told)'
  BY NextTypeOK, NextTold
<1> QED BY <1>1, <1>2, PTL DEF Spec

\* A change marked delivered has its event at the bridge, unless the bridge
\* refused a webhook (DeliveredIsEnqueued, emitChange).
THEOREM DeliveredMeansEnqueued == Spec => []DeliveredIsEnqueued
<1>1. Told => DeliveredIsEnqueued
  BY DEF Told, MarkIsTrue, DeliveredIsEnqueued, EventId
<1> QED BY <1>1, AlwaysTold, PTL

\* At rest an event was inserted after the last write, unless a caller or the
\* bridge knows of a failure (LastWriteIsHeard, emitChange after each write).
THEOREM EveryWriteIsHeard == Spec => []LastWriteIsHeard
<1>1. Told => LastWriteIsHeard
  BY DEF Told, WriterIsAtIt, LastWriteIsHeard
<1> QED BY <1>1, AlwaysTold, PTL

\* The change feed and the outbox agree (AnnouncementsHold).
THEOREM AnnouncementsAreTrue == Spec => []AnnouncementsHold
<1>1. DeliveredIsEnqueued /\ LastWriteIsHeard => AnnouncementsHold
  BY DEF AnnouncementsHold
<1> QED BY <1>1, DeliveredMeansEnqueued, EveryWriteIsHeard, PTL
================================================================================
