---------------------------- MODULE InternalLedger ----------------------------
(***************************************************************************)
(* The internal invoicing system: its HTTP requests, one database          *)
(* statement per step, over one invoice and its payments, the change feed  *)
(* they append to, and the signed webhook each change is announced with,   *)
(* up to the row the bridge inserts for it.                                *)
(*                                                                         *)
(* A request reads the invoice, writes what it computed from what it read, *)
(* records the change and posts the webhook; only then does the caller get *)
(* an answer.  Nothing locks the row in between, so two requests (or a     *)
(* request and the bridge's own write-back, which calls the same           *)
(* functions) interleave.                                                  *)
(***************************************************************************)
EXTENDS Integers, Sequences, FiniteSets

CONSTANTS
  Requests,      \* requests that can be in progress at the same time
  Amounts,       \* amounts in cents that callers name
  MaxRequests,   \* bound on the requests served
  MaxMishaps     \* bound on failed statements, process deaths and webhooks
                 \* that the bridge answers with an error

ASSUME AmountsAreNaturals == Amounts \subseteq Nat
ASSUME BoundsAreNaturals ==
  MaxRequests \in Nat /\ MaxMishaps \in Nat

VARIABLES
  invoice,    \* the row of internal.invoices; "absent" before it is created
  paid,       \* the sum of the invoice's rows in internal.payments
  changes,    \* internal.changes, in the order of its serial id
  outbox,     \* ids of the events the bridge has inserted into sync_events
  pc,         \* where request r stands
  op,         \* what it asks for
  read,       \* the row it read (current), then the one it wrote (inv)
  change,     \* the id of the change row it inserted, 0 before
  begun, faults, refusals,
  \* History, read by the properties only:
  raced,      \* a row was written by a request that had read an older one
  credited,   \* the sum of the payments that were written to the balance
  unheard,    \* the row was written after the last new event was inserted
  excused     \* a caller was told of a failure, or the bridge refused a webhook

row   == <<invoice, paid, changes>>
local == <<pc, op, read, change>>
ghost == <<raced, credited, unheard, excused>>
vars  == <<row, outbox, local, begun, faults, refusals, ghost>>

Step == {"idle", "load", "pay", "write", "record", "emit", "deliver"}
Op   == [kind : {"create", "update", "pay"}, cents : Amounts]
          \cup [kind : {"rename", "delete", "none"}, cents : {0}]
Row  == [status : {"absent", "open", "partially_paid", "paid", "deleted"},
         amount : Nat, balance : Nat, version : Nat]
Change == [kind : {"create", "update", "pay", "delete"}, version : Nat,
           delivered : BOOLEAN]

NoOp   == [kind |-> "none", cents |-> 0]
Absent == [status |-> "absent", amount |-> 0, balance |-> 0, version |-> 0]

Init ==
  /\ invoice = Absent /\ paid = 0 /\ changes = <<>> /\ outbox = {}
  /\ pc = [r \in Requests |-> "idle"]
  /\ op = [r \in Requests |-> NoOp]
  /\ read = [r \in Requests |-> Absent]
  /\ change = [r \in Requests |-> 0]
  /\ begun = 0 /\ faults = 0 /\ refusals = 0
  /\ raced = FALSE /\ credited = 0 /\ unheard = FALSE /\ excused = FALSE
--------------------------------------------------------------------------------
Larger(a, b) == IF a > b THEN a ELSE b

Settled(balance, taken) ==
  IF balance = 0 THEN "paid" ELSE IF taken > 0 THEN "partially_paid" ELSE "open"

CreatedRow(cents) ==
  [status |-> "open", amount |-> cents, balance |-> cents, version |-> 1]

\* Wrong: what has been paid is told from the new amount.
UpdatedRowOfNewAmount(old, cents) ==
  LET taken   == Larger(0, cents - old.balance)
      balance == Larger(0, cents - taken)
  IN  [status |-> Settled(balance, taken), amount |-> cents,
       balance |-> balance, version |-> old.version + 1]

\* updateInvoice: what has been paid is told from the row itself, and the
\* result is open, partially paid or paid even if the row was deleted.
UpdatedRow(old, cents) ==
  LET taken   == old.amount - old.balance
      balance == Larger(0, cents - taken)
  IN  [status |-> Settled(balance, taken), amount |-> cents,
       balance |-> balance, version |-> old.version + 1]

\* recordPayment writes the balance and the status and leaves the amount.
PaidRow(old, now, cents) ==
  LET balance == Larger(0, old.balance - cents)
  IN  [status |-> IF balance = 0 THEN "paid" ELSE "partially_paid",
       amount |-> now.amount, balance |-> balance, version |-> old.version + 1]

DeletedRow(old, now) ==
  [now EXCEPT !.status = "deleted", !.version = old.version + 1]

\* What request r writes, from the row it read and the row it finds.
Written(r) ==
  LET cents == op[r].cents
  IN  CASE op[r].kind = "create" -> CreatedRow(cents)
        [] op[r].kind = "update" -> UpdatedRow(read[r], cents)
        [] op[r].kind = "rename" -> UpdatedRow(read[r], read[r].amount)
        [] op[r].kind = "pay"    -> PaidRow(read[r], invoice, cents)
        [] op[r].kind = "delete" -> DeletedRow(read[r], invoice)

\* `internal:change:<id>`
EventId(id) == id

Goto(r, step) == pc' = [pc EXCEPT ![r] = step]

\* Wrong: the id of the change outlives the request.
AnswerKeepsChange(r) ==
  /\ pc' = [pc EXCEPT ![r] = "idle"]
  /\ read' = [read EXCEPT ![r] = Absent]
  /\ op' = [op EXCEPT ![r] = NoOp]
  /\ UNCHANGED change

\* The answer is sent and the request's locals are gone.
Answer(r) ==
  /\ pc' = [pc EXCEPT ![r] = "idle"]
  /\ read' = [read EXCEPT ![r] = Absent]
  /\ change' = [change EXCEPT ![r] = 0]
  /\ op' = [op EXCEPT ![r] = NoOp]
--------------------------------------------------------------------------------
(***************************************************************************)
(* A request arrives: its body has passed the schema.  A payment is of     *)
(* more than nothing; a rename is an update that names no amount.  There   *)
(* is one invoice here, so it is created once.                             *)
(***************************************************************************)
Begin(r) ==
  /\ pc[r] = "idle"
  /\ begun < MaxRequests
  /\ \E new \in Op :
       /\ new.kind # "none"
       /\ new.kind = "pay" => new.cents > 0
       /\ new.kind = "create" <=> invoice.status = "absent"
       /\ new.kind = "create" => \A s \in Requests : pc[s] = "idle"
       /\ op' = [op EXCEPT ![r] = new]
       /\ Goto(r, IF new.kind = "create" THEN "write" ELSE "load")
  /\ begun' = begun + 1
  /\ UNCHANGED <<row, outbox, read, change, faults, refusals, ghost>>

\* loadInvoice.  A payment to a deleted invoice is not found; an update is.
Load(r) ==
  /\ pc[r] = "load"
  /\ invoice.status # "absent"
  /\ ~(op[r].kind = "pay" /\ invoice.status = "deleted")
  /\ read' = [read EXCEPT ![r] = invoice]
  /\ Goto(r, IF op[r].kind = "pay" THEN "pay" ELSE "write")
  /\ UNCHANGED <<row, outbox, op, change, begun, faults, refusals, ghost>>

\* NotFoundError: the caller gets a 404.
NotFound(r) ==
  /\ pc[r] = "load"
  /\ \/ invoice.status = "absent"
     \/ op[r].kind = "pay" /\ invoice.status = "deleted"
  /\ Answer(r)
  /\ UNCHANGED <<row, outbox, begun, faults, refusals, ghost>>

InsertPayment(r) ==
  /\ pc[r] = "pay"
  /\ paid' = paid + op[r].cents
  /\ Goto(r, "write")
  /\ UNCHANGED <<invoice, changes, outbox, op, read, change, begun, faults,
                 refusals, ghost>>

\* The UPDATE (or INSERT) names the row by id alone.
WriteRow(r) ==
  /\ pc[r] = "write"
  /\ invoice' = Written(r)
  /\ read' = [read EXCEPT ![r] = Written(r)]
  /\ Goto(r, "record")
  /\ raced' = (raced \/ invoice # read[r])
  /\ credited' = IF op[r].kind = "pay" THEN credited + op[r].cents ELSE credited
  /\ unheard' = TRUE
  /\ UNCHANGED <<paid, changes, outbox, op, change, begun, faults, refusals,
                 excused>>

(***************************************************************************)
(* emitChange: append the change row, post the webhook, mark the row       *)
(* delivered.  A payment is announced as version 1 of an entity of its own.*)
(***************************************************************************)
RecordChange(r) ==
  /\ pc[r] = "record"
  /\ changes' = Append(changes,
       [kind |-> IF op[r].kind = "rename" THEN "update" ELSE op[r].kind,
        delivered |-> FALSE,
        version |-> IF op[r].kind = "pay" THEN 1 ELSE read[r].version])
  /\ change' = [change EXCEPT ![r] = Len(changes) + 1]
  /\ Goto(r, "emit")
  /\ UNCHANGED <<invoice, paid, outbox, op, read, begun, faults, refusals, ghost>>

\* enqueueInternalEvent: an event id that is there already inserts nothing.
Enqueue(id) ==
  /\ outbox' = outbox \cup {EventId(id)}
  /\ unheard' = (unheard /\ EventId(id) \in outbox)

\* The bridge verifies, parses and enqueues, and answers 202.
Accepted(r) ==
  /\ pc[r] = "emit"
  /\ Enqueue(change[r])
  /\ Goto(r, "deliver")
  /\ UNCHANGED <<row, op, read, change, begun, faults, refusals, raced, credited,
                 excused>>

\* The bridge answers 401, 400 or 500.  The sink does not look at the status.
Refused(r) ==
  /\ pc[r] = "emit"
  /\ faults + refusals < MaxMishaps
  /\ refusals' = refusals + 1
  /\ excused' = TRUE
  /\ Goto(r, "deliver")
  /\ UNCHANGED <<row, outbox, op, read, change, begun, faults, raced, credited,
                 unheard>>

MarkDelivered(r) ==
  /\ pc[r] = "deliver"
  /\ changes' = [changes EXCEPT ![change[r]].delivered = TRUE]
  /\ Answer(r)
  /\ UNCHANGED <<invoice, paid, outbox, begun, faults, refusals, raced, credited,
                 unheard, excused>>

(***************************************************************************)
(* Failures.  The connection of the webhook may break before or after the  *)
(* bridge has inserted the event: the sink throws either way, and so does  *)
(* a statement that fails.  The caller gets a 500 for what was written.    *)
(***************************************************************************)
\* Wrong: the sink's rejection is swallowed.
FailQuietly(r) ==
  /\ pc[r] # "idle"
  /\ faults + refusals < MaxMishaps
  /\ faults' = faults + 1
  /\ changes' = IF pc[r] = "emit"
                THEN [changes EXCEPT ![change[r]].delivered = TRUE] ELSE changes
  /\ excused' = TRUE
  /\ Answer(r)
  /\ UNCHANGED <<invoice, paid, outbox, begun, refusals, raced, credited, unheard>>

Fail(r) ==
  /\ pc[r] # "idle"
  /\ faults + refusals < MaxMishaps
  /\ faults' = faults + 1
  /\ excused' = TRUE
  /\ Answer(r)
  /\ UNCHANGED <<row, outbox, begun, refusals, raced, credited, unheard>>

\* The process dies: no request gets an answer.
Crash ==
  /\ \E r \in Requests : pc[r] # "idle"
  /\ faults + refusals < MaxMishaps
  /\ faults' = faults + 1
  /\ excused' = TRUE
  /\ pc' = [r \in Requests |-> "idle"]
  /\ read' = [r \in Requests |-> Absent]
  /\ change' = [r \in Requests |-> 0]
  /\ op' = [r \in Requests |-> NoOp]
  /\ UNCHANGED <<row, outbox, begun, refusals, raced, credited, unheard>>

Serve(r) ==
  \/ Load(r) \/ NotFound(r) \/ InsertPayment(r) \/ WriteRow(r) \/ RecordChange(r)
  \/ Accepted(r) \/ Refused(r) \/ MarkDelivered(r)

Next == Crash \/ \E r \in Requests : Begin(r) \/ Serve(r) \/ Fail(r)

Spec == Init /\ [][Next]_vars
--------------------------------------------------------------------------------
(***************************************************************************)
(* Properties.                                                             *)
(***************************************************************************)

\* Types; and a request asks for something while it is in progress, and holds a
\* change of the feed exactly while it announces it.
TypeOK ==
  /\ invoice \in Row /\ paid \in Nat /\ credited \in Nat
  /\ changes \in Seq(Change)
  /\ outbox \subseteq Nat
  /\ pc \in [Requests -> Step] /\ op \in [Requests -> Op]
  /\ read \in [Requests -> Row] /\ change \in [Requests -> Nat]
  /\ \A r \in Requests : IF pc[r] \in {"emit", "deliver"}
                         THEN change[r] \in 1..Len(changes) ELSE change[r] = 0
  /\ \A r \in Requests : /\ op[r].kind = "none" <=> pc[r] = "idle"
                         /\ op[r].kind = "pay" => op[r].cents > 0
  /\ begun \in Nat /\ faults \in Nat /\ refusals \in Nat
  /\ {raced, unheard, excused} \subseteq BOOLEAN

\* A change marked delivered, which its caller is told of only then, has an event
\* at the bridge, unless the bridge itself refused a webhook: every other failure
\* of emitChange leaves the mark unset and reaches the caller.
DeliveredIsEnqueued ==
  refusals = 0 =>
    \A id \in 1..Len(changes) : changes[id].delivered => EventId(id) \in outbox

\* Requests that did not write over each other's rows took no more off an
\* invoice than payments came in for it, over any sequence of edits, payments,
\* deletions and revivals, and left no balance beyond the amount.
NothingPaidFromNowhere ==
  ~raced => /\ invoice.balance <= invoice.amount
            /\ invoice.amount - invoice.balance <= credited

\* Under the same condition the status says what the balance says.
StatusFitsBalance ==
  ~raced =>
    /\ invoice.status = "paid" => invoice.balance = 0
    /\ invoice.status = "open" => invoice.balance = invoice.amount
    /\ invoice.status = "partially_paid" =>
         0 < invoice.balance /\ invoice.balance < invoice.amount

\* What is owed, and what is said of it, follows from the payments.
BalanceAddsUp == NothingPaidFromNowhere /\ StatusFitsBalance

\* The bridge refetches when it handles an event, so what it needs is an event
\* inserted after the last write of the row.  Once no request is in progress
\* there is one, also when requests raced, unless a caller was told of a failure
\* or the bridge refused a webhook.
LastWriteIsHeard ==
  (\A r \in Requests : pc[r] = "idle") /\ ~excused => ~unheard

\* The change feed and the outbox agree: what is marked is there, and the last word is.
AnnouncementsHold == DeliveredIsEnqueued /\ LastWriteIsHeard
================================================================================
