------------------------------ MODULE InvoiceSync ------------------------------
(***************************************************************************)
(* One invoice on both sides of the bridge: the row of the internal ledger *)
(* and the invoices of QuickBooks that carry its id as DocNumber, with     *)
(* everything that reads or writes them: people on either side, the        *)
(* webhooks that tell the bridge, the workers' two handlers (processor.ts, *)
(* reverse.ts), the reconciler, and the operator who resolves a conflict.  *)
(* One database or HTTP call is one step; what a caller has read stays in  *)
(* its own record until it acts on it.                                     *)
(*                                                                         *)
(* The outbox is the one of module Outbox, reduced to what the handlers    *)
(* can tell apart: how many events of a subject wait (the internal invoice *)
(* or a QuickBooks id), since a handler refetches and never reads what the *)
(* event said.                                                             *)
(***************************************************************************)
EXTENDS Integers, FiniteSetsExt, Conflict

CONSTANTS
  Internal,       \* the internal invoice, as the subject of an event
  Docs,           \* QuickBooks invoice ids
  Amounts,        \* amounts people enter; the bridge only compares and copies them
  Zero,           \* the amount of a voided invoice
  Workers,        \* worker loops, one per running API process
  Reconciling,    \* TRUE: the reconciler runs
  Overlap,        \* TRUE: a worker may start between the reconciler's look at the
                  \* outbox and its write of the link
  Exhaustible,    \* TRUE: an interrupted event may be out of attempts
  EditsDeleted,   \* TRUE: people edit an internal invoice after its deletion
  MaxEdits,       \* bound on amounts edited in the internal system
  MaxDeletes,     \* bound on deletions there
  MaxQboEdits,    \* bound on amounts edited in QuickBooks
  MaxVoids,       \* bound on voids there
  MaxEntries,     \* bound on invoices entered there under our DocNumber
  MaxOthers,      \* bound on customer names changed and payments recorded
  MaxTouches,     \* bound on QuickBooks changes of a field that is not synced
  MaxDrops,       \* bound on lost webhooks
  MaxFaults,      \* bound on calls that fail and on crashes
  MaxResolves     \* bound on the operator's resolutions

\* An invoice as it is in the ledger, in QuickBooks, and as a reader of QuickBooks, the
\* comparison and the link know it.
Shown == Amounts \cup {Zero}
InvoiceType == [amount : Shown, name : 0..1, paid : Nat, status : {"open", "deleted"},
                version : Nat]
DocType == [amount : Shown, voided : BOOLEAN, token : Nat, rid : Nat,
            edited : BOOLEAN]
ReadType == [id : Docs, amount : Shown, voided : BOOLEAN, token : Nat]
CanonicalType == [amount : Shown, status : {"open", "deleted"}]
LinkType == [doc : Docs, hash : Shown \X (0..1) \X Nat \X {"open", "deleted"},
             qver : Nat, snapshot : CanonicalType \cup {None},
             status : {"linked", "conflict"}]

ASSUME NamesDiffer == None \notin Docs /\ Internal \notin Docs /\ None # Internal
ASSUME NoneIsNoRecord ==
  None \notin InvoiceType \cup DocType \cup ReadType \cup CanonicalType \cup LinkType
ASSUME ZeroIsNotEntered == Zero \notin Amounts
ASSUME SwitchesAreBoolean ==
  /\ Reconciling \in BOOLEAN /\ Overlap \in BOOLEAN /\ Exhaustible \in BOOLEAN
  /\ EditsDeleted \in BOOLEAN

VARIABLES
  inv,       \* the row of internal_invoices; None before it is created
  docs,      \* [Docs -> the QuickBooks invoice], None when there is none; its
             \* field edited is history: a person wrote the amount it shows
  link,      \* the row of links; None before it is written
  sent,      \* [Subjects -> webhooks on their way]
  queue,     \* [Subjects -> events pending in sync_events]
  dead,      \* subjects with an event in the dead letters
  resynced,  \* ids of the reconciler's events, <<subject, version>>
  job,       \* [Workers -> what the handler has read, and where it stands]
  rec,       \* the same of the reconciler's pass
  op,        \* the same of the operator's request
  used       \* how much of each bound is spent

books  == <<inv, docs>>
outbox == <<sent, queue, dead, resynced>>
vars   == <<books, link, outbox, job, rec, op, used>>

Subjects == Docs \cup {Internal}

Limit ==
  [edit |-> MaxEdits, delete |-> MaxDeletes,
   qboEdit |-> MaxQboEdits, void |-> MaxVoids, entry |-> MaxEntries, other |-> MaxOthers,
   touch |-> MaxTouches,
   drop |-> MaxDrops, fault |-> MaxFaults, resolve |-> MaxResolves]

IdleJob == [pc |-> "idle", subject |-> None, inv |-> None, link |-> None, doc |-> None]
IdleRec == [pc |-> "idle", inv |-> None, link |-> None, found |-> {}]
IdleOp  == [pc |-> "idle", link |-> None, inv |-> None, doc |-> None]

Init ==
  /\ inv = None
  /\ docs = [d \in Docs |-> None]
  /\ link = None
  /\ sent = [s \in Subjects |-> 0]
  /\ queue = [s \in Subjects |-> 0]
  /\ dead = {}
  /\ resynced = {}
  /\ job = [w \in Workers |-> IdleJob]
  /\ rec = IdleRec
  /\ op = IdleOp
  /\ used = [k \in DOMAIN Limit |-> 0]
--------------------------------------------------------------------------------
Spend(k) == used[k] < Limit[k] /\ used' = [used EXCEPT ![k] = @ + 1]

Existing == {d \in Docs : docs[d] # None}

\* What hashInvoice tells apart: also the customer's name and what was paid, which
\* are not synced.
Hash(i) == <<i.amount, i.name, i.paid, i.status>>

\* qbo.read and listByDocNumber: the invoice as QuickBooks shows it now.
Read(d) ==
  [id |-> d, amount |-> docs[d].amount, voided |-> docs[d].voided, token |-> docs[d].token]

Pending(s) == queue[s] > 0 \/ \E w \in Workers : job[w].subject = s

\* Wrong: the snapshot of the first sync is kept for ever.
SyncedLinkOldSnapshot(d, i, token) ==
  [doc |-> d, hash |-> Hash(i), qver |-> token, status |-> "linked",
   snapshot |-> IF link = None THEN CanonicalFromInternal(i) ELSE link.snapshot]

\* upsertLink with all its fields: both sides are on record as in sync.
SyncedLink(d, i, token) ==
  [doc |-> d, hash |-> Hash(i), qver |-> token, snapshot |-> CanonicalFromInternal(i),
   status |-> "linked"]

\* Every change of a side is announced by a webhook of that side.
Announce(s) == sent' = [sent EXCEPT ![s] = @ + 1]

\* The internal service's writes, for people and for the bridge alike.
\* updateInvoice derives the status from the amounts and so ends a deletion.
WithAmount(a) == [inv EXCEPT !.amount = a, !.status = "open", !.version = @ + 1]
Deleted       == [inv EXCEPT !.status = "deleted", !.version = @ + 1]

WriteInternal(new) ==
  /\ inv' = new
  /\ Announce(Internal)
  /\ UNCHANGED docs

\* Wrong: the SyncToken is ignored.
CurrentAlways(doc) == doc # None

\* A write to QuickBooks names the SyncToken it is based on; another one is
\* refused, which the client reports as a permanent error.
Current(doc) == docs[doc.id].token = doc.token

WriteQbo(d, new) ==
  /\ docs' = [docs EXCEPT ![d] = new]
  /\ Announce(d)
  /\ UNCHANGED inv

Pushed(d, a) == [docs[d] EXCEPT !.amount = a, !.token = @ + 1, !.edited = FALSE]
Voided(d)    == [docs[d] EXCEPT !.amount = Zero, !.voided = TRUE, !.token = @ + 1]

\* What the writer takes QuickBooks' answer for.
Answered(doc) == [doc EXCEPT !.token = @ + 1]
--------------------------------------------------------------------------------
(***************************************************************************)
(* People, and the webhooks their changes set off.                         *)
(***************************************************************************)
CreateInvoice(a) ==
  /\ inv = None
  /\ WriteInternal([amount |-> a, name |-> 0, paid |-> 0, status |-> "open", version |-> 1])
  /\ UNCHANGED <<link, queue, dead, resynced, job, rec, op, used>>

Editable == inv # None /\ (EditsDeleted \/ inv.status = "open")

EditInternal(a) ==
  /\ Editable /\ inv.amount # a
  /\ Spend("edit")
  /\ WriteInternal(WithAmount(a))
  /\ UNCHANGED <<link, queue, dead, resynced, job, rec, op>>

RenameCustomer ==
  /\ Editable
  /\ Spend("other")
  /\ WriteInternal([WithAmount(inv.amount) EXCEPT !.name = 1 - @])
  /\ UNCHANGED <<link, queue, dead, resynced, job, rec, op>>

\* A payment moves the invoice's version and balance; what it announces is the
\* payment, which is not this module's subject.
RecordPayment ==
  /\ inv # None /\ inv.status = "open"
  /\ Spend("other")
  /\ inv' = [inv EXCEPT !.paid = @ + 1, !.version = @ + 1]
  /\ UNCHANGED <<docs, link, outbox, job, rec, op>>

DeleteInternal ==
  /\ inv # None
  /\ Spend("delete")
  /\ WriteInternal(Deleted)
  /\ UNCHANGED <<link, queue, dead, resynced, job, rec, op>>

QboEdit(d, a) ==
  /\ d \in Existing /\ ~docs[d].voided /\ docs[d].amount # a
  /\ Spend("qboEdit")
  /\ WriteQbo(d, [Pushed(d, a) EXCEPT !.edited = TRUE])
  /\ UNCHANGED <<link, queue, dead, resynced, job, rec, op>>

\* Somebody enters an invoice in QuickBooks with the DocNumber the bridge uses.
QboEnter(d, a) ==
  /\ d \notin Existing /\ inv # None
  /\ Spend("entry")
  /\ WriteQbo(d, [amount |-> a, voided |-> FALSE, token |-> 0, rid |-> 0, edited |-> TRUE])
  /\ UNCHANGED <<link, queue, dead, resynced, job, rec, op>>

QboVoid(d) ==
  /\ d \in Existing /\ ~docs[d].voided
  /\ Spend("void")
  /\ WriteQbo(d, Voided(d))
  /\ UNCHANGED <<link, queue, dead, resynced, job, rec, op>>

QboTouch(d) ==
  /\ d \in Existing
  /\ Spend("touch")
  /\ WriteQbo(d, [docs[d] EXCEPT !.token = @ + 1])
  /\ UNCHANGED <<link, queue, dead, resynced, job, rec, op>>

Deliver(s) ==
  /\ sent[s] > 0
  /\ sent' = [sent EXCEPT ![s] = @ - 1]
  /\ queue' = [queue EXCEPT ![s] = @ + 1]
  /\ UNCHANGED <<books, link, dead, resynced, job, rec, op, used>>

Lose(s) ==
  /\ sent[s] > 0
  /\ Spend("drop")
  /\ sent' = [sent EXCEPT ![s] = @ - 1]
  /\ UNCHANGED <<books, link, queue, dead, resynced, job, rec, op>>
--------------------------------------------------------------------------------
(***************************************************************************)
(* A worker takes an event and makes the first read of its handler: the    *)
(* internal invoice going forward, the QuickBooks one in reverse.          *)
(***************************************************************************)
At(w, pc) == job[w].pc = pc
Goto(w, pc) == job' = [job EXCEPT ![w].pc = pc]

Undisturbed == Overlap \/ rec.pc \notin {"list", "filter", "match"}

TakeForward(w) ==
  /\ At(w, "idle") /\ queue[Internal] > 0 /\ Undisturbed
  /\ queue' = [queue EXCEPT ![Internal] = @ - 1]
  /\ job' = [job EXCEPT ![w] = [IdleJob EXCEPT !.pc = "link", !.subject = Internal,
                                               !.inv = inv]]
  /\ UNCHANGED <<books, link, sent, dead, resynced, rec, op, used>>

TakeReverse(w, d) ==
  /\ At(w, "idle") /\ queue[d] > 0 /\ Undisturbed
  /\ queue' = [queue EXCEPT ![d] = @ - 1]
  /\ job' = [job EXCEPT ![w] = [IdleJob EXCEPT !.pc = "linkByQbo", !.subject = d,
                                               !.doc = Read(d)]]
  /\ UNCHANGED <<books, link, sent, dead, resynced, rec, op, used>>

\* Wrong: the next event starts with what this one read.
FinishKeepsReads(w) ==
  /\ At(w, "finish")
  /\ Goto(w, "idle")
  /\ UNCHANGED <<books, link, outbox, rec, op, used>>

\* The event is marked done, whatever the handler decided.
Finish(w) ==
  /\ At(w, "finish")
  /\ job' = [job EXCEPT ![w] = IdleJob]
  /\ UNCHANGED <<books, link, outbox, rec, op, used>>

\* A permanent error: the event is dead, at once.
Die(w) ==
  /\ dead' = dead \cup {job[w].subject}
  /\ job' = [job EXCEPT ![w] = IdleJob]
  /\ UNCHANGED <<books, link, sent, queue, resynced>>

\* A call fails or the process dies.  The event is tried again after a backoff
\* or when its lease is over, if it has attempts left.
Interrupt(w) ==
  /\ ~At(w, "idle")
  /\ Spend("fault")
  /\ job' = [job EXCEPT ![w] = IdleJob]
  /\ \/ queue' = [queue EXCEPT ![job[w].subject] = @ + 1] /\ UNCHANGED dead
     \/ Exhaustible /\ dead' = dead \cup {job[w].subject} /\ UNCHANGED queue
  /\ UNCHANGED <<books, link, sent, resynced, rec, op>>

(***************************************************************************)
(* processInternalToQbo.                                                   *)
(***************************************************************************)
\* Wrong: a delete is looked at before the echo gate.
AfterLinkDeleteFirst(i) ==
  CASE i.status = "deleted" /\ link # None -> "readToVoid"
    [] OTHER -> IF link = None
                THEN IF i.status = "deleted" THEN "finish" ELSE "find"
                ELSE IF link.status = "linked" /\ link.hash = Hash(i) THEN "finish" ELSE "read"

\* Wrong: a held conflict holds a delete back too.
AfterLinkHoldsDelete(i) ==
  CASE link # None /\ link.status = "linked" /\ link.hash = Hash(i) -> "finish"
    [] OTHER -> IF i.status = "deleted"
                THEN IF link = None \/ link.status = "conflict" THEN "finish" ELSE "readToVoid"
                ELSE IF link = None THEN "find" ELSE "read"

\* Echo gate, terminal delete, no mapping yet, and the comparison, in this order.
AfterLink(i) ==
  CASE link # None /\ link.status = "linked" /\ link.hash = Hash(i) -> "finish"
    [] OTHER -> IF i.status = "deleted"
                THEN IF link = None THEN "finish" ELSE "readToVoid"
                ELSE IF link = None THEN "find" ELSE "read"

ForwardLink(w) ==
  /\ At(w, "link")
  /\ job' = [job EXCEPT ![w].link = link, ![w].pc = AfterLink(job[w].inv)]
  /\ UNCHANGED <<books, link, outbox, rec, op, used>>

\* Wrong: a link in conflict is treated as any other.
DecideUnheld(source, lnk, i, doc) ==
  LET outcome == Analyze(lnk.snapshot, CanonicalFromInternal(i), CanonicalFromQbo(doc))
  IN  CASE ActionFor(source, outcome) = "apply"     -> "apply"
        [] ActionFor(source, outcome) = "conflict"  -> "mark"
        [] ActionFor(source, outcome) = "converged" -> "save"
        [] ActionFor(source, outcome) = "skip"      -> "saveSkip"

\* A held conflict is let go only when both sides agree.
Decide(source, lnk, i, doc) ==
  LET outcome == Analyze(lnk.snapshot, CanonicalFromInternal(i), CanonicalFromQbo(doc))
  IN  IF lnk.status = "conflict"
      THEN IF outcome \in {"converged", "neither"} THEN "save" ELSE "finish"
      ELSE CASE ActionFor(source, outcome) = "apply"     -> "apply"
             [] ActionFor(source, outcome) = "conflict"  -> "mark"
             [] ActionFor(source, outcome) = "converged" -> "save"
             [] ActionFor(source, outcome) = "skip"      -> "saveSkip"

ForwardRead(w) ==
  /\ At(w, "read")
  /\ LET doc == Read(job[w].link.doc)
         go  == Decide("internal", job[w].link, job[w].inv, doc)
     IN  job' = [job EXCEPT ![w].doc = doc, ![w].pc = IF go = "apply" THEN "push" ELSE go]
  /\ UNCHANGED <<books, link, outbox, rec, op, used>>

\* Wrong: a retry creates without looking for what an earlier try left.
ForwardFindNothing(w) ==
  /\ At(w, "find")
  /\ Goto(w, "create")
  /\ UNCHANGED <<books, link, outbox, rec, op, used>>

\* findByDocNumber answers with the first match, if any.
ForwardFind(w) ==
  /\ At(w, "find")
  /\ \/ \E d \in Existing :
          job' = [job EXCEPT ![w].doc = Read(d), ![w].pc = "push"]
     \/ Existing = {} /\ Goto(w, "create")
  /\ UNCHANGED <<books, link, outbox, rec, op, used>>

ForwardPush(w) ==
  LET doc == job[w].doc IN
  /\ At(w, "push")
  /\ \/ /\ Current(doc)
        /\ WriteQbo(doc.id, Pushed(doc.id, job[w].inv.amount))
        /\ job' = [job EXCEPT ![w].doc = Answered(doc), ![w].pc = "save"]
        /\ UNCHANGED <<link, queue, dead, resynced>>
     \/ ~Current(doc) /\ Die(w)
  /\ UNCHANGED <<rec, op, used>>

\* The Request-Id names the invoice and its version: QuickBooks answers a create
\* it has served with the invoice it made then.
ServedBefore(v) == {d \in Existing : docs[d].rid = v}

ForwardCreate(w) ==
  LET i == job[w].inv IN
  /\ At(w, "create")
  /\ \/ \E d \in ServedBefore(i.version) :
          /\ job' = [job EXCEPT ![w].doc = [Read(d) EXCEPT !.token = 0], ![w].pc = "save"]
          /\ UNCHANGED <<books, sent>>
     \/ \E d \in Docs \ Existing :
          /\ ServedBefore(i.version) = {}
          /\ WriteQbo(d, [amount |-> i.amount, voided |-> FALSE, token |-> 0,
                          rid |-> i.version, edited |-> FALSE])
          /\ job' = [job EXCEPT ![w].pc = "save",
                       ![w].doc = [id |-> d, amount |-> i.amount, voided |-> FALSE,
                                   token |-> 0]]
  /\ UNCHANGED <<link, queue, dead, resynced, rec, op, used>>

ReadToVoid(w) ==
  /\ At(w, "readToVoid")
  /\ job' = [job EXCEPT ![w].doc = Read(job[w].link.doc), ![w].pc = "void"]
  /\ UNCHANGED <<books, link, outbox, rec, op, used>>

ForwardVoid(w) ==
  LET doc == job[w].doc IN
  /\ At(w, "void")
  /\ \/ /\ Current(doc)
        /\ WriteQbo(doc.id, Voided(doc.id))
        /\ job' = [job EXCEPT ![w].doc = Answered(doc), ![w].pc = "save"]
        /\ UNCHANGED <<link, queue, dead, resynced>>
     \/ ~Current(doc) /\ Die(w)
  /\ UNCHANGED <<rec, op, used>>

(***************************************************************************)
(* processQboToInternal.                                                   *)
(***************************************************************************)
\* No link of ours, then the version gate, then the terminal void.
AfterLinkByQbo(doc) ==
  CASE link = None \/ link.doc # doc.id -> "finish"
    [] OTHER -> IF doc.token <= link.qver THEN "finish"
                ELSE IF doc.voided THEN "remove" ELSE "refetch"

ReverseLink(w) ==
  /\ At(w, "linkByQbo")
  /\ job' = [job EXCEPT ![w].link = link, ![w].pc = AfterLinkByQbo(job[w].doc)]
  /\ UNCHANGED <<books, link, outbox, rec, op, used>>

ReverseRefetch(w) ==
  /\ At(w, "refetch")
  /\ job' = [job EXCEPT ![w].inv = inv,
               ![w].pc = Decide("quickbooks", job[w].link, inv, job[w].doc)]
  /\ UNCHANGED <<books, link, outbox, rec, op, used>>

ReverseWrite(w, pc, new) ==
  /\ At(w, pc)
  /\ WriteInternal(new)
  /\ job' = [job EXCEPT ![w].inv = new, ![w].pc = "save"]
  /\ UNCHANGED <<link, queue, dead, resynced, rec, op, used>>

ReverseApply(w)  == ReverseWrite(w, "apply", WithAmount(job[w].doc.amount))
ReverseRemove(w) == ReverseWrite(w, "remove", Deleted)

(***************************************************************************)
(* The link writes both handlers end with.                                 *)
(***************************************************************************)
WriteLink(w, pc, new) ==
  /\ At(w, pc)
  /\ link' = new
  /\ Goto(w, "finish")
  /\ UNCHANGED <<books, outbox, rec, op, used>>

\* Wrong: the link records the invoice as it is now, not as it was read.
SaveOfNow(w) ==
  WriteLink(w, "save", SyncedLink(job[w].doc.id, inv, job[w].doc.token))

Save(w) ==
  WriteLink(w, "save", SyncedLink(job[w].doc.id, job[w].inv, job[w].doc.token))

\* A skip keeps the snapshot and takes the hash over; the reverse handler takes
\* the QuickBooks version over too.
SaveSkip(w) ==
  WriteLink(w, "saveSkip",
    [link EXCEPT !.doc = job[w].doc.id, !.hash = Hash(job[w].inv), !.status = "linked",
                 !.qver = IF job[w].subject = Internal THEN @ ELSE job[w].doc.token])

Mark(w) == WriteLink(w, "mark", [link EXCEPT !.status = "conflict"])
--------------------------------------------------------------------------------
(***************************************************************************)
(* The reconciler: one pass over this invoice, first as one that may have  *)
(* no link (reconcileUnlinked), then as a linked one (reconcileDrift).     *)
(***************************************************************************)
\* Wrong: the id of a reconciler's event does not carry a version.
ResyncOnce(s, version) ==
  /\ resynced' = resynced \cup {<<s, 0>>}
  /\ queue' = IF <<s, 0>> \in resynced \/ version = 0 THEN queue ELSE [queue EXCEPT ![s] = @ + 1]
  /\ UNCHANGED <<sent, dead>>

\* The reconciler's event ids carry the version it saw; an id enqueued before is
\* not enqueued again.
Resync(s, version) ==
  /\ resynced' = resynced \cup {<<s, version>>}
  /\ queue' = IF <<s, version>> \in resynced THEN queue ELSE [queue EXCEPT ![s] = @ + 1]
  /\ UNCHANGED <<sent, dead>>

RecGoto(pc) == rec' = [rec EXCEPT !.pc = pc]

RecStart ==
  /\ Reconciling /\ rec.pc = "idle" /\ inv # None
  /\ rec' = [IdleRec EXCEPT !.inv = inv,
                            !.pc = IF inv.status = "deleted" THEN "links" ELSE "hasLink"]
  /\ UNCHANGED <<books, link, outbox, job, op, used>>

RecHasLink ==
  /\ rec.pc = "hasLink"
  /\ RecGoto(IF link = None THEN "pending" ELSE "links")
  /\ UNCHANGED <<books, link, outbox, job, op, used>>

RecPending ==
  /\ rec.pc = "pending"
  /\ RecGoto(IF Pending(Internal) THEN "links" ELSE "list")
  /\ UNCHANGED <<books, link, outbox, job, op, used>>

RecList ==
  /\ rec.pc = "list"
  /\ rec' = [rec EXCEPT !.found = {Read(d) : d \in Existing}, !.pc = "filter"]
  /\ UNCHANGED <<books, link, outbox, job, op, used>>

\* Candidates are the matches no link has.
RecFilter ==
  /\ rec.pc = "filter"
  /\ rec' = [rec EXCEPT !.found = {m \in @ : link = None \/ link.doc # m.id},
                        !.pc = "match"]
  /\ UNCHANGED <<books, link, outbox, job, op, used>>

\* Wrong: an only candidate is linked whatever its amount.
RecMatchBlindly ==
  /\ rec.pc = "match"
  /\ RecGoto("links")
  /\ \/ rec.found = {} /\ Resync(Internal, rec.inv.version) /\ UNCHANGED link
     \/ \E m \in rec.found :
          /\ rec.found = {m}
          /\ link' = SyncedLink(m.id, rec.inv, m.token)
          /\ UNCHANGED outbox
     \/ Cardinality(rec.found) > 1 /\ UNCHANGED <<link, outbox>>
  /\ UNCHANGED <<books, job, op, used>>

\* No candidate: the create was missed.  One: link it, in conflict when the amounts
\* differ.  More than one: nothing but an audit row.
RecMatch ==
  /\ rec.pc = "match"
  /\ RecGoto("links")
  /\ \/ rec.found = {} /\ Resync(Internal, rec.inv.version) /\ UNCHANGED link
     \/ \E m \in rec.found :
          /\ rec.found = {m}
          /\ link' = LET new == SyncedLink(m.id, rec.inv, m.token)
                     IN  IF m.amount = rec.inv.amount THEN new
                         ELSE [new EXCEPT !.status = "conflict",
                                 !.snapshot = IF link = None THEN None ELSE link.snapshot]
          /\ UNCHANGED outbox
     \/ Cardinality(rec.found) > 1 /\ UNCHANGED <<link, outbox>>
  /\ UNCHANGED <<books, job, op, used>>

RecLinks ==
  /\ rec.pc = "links"
  /\ rec' = IF link # None /\ link.status = "linked"
            THEN [IdleRec EXCEPT !.link = link, !.pc = "drift"] ELSE IdleRec
  /\ UNCHANGED <<books, link, outbox, job, op, used>>

RecDrift ==
  /\ rec.pc = "drift"
  /\ IF Pending(Internal) \/ Pending(rec.link.doc) THEN rec' = IdleRec ELSE RecGoto("read")
  /\ UNCHANGED <<books, link, outbox, job, op, used>>

RecRead ==
  LET d == rec.link.doc IN
  /\ rec.pc = "read"
  /\ RecGoto("refetch")
  /\ IF docs[d].token > rec.link.qver THEN Resync(d, docs[d].token) ELSE UNCHANGED outbox
  /\ UNCHANGED <<books, link, job, op, used>>

RecRefetch ==
  /\ rec.pc = "refetch"
  /\ rec' = IdleRec
  /\ IF Hash(inv) # rec.link.hash THEN Resync(Internal, inv.version) ELSE UNCHANGED outbox
  /\ UNCHANGED <<books, link, job, op, used>>

\* An error anywhere ends the pass.
RecFails ==
  /\ rec.pc # "idle"
  /\ Spend("fault")
  /\ rec' = IdleRec
  /\ UNCHANGED <<books, link, outbox, job, op>>
--------------------------------------------------------------------------------
(***************************************************************************)
(* resolveConflict.                                                        *)
(***************************************************************************)
ResolveStart ==
  /\ op.pc = "idle" /\ link # None /\ link.status = "conflict"
  /\ Spend("resolve")
  /\ op' = [op EXCEPT !.link = link, !.pc = "refetch"]
  /\ UNCHANGED <<books, link, outbox, job, rec>>

ResolveRefetch ==
  /\ op.pc = "refetch"
  /\ op' = [op EXCEPT !.inv = inv, !.pc = "read"]
  /\ UNCHANGED <<books, link, outbox, job, rec, used>>

ResolveRead ==
  /\ op.pc = "read"
  /\ op' = [op EXCEPT !.doc = Read(op.link.doc), !.pc = "apply"]
  /\ UNCHANGED <<books, link, outbox, job, rec, used>>

InternalWins ==
  /\ op.pc = "apply"
  /\ \/ /\ Current(op.doc)
        /\ WriteQbo(op.doc.id, Pushed(op.doc.id, op.inv.amount))
        /\ op' = [op EXCEPT !.doc = Answered(op.doc), !.pc = "save"]
     \/ ~Current(op.doc) /\ op' = IdleOp /\ UNCHANGED <<books, sent>>
  /\ UNCHANGED <<link, queue, dead, resynced, job, rec, used>>

QuickbooksWins ==
  /\ op.pc = "apply"
  /\ WriteInternal(WithAmount(op.doc.amount))
  /\ op' = [op EXCEPT !.inv = WithAmount(op.doc.amount), !.pc = "save"]
  /\ UNCHANGED <<link, queue, dead, resynced, job, rec, used>>

ResolveSave ==
  /\ op.pc = "save"
  /\ link' = SyncedLink(op.link.doc, op.inv, op.doc.token)
  /\ op' = IdleOp
  /\ UNCHANGED <<books, outbox, job, rec, used>>

ResolveFails ==
  /\ op.pc # "idle"
  /\ Spend("fault")
  /\ op' = IdleOp
  /\ UNCHANGED <<books, link, outbox, job, rec>>
--------------------------------------------------------------------------------
People ==
  \/ \E a \in Amounts : CreateInvoice(a) \/ EditInternal(a)
  \/ RenameCustomer \/ RecordPayment \/ DeleteInternal
  \/ \E d \in Docs : QboVoid(d) \/ QboTouch(d)
        \/ \E a \in Amounts : QboEdit(d, a) \/ QboEnter(d, a)

Forward(w) ==
  \/ TakeForward(w) \/ ForwardLink(w) \/ ForwardRead(w) \/ ForwardFind(w)
  \/ ForwardPush(w) \/ ForwardCreate(w) \/ ReadToVoid(w) \/ ForwardVoid(w)

Reverse(w) ==
  \/ \E d \in Docs : TakeReverse(w, d)
  \/ ReverseLink(w) \/ ReverseRefetch(w) \/ ReverseApply(w) \/ ReverseRemove(w)

Worker(w) == Forward(w) \/ Reverse(w) \/ Save(w) \/ SaveSkip(w) \/ Mark(w) \/ Finish(w)

Reconciler ==
  \/ RecStart \/ RecHasLink \/ RecPending \/ RecList \/ RecFilter \/ RecMatch
  \/ RecLinks \/ RecDrift \/ RecRead \/ RecRefetch

Resolve ==
  \/ ResolveRefetch \/ ResolveRead \/ InternalWins \/ QuickbooksWins \/ ResolveSave

Next ==
  \/ People
  \/ \E s \in Subjects : Deliver(s) \/ Lose(s)
  \/ \E w \in Workers : Worker(w) \/ Interrupt(w)
  \/ Reconciler \/ RecFails
  \/ ResolveStart \/ Resolve \/ ResolveFails

Spec == Init /\ [][Next]_vars

\* The loops of the worker and of the reconciler run for ever, a webhook that is
\* not lost arrives, and a request that was begun is answered.
Fairness ==
  /\ \A s \in Subjects : WF_vars(Deliver(s))
  /\ \A w \in Workers : WF_vars(Worker(w))
  /\ WF_vars(Reconciler)
  /\ WF_vars(Resolve)

FairSpec == Spec /\ Fairness
--------------------------------------------------------------------------------
\* Every record is of its type, and a caller holds what its next step reads.
TypeOK ==
  /\ inv \in InvoiceType \cup {None}
  /\ \A d \in Docs : docs[d] \in DocType \cup {None}
  /\ link # None => link \in LinkType /\ link.doc \in Existing
  /\ sent \in [Subjects -> Nat] /\ queue \in [Subjects -> Nat]
  /\ dead \subseteq Subjects /\ resynced \subseteq Subjects \X Nat
  /\ \A w \in Workers :
       /\ At(w, "idle") <=> job[w] = IdleJob
       /\ job[w].subject \in Subjects \cup {None}
       /\ job[w].inv \in InvoiceType \cup {None}
       /\ job[w].doc \in ReadType \cup {None}
       /\ job[w].pc \in {"push", "void", "remove", "apply", "save", "saveSkip"} =>
            job[w].doc # None
  /\ op.inv \in InvoiceType \cup {None} /\ op.doc \in ReadType \cup {None}
  /\ rec.inv \in InvoiceType \cup {None}
  /\ used \in [DOMAIN Limit -> Nat]

\* The bridge creates the invoice in QuickBooks once, whatever is interrupted,
\* retried, edited or reconciled between the create and the write of the link
\* (check-before-create, processor.ts:172-186).
Created == {d \in Existing : docs[d].rid # 0}
NoDuplicateInvoice == Cardinality(Created) <= 1

InStep ==
  \/ inv.status = "deleted" /\ docs[link.doc].voided
  \/ /\ inv.status = "open" /\ ~docs[link.doc].voided
     /\ inv.amount = docs[link.doc].amount

Quiet ==
  /\ \A s \in Subjects : sent[s] = 0 /\ queue[s] = 0
  /\ \A w \in Workers : At(w, "idle")
  /\ op.pc = "idle"

\* The link says that the internal invoice was handled as it is now, and that the sides
\* were last brought in step at another state of it.  Only a skip of the reverse handler
\* writes this: it takes over the hash of a change that has not reached QuickBooks, and
\* the event of that change is then taken for an echo (reverse.ts:97-103).
Skipped == link # None /\ link.hash = Hash(inv) /\ link.snapshot # CanonicalFromInternal(inv)

\* With nothing under way, two linked sides that differ are held as a conflict, or a pass
\* of the reconciler sees that they do: the version and the hash in the link do not say
\* "in sync" of a change that did not reach the other side (reconcile.ts:128-130,
\* 145-153; processor.ts:99-102).  The exception is the change a skip took over: it is
\* lost from sight, and run sync_delete shows it.
DivergenceIsVisible ==
  Quiet /\ dead = {} /\ link # None /\ link.status = "linked" /\ ~InStep =>
    docs[link.doc].token > link.qver \/ Hash(inv) # link.hash \/ Skipped

\* A worker overwrites an amount a person entered in QuickBooks only if the bridge
\* has taken it over before, also when the edit comes between the handler's read
\* and its write (conflict.ts:60-64, processor.ts:167-171).
PushedOver(d) ==
  /\ docs[d] # None /\ docs[d].edited /\ ~docs[d].voided
  /\ docs'[d].amount # docs[d].amount
  /\ \E w \in Workers : At(w, "push") /\ job'[w].pc = "save"
PushKeepsQboEdits ==
  [][\A d \in Docs : PushedOver(d) =>
       link # None /\ CanonicalFromQbo(docs[d]) = link.snapshot]_vars

\* A worker overwrites an internal amount only if QuickBooks has had it, also when
\* the edit comes between the handler's read and its write (reverse.ts:71-111).
PulledOver ==
  /\ inv # None /\ inv'.amount # inv.amount
  /\ \E w \in Workers : At(w, "apply") /\ job'[w].pc = "save"
PullKeepsInternalEdits ==
  [][PulledOver => link # None /\ CanonicalFromInternal(inv) = link.snapshot]_vars

\* The reconciler has written the link since the handler read it: it may when a worker
\* starts between the reconciler's reads and its write, or when the invoice it found is
\* one that somebody entered (reconcile.ts:88-117).
RelinkedMeanwhile(w) ==
  Reconciling /\ (Overlap \/ used["entry"] > 0) /\ job[w].link # link

\* While a link is in conflict no worker writes an amount on either side, whatever is
\* edited meanwhile and whoever found the conflict, a handler or the reconciler
\* (processor.ts:126-138, reverse.ts:80-90).  The exception is a handler under way when
\* the reconciler wrote the link: it goes by the link it has read.
HeldConflictIsHeld ==
  [][link # None /\ link.status = "conflict" =>
       \A w \in Workers :
         (At(w, "push") \/ At(w, "apply")) /\ job'[w].pc = "save" => RelinkedMeanwhile(w)]_vars

\* A link is in conflict only after people changed both sides: what the bridge wrote
\* itself never looks like a second change (conflict.ts:60-63).
ConflictsAreReal ==
  link # None /\ link.status = "conflict" =>
    used["edit"] + used["delete"] > 0 /\ used["qboEdit"] + used["void"] > 0

Writes == inv.version + MapThenSumSet(LAMBDA d : docs[d].token + 1, Existing)
PeoplesWrites ==
  1 + used["edit"] + used["delete"] + used["qboEdit"] + used["void"] + used["entry"]
    + used["other"] + used["touch"]

\* The bridge answers a change with one write at most: its own writes, announced
\* back to it, set off no others.  What was interrupted or resolved may be written
\* once more (the echo gates, processor.ts:97-102, reverse.ts:53-60).
EchoesDieOut ==
  inv # None => Writes <= 2 * PeoplesWrites + used["fault"] + used["resolve"]

\* With nothing under way and no dead letter, a deleted invoice is not open in QuickBooks:
\* a delete is terminal and wins (DESIGN.md:29; processor.ts:104-116).  It can be, and
\* run sync_delete shows how.
DeletedIsVoided ==
  Quiet /\ dead = {} /\ inv # None /\ inv.status = "deleted" =>
    \A d \in Existing : docs[d].voided

\* The link write of the create was interrupted, and the deletion came before the retry:
\* the handler sees no link and has nothing to void (processor.ts:104-108), or the
\* reconciler has linked the invoice as it was before and its drift pass sees the rest.
LinkWasLost ==
  /\ used["fault"] > 0
  /\ link = None \/ (Reconciling /\ link.hash # Hash(inv))

\* When no webhook was lost, the two ways named above are the only ones in which a deleted
\* invoice is open in QuickBooks with nothing under way and no dead letter, whatever
\* fails, crashes or is retried between the deletion and the void.
DeletionsArrive ==
  Quiet /\ dead = {} /\ used["drop"] = 0 /\ inv # None /\ inv.status = "deleted" =>
    (\A d \in Existing : docs[d].voided) \/ Skipped \/ LinkWasLost

Accounted ==
  \/ inv = None
  \/ link = None /\ inv.status = "deleted" /\ (Existing = {} \/ LinkWasLost)
  \/ link # None /\ (InStep \/ link.status = "conflict" \/ Skipped)
  \/ dead # {}

\* In the end the sides agree, or a person is asked: by a conflict, or by a dead
\* letter.  Webhooks may be lost, and the invoice may never have been created in
\* QuickBooks (reconcile.ts:158-173).  Not so for what the bridge no longer sees: a change
\* a skip took over, and an invoice whose link was lost before a deletion.
Converges == <>[]Accounted
================================================================================
