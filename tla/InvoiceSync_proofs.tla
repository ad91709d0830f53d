--------------------------- MODULE InvoiceSync_proofs ---------------------------
(***************************************************************************)
(* Proofs about InvoiceSync for any workers, QuickBooks ids and amounts,   *)
(* and any number of edits, lost webhooks, failures and resolutions.       *)
(***************************************************************************)
EXTENDS InvoiceSync, Conflict_proofs, FiniteSetTheorems, TLAPS

Pcs == {"idle", "link", "find", "create", "read", "readToVoid", "push", "void", "linkByQbo",
        "refetch", "apply", "remove", "save", "saveSkip", "mark", "finish"}

\* Where a handler stands that reads its copy of the invoice, of the link, of the
\* QuickBooks invoice; and where the link exists.
InvPc    == {"link", "find", "create", "read", "readToVoid", "push", "void", "save", "saveSkip"}
LinkPc   == {"read", "readToVoid", "refetch"}
DocPc    == {"push", "void", "linkByQbo", "refetch", "apply", "remove", "save", "saveSkip"}
LinkedPc == LinkPc \cup {"void", "apply", "remove", "saveSkip", "mark"}

\* What there is to announce.
Known == Existing \cup {s \in {Internal} : inv # None}

StoresFit ==
  /\ inv \in InvoiceType \cup {None}
  /\ docs \in [Docs -> DocType \cup {None}]
  /\ link \in LinkType \cup {None}
  /\ sent \in [Subjects -> Nat] /\ queue \in [Subjects -> Nat]
  /\ dead \subseteq Subjects /\ resynced \subseteq Subjects \X Nat
  /\ used \in [DOMAIN Limit -> Nat]

\* A link joins two invoices that are there, and what is announced is there.
StoresAgree ==
  /\ link # None => inv # None /\ link.doc \in Existing
  /\ \A s \in Subjects : sent[s] > 0 \/ queue[s] > 0 => s \in Known

\* What a handler has read fits where it stands.
JobFits(j) ==
  /\ j \in [pc : Pcs, subject : Subjects \cup {None}, inv : InvoiceType \cup {None},
            link : LinkType \cup {None}, doc : ReadType \cup {None}]
  /\ j.pc = "idle" => j = IdleJob
  /\ j.pc # "idle" => j.subject \in Known
  /\ j.pc \in InvPc => j.inv # None /\ inv # None
  /\ j.pc \in LinkPc => j.link # None /\ j.link.doc \in Existing
  /\ j.pc \in DocPc => j.doc # None /\ j.doc.id \in Existing
  /\ j.pc \in LinkedPc => link # None

JobsFit ==
  /\ DOMAIN job = Workers /\ job = [w \in Workers |-> job[w]]
  /\ \A w \in Workers : JobFits(job[w])

UnlinkedPc == {"hasLink", "pending", "list", "filter", "match"}
DriftPc    == {"drift", "read", "refetch"}

RecFits ==
  /\ rec \in [pc : UnlinkedPc \cup DriftPc \cup {"idle", "links"},
              inv : InvoiceType \cup {None}, link : LinkType \cup {None},
              found : SUBSET ReadType]
  /\ rec.pc # "idle" => inv # None
  /\ rec.pc \in UnlinkedPc => rec.inv # None
  /\ \A m \in rec.found : m.id \in Existing
  /\ rec.pc \in DriftPc => rec.link # None /\ rec.link.doc \in Existing

OpFits ==
  /\ op \in [pc : {"idle", "refetch", "read", "apply", "save"}, link : LinkType \cup {None},
             inv : InvoiceType \cup {None}, doc : ReadType \cup {None}]
  /\ op.pc # "idle" => inv # None /\ op.link # None /\ op.link.doc \in Existing
  /\ op.pc \in {"read", "apply", "save"} => op.inv # None
  /\ op.pc \in {"apply", "save"} => op.doc # None /\ op.doc.id \in Existing

TypeInv == StoresFit /\ StoresAgree /\ JobsFit /\ RecFits /\ OpFits

\* Nothing a caller knows of goes away.
Grows ==
  /\ Existing \subseteq Existing'
  /\ inv # None => inv' # None
  /\ link # None => link' # None

LEMMA TypeInvInit == Init => TypeInv
<1> SUFFICES ASSUME Init PROVE TypeInv
  OBVIOUS
<1>1. StoresFit /\ StoresAgree
  BY DEF Init, StoresFit, StoresAgree, Limit
<1>2. JobFits(IdleJob)
  BY DEF JobFits, IdleJob, Pcs, InvPc, LinkPc, DocPc, LinkedPc
<1>3. JobsFit
  BY <1>2 DEF Init, JobsFit
<1>4. RecFits /\ OpFits
  BY DEF Init, RecFits, OpFits, IdleRec, IdleOp, UnlinkedPc, DriftPc
<1> QED BY <1>1, <1>3, <1>4 DEF TypeInv

LEMMA TypeInvFits == TypeInv => TypeOK
<1> SUFFICES ASSUME TypeInv PROVE TypeOK
  OBVIOUS
<1>1. ASSUME NEW w \in Workers
      PROVE  /\ At(w, "idle") <=> job[w] = IdleJob
             /\ job[w].subject \in Subjects \cup {None}
             /\ job[w].inv \in InvoiceType \cup {None}
             /\ job[w].doc \in ReadType \cup {None}
             /\ job[w].pc \in {"push", "void", "remove", "apply", "save", "saveSkip"} =>
                  job[w].doc # None
  BY DEF TypeInv, JobsFit, JobFits, IdleJob, At, DocPc
<1> QED BY <1>1 DEF TypeInv, StoresFit, StoresAgree, RecFits, OpFits, TypeOK
--------------------------------------------------------------------------------
(***************************************************************************)
(* The records that are written are records of their type.                 *)
(***************************************************************************)
LEMMA Spent == ASSUME StoresFit, NEW k \in DOMAIN Limit, Spend(k)
               PROVE  used' \in [DOMAIN Limit -> Nat]
  BY DEF StoresFit, Spend

LEMMA Bounds ==
  {"edit", "delete", "qboEdit", "void", "entry", "other", "touch", "drop", "fault", "resolve"}
    \subseteq DOMAIN Limit
  BY DEF Limit

LEMMA ReadFits == ASSUME StoresFit, NEW d \in Existing
                  PROVE  /\ Read(d) \in ReadType /\ Read(d).id = d
                         /\ docs[d] \in DocType /\ Read(d) # None
  BY NoneIsNoRecord DEF StoresFit, Existing, Read, ReadType, DocType

LEMMA PushedFits == ASSUME StoresFit, NEW d \in Existing, NEW a \in Shown
                    PROVE  Pushed(d, a) \in DocType
<1>1. docs[d] \in DocType BY DEF StoresFit, Existing
<1>2. docs[d].token + 1 \in Nat BY <1>1 DEF DocType
<1> QED BY <1>1, <1>2 DEF Pushed, DocType

LEMMA VoidedFits == ASSUME StoresFit, NEW d \in Existing PROVE Voided(d) \in DocType
<1>1. docs[d] \in DocType BY DEF StoresFit, Existing
<1>2. docs[d].token + 1 \in Nat BY <1>1 DEF DocType
<1> QED BY <1>1, <1>2 DEF Voided, DocType, Shown

LEMMA AnsweredFits == ASSUME NEW doc \in ReadType
                      PROVE  /\ Answered(doc) \in ReadType /\ Answered(doc).id = doc.id
                             /\ Answered(doc) # None
  BY NoneIsNoRecord DEF Answered, ReadType

LEMMA WrittenFits == ASSUME StoresFit, inv # None, NEW a \in Shown
                     PROVE  WithAmount(a) \in InvoiceType /\ Deleted \in InvoiceType
<1>1. inv \in InvoiceType BY DEF StoresFit
<1>2. inv.version + 1 \in Nat BY <1>1 DEF InvoiceType
<1> QED BY <1>1, <1>2 DEF WithAmount, Deleted, InvoiceType

LEMMA HashFits == ASSUME NEW i \in InvoiceType
                  PROVE  Hash(i) \in Shown \X (0..1) \X Nat \X {"open", "deleted"}
  BY DEF Hash, InvoiceType

LEMMA SyncedFits == ASSUME NEW d \in Docs, NEW i \in InvoiceType, NEW token \in Nat
                    PROVE  /\ SyncedLink(d, i, token) \in LinkType
                           /\ SyncedLink(d, i, token).doc = d
<1>1. CanonicalFromInternal(i) \in CanonicalType
  BY DEF CanonicalFromInternal, CanonicalType, InvoiceType
<1> QED BY <1>1, HashFits DEF SyncedLink, LinkType
--------------------------------------------------------------------------------
(***************************************************************************)
(* What a write of either side leaves well typed.                          *)
(***************************************************************************)
LEMMA QboWritten ==
  ASSUME StoresFit, StoresAgree, NEW d \in Docs, NEW new \in DocType, WriteQbo(d, new),
         UNCHANGED <<link, queue, dead, resynced>>, used' \in [DOMAIN Limit -> Nat]
  PROVE  StoresFit' /\ StoresAgree' /\ Grows /\ Existing' = Existing \cup {d}
<1>1. new # None
  BY NoneIsNoRecord
<1>2. docs' = [docs EXCEPT ![d] = new] /\ UNCHANGED inv
  BY DEF WriteQbo
<1>3. Existing' = Existing \cup {d}
  BY <1>1, <1>2 DEF StoresFit, Existing
<1>4. docs' \in [Docs -> DocType \cup {None}]
  BY <1>2 DEF StoresFit
<1>5. d \in Subjects /\ sent' = [sent EXCEPT ![d] = @ + 1]
  BY DEF WriteQbo, Announce, Subjects
<1>6. sent' \in [Subjects -> Nat] /\ \A s \in Subjects : sent'[s] > 0 => sent[s] > 0 \/ s = d
  BY <1>5 DEF StoresFit
<1>7. StoresFit'
  BY <1>2, <1>4, <1>6 DEF StoresFit
<1>8. Known' = Known \cup {d}
  BY <1>2, <1>3 DEF Known
<1>9. StoresAgree'
  BY <1>2, <1>3, <1>6, <1>8 DEF StoresAgree
<1> QED BY <1>2, <1>3, <1>7, <1>9 DEF Grows

LEMMA InternalWritten ==
  ASSUME StoresFit, StoresAgree, NEW new \in InvoiceType, WriteInternal(new),
         UNCHANGED <<link, queue, dead, resynced>>, used' \in [DOMAIN Limit -> Nat]
  PROVE  StoresFit' /\ StoresAgree' /\ Grows /\ UNCHANGED Existing
<1>1. new # None
  BY NoneIsNoRecord
<1>2. inv' = new /\ UNCHANGED docs
  BY DEF WriteInternal
<1>3. UNCHANGED Existing
  BY <1>2 DEF Existing
<1>4. Internal \in Subjects /\ sent' = [sent EXCEPT ![Internal] = @ + 1]
  BY DEF WriteInternal, Announce, Subjects
<1>5. /\ sent' \in [Subjects -> Nat]
      /\ \A s \in Subjects : sent'[s] > 0 => sent[s] > 0 \/ s = Internal
  BY <1>4 DEF StoresFit
<1>6. StoresFit'
  BY <1>2, <1>5 DEF StoresFit
<1>7. Known' = Known \cup {Internal}
  BY <1>1, <1>2, <1>3 DEF Known
<1>8. StoresAgree'
  BY <1>1, <1>2, <1>3, <1>5, <1>7 DEF StoresAgree
<1> QED BY <1>1, <1>2, <1>3, <1>6, <1>8 DEF Grows

LEMMA LinkWritten ==
  ASSUME StoresFit, StoresAgree, inv # None, link' \in LinkType, link'.doc \in Existing,
         UNCHANGED <<books, outbox, used>>
  PROVE  StoresFit' /\ StoresAgree' /\ Grows
<1>1. UNCHANGED <<Existing, Known>>
  BY DEF Existing, Known, books
<1>2. link' # None
  BY NoneIsNoRecord
<1>3. StoresFit' BY DEF StoresFit, books, outbox
<1>4. StoresAgree' BY <1>1, <1>2 DEF StoresAgree, books, outbox
<1> QED BY <1>1, <1>2, <1>3, <1>4 DEF Grows, books

LEMMA ResyncFits ==
  ASSUME StoresFit, StoresAgree, NEW s \in Known, NEW v \in Nat, Resync(s, v),
         UNCHANGED <<books, link, used>>
  PROVE  StoresFit' /\ StoresAgree' /\ Grows
<1>1. UNCHANGED <<Existing, Known>>
  BY DEF Existing, Known, books
<1>2. s \in Subjects
  BY DEF Known, Existing, Subjects
<1>3. queue' \in [Subjects -> Nat] /\ \A x \in Subjects : queue'[x] > 0 => queue[x] > 0 \/ x = s
  BY <1>2 DEF StoresFit, Resync
<1>4. resynced' \subseteq Subjects \X Nat
  BY <1>2 DEF StoresFit, Resync
<1>5. StoresFit'
  BY <1>3, <1>4 DEF StoresFit, Resync, books
<1>6. StoresAgree'
  BY <1>1, <1>3 DEF StoresAgree, Resync, books
<1> QED BY <1>1, <1>5, <1>6 DEF Grows, books

\* Nothing is written.
LEMMA StoresStay ==
  ASSUME StoresFit, StoresAgree, UNCHANGED <<books, link, outbox>>,
         used' \in [DOMAIN Limit -> Nat]
  PROVE  StoresFit' /\ StoresAgree' /\ Grows /\ UNCHANGED <<Existing, Known>>
<1>1. UNCHANGED <<Existing, Known>>
  BY DEF Existing, Known, books
<1>2. StoresFit' BY DEF StoresFit, books, outbox
<1>3. StoresAgree' BY <1>1 DEF StoresAgree, books, outbox
<1> QED BY <1>1, <1>2, <1>3 DEF Grows, books

(***************************************************************************)
(* What a caller has read still fits while nothing goes away.              *)
(***************************************************************************)
LEMMA KnownGrows == Grows => Known \subseteq Known'
  BY DEF Grows, Known

LEMMA JobsMove ==
  ASSUME JobsFit, Grows, NEW w \in Workers, NEW j, job' = [job EXCEPT ![w] = j],
         JobFits(job[w])'
  PROVE  JobsFit'
<1>1. ASSUME NEW v \in Workers PROVE JobFits(job[v])'
  <2>1. CASE v = w
    BY <2>1
  <2>2. CASE v # w
    <3>1. job'[v] = job[v] /\ JobFits(job[v]) BY <2>2 DEF JobsFit
    <3> QED BY <3>1, KnownGrows DEF JobFits, Grows
  <2> QED BY <2>1, <2>2
<1> QED BY <1>1 DEF JobsFit

LEMMA JobsStay == ASSUME JobsFit, Grows, UNCHANGED job PROVE JobsFit'
<1>1. ASSUME NEW v \in Workers PROVE JobFits(job[v])'
  <2>1. job'[v] = job[v] /\ JobFits(job[v]) BY DEF JobsFit
  <2> QED BY <2>1, KnownGrows DEF JobFits, Grows
<1> QED BY <1>1 DEF JobsFit

LEMMA RecStays == ASSUME RecFits, Grows, UNCHANGED rec PROVE RecFits'
  BY DEF RecFits, Grows

LEMMA OpStays == ASSUME OpFits, Grows, UNCHANGED op PROVE OpFits'
  BY DEF OpFits, Grows

LEMMA OthersStay ==
  ASSUME TypeInv, Grows, UNCHANGED <<job, rec, op>> PROVE JobsFit' /\ RecFits' /\ OpFits'
  BY JobsStay, RecStays, OpStays DEF TypeInv
--------------------------------------------------------------------------------
\* What people do.
LEMMA PeopleTypes == TypeInv /\ People => TypeInv'
<1> SUFFICES ASSUME TypeInv, People PROVE TypeInv'
  OBVIOUS
<1>t. StoresFit /\ StoresAgree
  BY DEF TypeInv
<1>a. Amounts \subseteq Shown
  BY DEF Shown
<1>i. ASSUME NEW new \in InvoiceType, WriteInternal(new),
             UNCHANGED <<link, queue, dead, resynced, job, rec, op>>,
             used' \in [DOMAIN Limit -> Nat]
      PROVE  TypeInv'
  BY <1>t, <1>i, InternalWritten, OthersStay DEF TypeInv
<1>q. ASSUME NEW d \in Docs, NEW new \in DocType, WriteQbo(d, new),
             UNCHANGED <<link, queue, dead, resynced, job, rec, op>>,
             used' \in [DOMAIN Limit -> Nat]
      PROVE  TypeInv'
  BY <1>t, <1>q, QboWritten, OthersStay DEF TypeInv
<1>u. used \in [DOMAIN Limit -> Nat]
  BY <1>t DEF StoresFit
<1>1. ASSUME NEW a \in Amounts, CreateInvoice(a) PROVE TypeInv'
  <2> DEFINE new == [amount |-> a, name |-> 0, paid |-> 0, status |-> "open", version |-> 1]
  <2>1. new \in InvoiceType BY <1>a DEF InvoiceType
  <2>2. WriteInternal(new) BY <1>1 DEF CreateInvoice
  <2> HIDE DEF new
  <2> QED BY <1>1, <1>i, <1>u, <2>1, <2>2 DEF CreateInvoice
<1>2. ASSUME NEW a \in Amounts, EditInternal(a) PROVE TypeInv'
  <2>1. WithAmount(a) \in InvoiceType
    BY <1>2, <1>t, <1>a, WrittenFits DEF EditInternal, Editable
  <2>2. used' \in [DOMAIN Limit -> Nat]
    BY <1>2, <1>t, Spent, Bounds DEF EditInternal
  <2> QED BY <1>2, <1>i, <2>1, <2>2 DEF EditInternal
<1>3. CASE RenameCustomer
  <2>1. inv \in InvoiceType /\ inv.amount \in Shown
    BY <1>3, <1>t DEF RenameCustomer, Editable, StoresFit, InvoiceType
  <2>2. WithAmount(inv.amount) \in InvoiceType
    BY <1>3, <1>t, <2>1, WrittenFits DEF RenameCustomer, Editable
  <2>3. [WithAmount(inv.amount) EXCEPT !.name = 1 - @] \in InvoiceType
    <3> DEFINE i == WithAmount(inv.amount)
    <3> HIDE DEF i
    <3>1. i \in InvoiceType BY <2>2 DEF i
    <3>2. 1 - i.name \in 0..1 BY <3>1 DEF InvoiceType
    <3>3. [i EXCEPT !.name = 1 - @] \in InvoiceType BY <3>1, <3>2 DEF InvoiceType
    <3> QED BY <3>3 DEF i
  <2>4. used' \in [DOMAIN Limit -> Nat]
    BY <1>3, <1>t, Spent, Bounds DEF RenameCustomer
  <2> QED BY <1>3, <1>i, <2>3, <2>4 DEF RenameCustomer
<1>4. CASE RecordPayment
  <2>1. inv \in InvoiceType /\ inv.paid + 1 \in Nat /\ inv.version + 1 \in Nat
    BY <1>4, <1>t DEF RecordPayment, StoresFit, InvoiceType
  <2>2. inv' \in InvoiceType /\ inv' # None
    <3>1. inv' = [inv EXCEPT !.paid = @ + 1, !.version = @ + 1]
      BY <1>4 DEF RecordPayment
    <3>2. inv' \in InvoiceType BY <2>1, <3>1 DEF InvoiceType
    <3> QED BY <3>2, NoneIsNoRecord
  <2>3. UNCHANGED Existing /\ Known' = Known \cup {Internal}
    BY <1>4, <2>2 DEF RecordPayment, Existing, Known
  <2>4. used' \in [DOMAIN Limit -> Nat]
    BY <1>4, <1>t, Spent, Bounds DEF RecordPayment
  <2>5. StoresFit'
    BY <1>4, <1>t, <2>2, <2>4 DEF RecordPayment, StoresFit, outbox
  <2>6. StoresAgree'
    BY <1>4, <1>t, <2>2, <2>3 DEF RecordPayment, StoresAgree, outbox
  <2>7. Grows
    BY <1>4, <2>2, <2>3 DEF RecordPayment, Grows
  <2> QED BY <1>4, <2>5, <2>6, <2>7, OthersStay DEF TypeInv, RecordPayment
<1>5. CASE DeleteInternal
  <2>1. inv.amount \in Shown
    BY <1>5, <1>t DEF DeleteInternal, StoresFit, InvoiceType
  <2>2. Deleted \in InvoiceType
    BY <1>5, <1>t, <2>1, WrittenFits DEF DeleteInternal
  <2>3. used' \in [DOMAIN Limit -> Nat]
    BY <1>5, <1>t, Spent, Bounds DEF DeleteInternal
  <2> QED BY <1>5, <1>i, <2>2, <2>3 DEF DeleteInternal
<1>6. ASSUME NEW d \in Docs, NEW a \in Amounts, QboEdit(d, a) PROVE TypeInv'
  <2>1. Pushed(d, a) \in DocType
    BY <1>6, <1>t, <1>a, PushedFits DEF QboEdit
  <2>2. [Pushed(d, a) EXCEPT !.edited = TRUE] \in DocType
    BY <2>1 DEF DocType
  <2>3. used' \in [DOMAIN Limit -> Nat]
    BY <1>6, <1>t, Spent, Bounds DEF QboEdit
  <2> QED BY <1>6, <1>q, <2>2, <2>3 DEF QboEdit
<1>7. ASSUME NEW d \in Docs, NEW a \in Amounts, QboEnter(d, a) PROVE TypeInv'
  <2> DEFINE new == [amount |-> a, voided |-> FALSE, token |-> 0, rid |-> 0, edited |-> TRUE]
  <2>1. new \in DocType BY <1>a DEF DocType
  <2>2. WriteQbo(d, new) BY <1>7 DEF QboEnter
  <2>3. used' \in [DOMAIN Limit -> Nat]
    BY <1>7, <1>t, Spent, Bounds DEF QboEnter
  <2> HIDE DEF new
  <2> QED BY <1>7, <1>q, <2>1, <2>2, <2>3 DEF QboEnter
<1>8. ASSUME NEW d \in Docs, QboVoid(d) PROVE TypeInv'
  <2>1. Voided(d) \in DocType
    BY <1>8, <1>t, VoidedFits DEF QboVoid
  <2>2. used' \in [DOMAIN Limit -> Nat]
    BY <1>8, <1>t, Spent, Bounds DEF QboVoid
  <2> QED BY <1>8, <1>q, <2>1, <2>2 DEF QboVoid
<1>9. ASSUME NEW d \in Docs, QboTouch(d) PROVE TypeInv'
  <2>1. docs[d] \in DocType
    BY <1>9, <1>t, ReadFits DEF QboTouch
  <2>2. docs[d].token + 1 \in Nat
    BY <2>1 DEF DocType
  <2>3. [docs[d] EXCEPT !.token = @ + 1] \in DocType
    BY <2>1, <2>2 DEF DocType
  <2>4. used' \in [DOMAIN Limit -> Nat]
    BY <1>9, <1>t, Spent, Bounds DEF QboTouch
  <2> QED BY <1>9, <1>q, <2>3, <2>4 DEF QboTouch
<1> QED
  BY <1>1, <1>2, <1>3, <1>4, <1>5, <1>6, <1>7, <1>8, <1>9 DEF People

\* Webhooks arrive, or do not.
LEMMA WebhookTypes ==
  ASSUME TypeInv, NEW s \in Subjects, Deliver(s) \/ Lose(s)
  PROVE  TypeInv'
<1>t. StoresFit /\ StoresAgree
  BY DEF TypeInv
<1>1. UNCHANGED <<Existing, Known>> /\ Grows
  BY DEF Deliver, Lose, books, Existing, Known, Grows
<1>2. /\ sent' \in [Subjects -> Nat] /\ queue' \in [Subjects -> Nat]
      /\ \A x \in Subjects : sent'[x] > 0 \/ queue'[x] > 0 => sent[x] > 0 \/ queue[x] > 0
  BY <1>t DEF Deliver, Lose, StoresFit
<1>3. used' \in [DOMAIN Limit -> Nat]
  BY <1>t, Spent, Bounds DEF Deliver, Lose, StoresFit
<1>4. StoresFit'
  BY <1>t, <1>2, <1>3 DEF Deliver, Lose, StoresFit, books
<1>5. StoresAgree'
  BY <1>t, <1>1, <1>2 DEF Deliver, Lose, StoresAgree, books
<1> QED BY <1>1, <1>4, <1>5, OthersStay DEF TypeInv, Deliver, Lose
--------------------------------------------------------------------------------
(***************************************************************************)
(* What a worker does.                                                     *)
(***************************************************************************)
LEMMA IdleFits == JobFits(IdleJob)'
  BY DEF JobFits, IdleJob, Pcs, InvPc, LinkPc, DocPc, LinkedPc

\* The event goes back to the queue, or to the dead letters.
LEMMA DropTypes ==
  ASSUME TypeInv, NEW w \in Workers, ~At(w, "idle"), job' = [job EXCEPT ![w] = IdleJob],
         \/ queue' = [queue EXCEPT ![job[w].subject] = @ + 1] /\ UNCHANGED dead
         \/ dead' = dead \cup {job[w].subject} /\ UNCHANGED queue,
         UNCHANGED <<books, link, sent, resynced, rec, op>>,
         used' \in [DOMAIN Limit -> Nat]
  PROVE  TypeInv'
<1>t. StoresFit /\ StoresAgree /\ JobsFit /\ RecFits /\ OpFits
  BY DEF TypeInv
<1>1. job[w].subject \in Known /\ job[w].subject \in Subjects
  BY <1>t DEF JobsFit, JobFits, At, Known, Existing, Subjects
<1>2. UNCHANGED <<Existing, Known>> /\ Grows
  BY DEF books, Existing, Known, Grows
<1>3. /\ queue' \in [Subjects -> Nat] /\ dead' \subseteq Subjects
      /\ \A s \in Subjects : queue'[s] > 0 => queue[s] > 0 \/ s = job[w].subject
  BY <1>t, <1>1 DEF StoresFit
<1>4. StoresFit'
  BY <1>t, <1>3 DEF StoresFit, books
<1>5. StoresAgree'
  BY <1>t, <1>1, <1>2, <1>3 DEF StoresAgree, books
<1>6. job'[w] = IdleJob
  BY <1>t DEF JobsFit
<1>7. JobFits(job[w])'
  BY <1>6, IdleFits DEF JobFits, IdleJob
<1>8. JobsFit'
  BY <1>t, <1>2, <1>7, JobsMove
<1> QED BY <1>t, <1>2, <1>4, <1>5, <1>8, RecStays, OpStays DEF TypeInv

LEMMA InterruptTypes ==
  ASSUME TypeInv, NEW w \in Workers, Interrupt(w) PROVE TypeInv'
<1>1. used' \in [DOMAIN Limit -> Nat]
  BY Spent, Bounds DEF TypeInv, Interrupt
<1> QED BY <1>1, DropTypes DEF Interrupt

LEMMA DieTypes ==
  ASSUME TypeInv, NEW w \in Workers, ~At(w, "idle"), Die(w), UNCHANGED <<rec, op, used>>
  PROVE  TypeInv'
<1>1. used' \in [DOMAIN Limit -> Nat]
  BY DEF TypeInv, StoresFit
<1> QED BY <1>1, DropTypes DEF Die

\* A worker's step that leaves the stores well typed and its job too.
LEMMA WorkerMoves ==
  ASSUME TypeInv, StoresFit', StoresAgree', Grows, UNCHANGED <<rec, op>>,
         NEW w \in Workers, NEW j, job' = [job EXCEPT ![w] = j], JobFits(job[w])'
  PROVE  TypeInv'
  BY JobsMove, RecStays, OpStays DEF TypeInv

\* A step that reads: only the worker moves on.
LEMMA WorkerReads ==
  ASSUME TypeInv, UNCHANGED <<books, link, outbox, rec, op, used>>,
         NEW w \in Workers, NEW j, job' = [job EXCEPT ![w] = j], JobFits(j)
  PROVE  TypeInv'
<1>t. StoresFit /\ StoresAgree /\ JobsFit
  BY DEF TypeInv
<1>1. StoresFit' /\ StoresAgree' /\ Grows /\ UNCHANGED <<Existing, Known>>
  BY <1>t, StoresStay DEF StoresFit
<1>2. job'[w] = j
  BY <1>t DEF JobsFit
<1>3. JobFits(job[w])'
  BY <1>1, <1>2 DEF JobFits, books
<1> QED BY <1>1, <1>3, WorkerMoves

LEMMA JobRead ==
  ASSUME TypeInv, NEW w \in Workers
  PROVE  /\ JobFits(job[w]) /\ StoresFit /\ StoresAgree
         /\ \A j : [job EXCEPT ![w] = j][w] = j
  BY DEF TypeInv, JobsFit

\* A worker takes an event up.
LEMMA TakeTypes ==
  ASSUME TypeInv, NEW w \in Workers, NEW s \in Subjects, queue[s] > 0, NEW j,
         job' = [job EXCEPT ![w] = j], JobFits(j),
         queue' = [queue EXCEPT ![s] = @ - 1],
         UNCHANGED <<books, link, sent, dead, resynced, rec, op, used>>
  PROVE  TypeInv'
<1>t. StoresFit /\ StoresAgree /\ JobsFit
  BY DEF TypeInv
<1>1. UNCHANGED <<Existing, Known>> /\ Grows
  BY DEF books, Existing, Known, Grows
<1>2. /\ queue' \in [Subjects -> Nat]
      /\ \A x \in Subjects : queue'[x] > 0 => queue[x] > 0
  BY <1>t DEF StoresFit
<1>3. StoresFit' BY <1>t, <1>2 DEF StoresFit, books
<1>4. StoresAgree' BY <1>t, <1>1, <1>2 DEF StoresAgree, books
<1>5. job'[w] = j BY <1>t DEF JobsFit
<1>6. JobFits(job[w])' BY <1>1, <1>5 DEF JobFits, books
<1> QED BY <1>1, <1>3, <1>4, <1>6, WorkerMoves

LEMMA DecideGoes ==
  ASSUME NEW source \in {"internal", "quickbooks"}, NEW lnk, NEW i, NEW doc
  PROVE  Decide(source, lnk, i, doc) \in {"apply", "save", "saveSkip", "mark", "finish"}
<1> DEFINE outcome == Analyze(lnk.snapshot, CanonicalFromInternal(i), CanonicalFromQbo(doc))
<1>1. outcome \in {"no-basis", "neither", "internal-only", "qbo-only", "converged", "conflict"}
  BY DEF Analyze
<1>2. ActionFor(source, outcome) \in {"apply", "conflict", "converged", "skip"}
  <2> HIDE DEF outcome
  <2> QED BY <1>1 DEF ActionFor, OwnChange
<1> HIDE DEF outcome
<1>3. Decide(source, lnk, i, doc) =
        IF lnk.status = "conflict"
        THEN IF outcome \in {"converged", "neither"} THEN "save" ELSE "finish"
        ELSE CASE ActionFor(source, outcome) = "apply"     -> "apply"
               [] ActionFor(source, outcome) = "conflict"  -> "mark"
               [] ActionFor(source, outcome) = "converged" -> "save"
               [] ActionFor(source, outcome) = "skip"      -> "saveSkip"
  BY DEF Decide, outcome
<1> QED BY <1>2, <1>3

LEMMA ForwardTypes ==
  ASSUME TypeInv, NEW w \in Workers, Forward(w) PROVE TypeInv'
<1> USE DEF At
<1>j. /\ JobFits(job[w]) /\ StoresFit /\ StoresAgree
      /\ used \in [DOMAIN Limit -> Nat]
  BY JobRead DEF StoresFit
<1>1. CASE TakeForward(w)
  <2> DEFINE j == [IdleJob EXCEPT !.pc = "link", !.subject = Internal, !.inv = inv]
  <2>1. Internal \in Subjects /\ Internal \in Known /\ inv # None
    BY <1>1, <1>j, NamesDiffer DEF TakeForward, StoresAgree, Subjects, Known, Existing
  <2>2. JobFits(j)
    BY <1>j, <2>1 DEF JobFits, IdleJob, StoresFit, Pcs, InvPc, LinkPc, DocPc, LinkedPc
  <2>3. job' = [job EXCEPT ![w] = j]
    BY <1>1 DEF TakeForward
  <2> HIDE DEF j
  <2> QED BY <1>1, <2>1, <2>2, <2>3, TakeTypes DEF TakeForward
<1>2. CASE ForwardLink(w)
  <2> DEFINE to == AfterLink(job[w].inv)
             j == [job[w] EXCEPT !.link = link, !.pc = to]
  <2>1. /\ to \in {"finish", "readToVoid", "find", "read"}
        /\ to \in {"read", "readToVoid"} => link # None
    BY DEF AfterLink
  <2>2. job' = [job EXCEPT ![w] = j]
    BY <1>2 DEF ForwardLink
  <2> HIDE DEF to
  <2>3. JobFits(j)
    BY <1>2, <1>j, <2>1 DEF ForwardLink, StoresFit, StoresAgree, JobFits, IdleJob, Pcs, InvPc,
       LinkPc, DocPc, LinkedPc
  <2> HIDE DEF j
  <2> QED BY <1>2, <2>2, <2>3, WorkerReads DEF ForwardLink
<1>3. CASE ForwardRead(w)
  <2> DEFINE doc == Read(job[w].link.doc)
             go  == Decide("internal", job[w].link, job[w].inv, doc)
             to  == IF go = "apply" THEN "push" ELSE go
             j == [job[w] EXCEPT !.doc = doc, !.pc = to]
  <2>1. doc \in ReadType /\ doc.id \in Existing /\ doc # None
    BY <1>3, <1>j, ReadFits DEF ForwardRead, JobFits, LinkPc
  <2>2. to \in {"push", "save", "saveSkip", "mark", "finish"}
    BY DecideGoes
  <2>3. job' = [job EXCEPT ![w] = j]
    BY <1>3 DEF ForwardRead
  <2> HIDE DEF doc, go, to
  <2>4. JobFits(j)
    BY <1>3, <1>j, <2>1, <2>2 DEF ForwardRead, JobFits, IdleJob, Pcs, InvPc, LinkPc, DocPc, LinkedPc
  <2> HIDE DEF j
  <2> QED BY <1>3, <2>3, <2>4, WorkerReads DEF ForwardRead
<1>4. CASE ForwardFind(w)
  <2>1. ASSUME NEW d \in Existing, job' = [job EXCEPT ![w].doc = Read(d), ![w].pc = "push"]
        PROVE  TypeInv'
    <3> DEFINE j == [job[w] EXCEPT !.doc = Read(d), !.pc = "push"]
    <3>1. Read(d) \in ReadType /\ Read(d).id \in Existing /\ Read(d) # None
      BY <1>j, ReadFits
    <3>2. JobFits(j)
      BY <1>4, <1>j, <3>1 DEF ForwardFind, JobFits, IdleJob, Pcs, InvPc, LinkPc, DocPc, LinkedPc
    <3>3. job' = [job EXCEPT ![w] = j] BY <2>1
    <3> HIDE DEF j
    <3> QED BY <1>4, <3>2, <3>3, WorkerReads DEF ForwardFind
  <2>2. CASE Goto(w, "create")
    <3> DEFINE j == [job[w] EXCEPT !.pc = "create"]
    <3>1. JobFits(j)
      BY <1>4, <1>j DEF ForwardFind, JobFits, IdleJob, Pcs, InvPc, LinkPc, DocPc, LinkedPc
    <3>2. job' = [job EXCEPT ![w] = j] BY <2>2 DEF Goto
    <3> HIDE DEF j
    <3> QED BY <1>4, <3>1, <3>2, WorkerReads DEF ForwardFind
  <2> QED BY <1>4, <2>1, <2>2 DEF ForwardFind
\* A write to QuickBooks based on the document read.
<1>w. ASSUME NEW new \in DocType, WriteQbo(job[w].doc.id, new), job[w].pc \in {"push", "void"},
             job' = [job EXCEPT ![w].doc = Answered(job[w].doc), ![w].pc = "save"],
             UNCHANGED <<link, queue, dead, resynced, rec, op, used>>
      PROVE  TypeInv'
  <2> DEFINE j == [job[w] EXCEPT !.doc = Answered(job[w].doc), !.pc = "save"]
  <2>1. job[w].doc \in ReadType /\ job[w].doc.id \in Docs /\ job[w].doc.id \in Existing
    BY <1>j, <1>w DEF JobFits, DocPc, Existing
  <2>2. Answered(job[w].doc) \in ReadType /\ Answered(job[w].doc).id = job[w].doc.id
        /\ Answered(job[w].doc) # None
    BY <2>1, AnsweredFits
  <2>3. StoresFit' /\ StoresAgree' /\ Grows
    BY <1>j, <1>w, <2>1, QboWritten
  <2>4. job' = [job EXCEPT ![w] = j] BY <1>w
  <2>5. j = [job[w] EXCEPT !.doc = Answered(job[w].doc), !.pc = "save"]
    OBVIOUS
  <2> HIDE DEF j
  <2>6. job'[w] = j BY <2>4 DEF TypeInv, JobsFit
  <2>7. JobFits(job[w])'
    <3>1. /\ j \in [pc : Pcs, subject : Subjects \cup {None}, inv : InvoiceType \cup {None},
                    link : LinkType \cup {None}, doc : ReadType \cup {None}]
          /\ j.pc = "save" /\ j.subject = job[w].subject /\ j.inv = job[w].inv
          /\ j.doc = Answered(job[w].doc)
      BY <1>j, <2>2, <2>5 DEF JobFits, Pcs
    <3>2. /\ j.subject \in Known' /\ j.inv # None /\ j.doc.id \in Existing' /\ j.doc # None
          /\ inv' # None
      BY <1>j, <1>w, <2>1, <2>2, <2>3, <3>1, KnownGrows DEF JobFits, InvPc, Grows
    <3> QED BY <2>6, <3>1, <3>2 DEF JobFits, Pcs, InvPc, LinkPc, DocPc, LinkedPc
  <2> QED BY <1>w, <2>3, <2>4, <2>7, WorkerMoves
<1>5. CASE ForwardPush(w)
  <2>1. CASE ~Current(job[w].doc)
    <3>1. Die(w) /\ UNCHANGED <<rec, op, used>> /\ ~At(w, "idle")
      BY <1>5, <2>1 DEF ForwardPush
    <3> QED BY <3>1, DieTypes
  <2>2. CASE Current(job[w].doc)
    <3>1. Pushed(job[w].doc.id, job[w].inv.amount) \in DocType
      <4>1. job[w].doc.id \in Existing /\ job[w].inv.amount \in Shown
        BY <1>5, <1>j DEF ForwardPush, JobFits, InvPc, DocPc, InvoiceType
      <4> QED BY <1>j, <4>1, PushedFits
    <3>2. /\ WriteQbo(job[w].doc.id, Pushed(job[w].doc.id, job[w].inv.amount))
          /\ job' = [job EXCEPT ![w].doc = Answered(job[w].doc), ![w].pc = "save"]
          /\ UNCHANGED <<link, queue, dead, resynced, rec, op, used>> /\ job[w].pc = "push"
      BY <1>5, <2>2 DEF ForwardPush
    <3> QED BY <1>w, <3>1, <3>2
  <2> QED BY <1>5, <2>1, <2>2 DEF ForwardPush
<1>6. CASE ForwardCreate(w)
  <2> DEFINE i == job[w].inv
  <2>1. i \in InvoiceType /\ job[w].subject \in Known
    BY <1>6, <1>j DEF ForwardCreate, JobFits, InvPc
  <2>2. ASSUME NEW d \in ServedBefore(i.version),
               job' = [job EXCEPT ![w].doc = [Read(d) EXCEPT !.token = 0], ![w].pc = "save"],
               UNCHANGED <<books, sent>>
        PROVE  TypeInv'
    <3> DEFINE doc == [Read(d) EXCEPT !.token = 0]
               j == [job[w] EXCEPT !.doc = doc, !.pc = "save"]
    <3>1. doc \in ReadType /\ doc.id \in Existing
      <4>1. d \in Existing BY <2>2 DEF ServedBefore
      <4>2. Read(d) \in ReadType /\ Read(d).id = d BY <1>j, <4>1, ReadFits
      <4> QED BY <4>1, <4>2 DEF ReadType
    <3>2. doc # None BY <3>1, NoneIsNoRecord
    <3>3. job' = [job EXCEPT ![w] = j] BY <2>2
    <3> HIDE DEF doc
    <3>4. JobFits(j)
      BY <1>6, <1>j, <3>1, <3>2 DEF ForwardCreate, JobFits, IdleJob, Pcs, InvPc, LinkPc, DocPc, LinkedPc
    <3> HIDE DEF j
    <3> QED BY <1>6, <2>2, <3>3, <3>4, WorkerReads DEF ForwardCreate, outbox
  <2>3. ASSUME NEW d \in Docs \ Existing,
               WriteQbo(d, [amount |-> i.amount, voided |-> FALSE, token |-> 0,
                            rid |-> i.version, edited |-> FALSE]),
               job' = [job EXCEPT ![w].pc = "save",
                         ![w].doc = [id |-> d, amount |-> i.amount, voided |-> FALSE,
                                     token |-> 0]]
        PROVE  TypeInv'
    <3> DEFINE new == [amount |-> i.amount, voided |-> FALSE, token |-> 0,
                       rid |-> i.version, edited |-> FALSE]
               doc == [id |-> d, amount |-> i.amount, voided |-> FALSE, token |-> 0]
               j == [job[w] EXCEPT !.pc = "save", !.doc = doc]
    <3>1. new \in DocType /\ doc \in ReadType /\ doc.id = d
      BY <2>1 DEF DocType, ReadType, InvoiceType
    <3>2. doc # None BY <3>1, NoneIsNoRecord
    <3>3. WriteQbo(d, new) BY <2>3
    <3>4. job' = [job EXCEPT ![w] = j] BY <2>3
    <3> HIDE DEF new, doc, i
    <3>5. StoresFit' /\ StoresAgree' /\ Grows /\ Existing' = Existing \cup {d}
      BY <1>6, <1>j, <3>1, <3>3, QboWritten DEF ForwardCreate
    <3>6. /\ j \in [pc : Pcs, subject : Subjects \cup {None}, inv : InvoiceType \cup {None},
                    link : LinkType \cup {None}, doc : ReadType \cup {None}]
          /\ j.pc = "save" /\ j.subject = job[w].subject /\ j.inv = job[w].inv /\ j.doc = doc
      BY <1>j, <3>1 DEF JobFits, Pcs
    <3> HIDE DEF j
    <3>7. job'[w] = j BY <3>4 DEF TypeInv, JobsFit
    <3>8. j.inv # None /\ inv' # None
      BY <1>6, <1>j, <3>5, <3>6 DEF ForwardCreate, JobFits, InvPc, Grows
    <3>9. JobFits(job[w])'
      BY <2>1, <3>1, <3>2, <3>5, <3>6, <3>7, <3>8, KnownGrows
      DEF JobFits, Pcs, InvPc, LinkPc, DocPc, LinkedPc
    <3> QED BY <1>6, <3>4, <3>5, <3>9, WorkerMoves DEF ForwardCreate
  <2> QED BY <1>6, <2>2, <2>3 DEF ForwardCreate
<1>7. CASE ReadToVoid(w)
  <2> DEFINE doc == Read(job[w].link.doc)
             j == [job[w] EXCEPT !.doc = doc, !.pc = "void"]
  <2>1. doc \in ReadType /\ doc.id \in Existing /\ doc # None
    BY <1>7, <1>j, ReadFits DEF ReadToVoid, JobFits, LinkPc
  <2>2. job' = [job EXCEPT ![w] = j]
    BY <1>7 DEF ReadToVoid
  <2> HIDE DEF doc
  <2>3. JobFits(j)
    BY <1>7, <1>j, <2>1 DEF ReadToVoid, JobFits, IdleJob, Pcs, InvPc, LinkPc, DocPc, LinkedPc
  <2> HIDE DEF j
  <2> QED BY <1>7, <2>2, <2>3, WorkerReads DEF ReadToVoid
<1>8. CASE ForwardVoid(w)
  <2>1. CASE ~Current(job[w].doc)
    <3>1. Die(w) /\ UNCHANGED <<rec, op, used>> /\ ~At(w, "idle")
      BY <1>8, <2>1 DEF ForwardVoid
    <3> QED BY <3>1, DieTypes
  <2>2. CASE Current(job[w].doc)
    <3>1. Voided(job[w].doc.id) \in DocType
      <4>1. job[w].doc.id \in Existing
        BY <1>8, <1>j DEF ForwardVoid, JobFits, DocPc
      <4> QED BY <1>j, <4>1, VoidedFits
    <3>2. /\ WriteQbo(job[w].doc.id, Voided(job[w].doc.id))
          /\ job' = [job EXCEPT ![w].doc = Answered(job[w].doc), ![w].pc = "save"]
          /\ UNCHANGED <<link, queue, dead, resynced, rec, op, used>> /\ job[w].pc = "void"
      BY <1>8, <2>2 DEF ForwardVoid
    <3> QED BY <1>w, <3>1, <3>2
  <2> QED BY <1>8, <2>1, <2>2 DEF ForwardVoid
<1> QED
  BY <1>1, <1>2, <1>3, <1>4, <1>5, <1>6, <1>7, <1>8 DEF Forward

LEMMA ReverseTypes ==
  ASSUME TypeInv, NEW w \in Workers, Reverse(w) PROVE TypeInv'
<1> USE DEF At
<1>j. /\ JobFits(job[w]) /\ StoresFit /\ StoresAgree
      /\ used \in [DOMAIN Limit -> Nat]
  BY JobRead DEF StoresFit
<1>1. ASSUME NEW d \in Docs, TakeReverse(w, d) PROVE TypeInv'
  <2> DEFINE doc == Read(d)
             j == [IdleJob EXCEPT !.pc = "linkByQbo", !.subject = d, !.doc = doc]
  <2>1. d \in Subjects /\ d \in Known /\ d \in Existing
    BY <1>1, <1>j, NamesDiffer DEF TakeReverse, StoresAgree, Subjects, Known, Existing
  <2>2. doc \in ReadType /\ doc.id = d /\ doc # None
    BY <1>j, <2>1, ReadFits
  <2>3. job' = [job EXCEPT ![w] = j]
    BY <1>1 DEF TakeReverse
  <2> HIDE DEF doc
  <2>4. JobFits(j)
    BY <1>j, <2>1, <2>2 DEF JobFits, IdleJob, Pcs, InvPc, LinkPc, DocPc, LinkedPc
  <2> HIDE DEF j
  <2> QED BY <1>1, <2>1, <2>3, <2>4, TakeTypes DEF TakeReverse
<1>2. CASE ReverseLink(w)
  <2> DEFINE to == AfterLinkByQbo(job[w].doc)
             j == [job[w] EXCEPT !.link = link, !.pc = to]
  <2>1. /\ to \in {"finish", "remove", "refetch"}
        /\ to \in {"remove", "refetch"} => link # None
    BY DEF AfterLinkByQbo
  <2>2. job' = [job EXCEPT ![w] = j]
    BY <1>2 DEF ReverseLink
  <2> HIDE DEF to
  <2>3. JobFits(j)
    BY <1>2, <1>j, <2>1 DEF ReverseLink, StoresFit, StoresAgree, JobFits, IdleJob, Pcs, InvPc,
       LinkPc, DocPc, LinkedPc
  <2> HIDE DEF j
  <2> QED BY <1>2, <2>2, <2>3, WorkerReads DEF ReverseLink
<1>3. CASE ReverseRefetch(w)
  <2> DEFINE to == Decide("quickbooks", job[w].link, inv, job[w].doc)
             j == [job[w] EXCEPT !.inv = inv, !.pc = to]
  <2>1. to \in {"apply", "save", "saveSkip", "mark", "finish"}
    BY DecideGoes
  <2>2. inv \in InvoiceType \cup {None} /\ inv # None /\ link # None
    BY <1>3, <1>j DEF ReverseRefetch, StoresFit, StoresAgree, JobFits, LinkedPc, LinkPc
  <2>3. job' = [job EXCEPT ![w] = j]
    BY <1>3 DEF ReverseRefetch
  <2> HIDE DEF to
  <2>4. JobFits(j)
    BY <1>3, <1>j, <2>1, <2>2 DEF ReverseRefetch, JobFits, IdleJob, Pcs, InvPc, LinkPc, DocPc,
       LinkedPc
  <2> HIDE DEF j
  <2> QED BY <1>3, <2>3, <2>4, WorkerReads DEF ReverseRefetch
\* A write to the ledger.
<1>w. ASSUME NEW pc \in {"apply", "remove"}, NEW new \in InvoiceType, ReverseWrite(w, pc, new)
      PROVE  TypeInv'
  <2> DEFINE j == [job[w] EXCEPT !.inv = new, !.pc = "save"]
  <2>1. StoresFit' /\ StoresAgree' /\ Grows /\ UNCHANGED Existing
    BY <1>j, <1>w, InternalWritten DEF ReverseWrite
  <2>2. job' = [job EXCEPT ![w] = j] BY <1>w DEF ReverseWrite
  <2>3. /\ j \in [pc : Pcs, subject : Subjects \cup {None}, inv : InvoiceType \cup {None},
                  link : LinkType \cup {None}, doc : ReadType \cup {None}]
        /\ j.pc = "save" /\ j.subject = job[w].subject /\ j.inv = new /\ j.doc = job[w].doc
    BY <1>j DEF JobFits, Pcs
  <2> HIDE DEF j
  <2>4. job'[w] = j BY <2>2 DEF TypeInv, JobsFit
  <2>5. /\ j.subject \in Known' /\ j.inv # None /\ j.doc.id \in Existing' /\ j.doc # None
        /\ inv' # None
    BY <1>j, <1>w, <2>1, <2>3, KnownGrows, NoneIsNoRecord
    DEF JobFits, DocPc, ReverseWrite, WriteInternal
  <2>6. JobFits(job[w])'
    BY <2>3, <2>4, <2>5 DEF JobFits, Pcs, InvPc, LinkPc, DocPc, LinkedPc
  <2> QED BY <1>w, <2>1, <2>2, <2>6, WorkerMoves DEF ReverseWrite
<1>4. CASE ReverseApply(w)
  <2>1. job[w].pc = "apply" BY <1>4 DEF ReverseApply, ReverseWrite
  <2>2. inv # None /\ job[w].doc.amount \in Shown
    BY <1>j, <2>1 DEF StoresAgree, JobFits, LinkedPc, DocPc, ReadType
  <2>3. WithAmount(job[w].doc.amount) \in InvoiceType
    BY <1>j, <2>2, WrittenFits
  <2> QED BY <1>4, <1>w, <2>3 DEF ReverseApply
<1>5. CASE ReverseRemove(w)
  <2>1. job[w].pc = "remove" BY <1>5 DEF ReverseRemove, ReverseWrite
  <2>2. inv # None /\ inv.amount \in Shown
    BY <1>j, <2>1 DEF StoresFit, StoresAgree, JobFits, LinkedPc, InvoiceType
  <2>3. Deleted \in InvoiceType
    BY <1>j, <2>2, WrittenFits
  <2> QED BY <1>5, <1>w, <2>3 DEF ReverseRemove
<1> QED BY <1>1, <1>2, <1>3, <1>4, <1>5 DEF Reverse

LEMMA WorkerTypes ==
  ASSUME TypeInv, NEW w \in Workers, Worker(w) PROVE TypeInv'
<1> USE DEF At
<1>j. JobFits(job[w]) /\ StoresFit /\ StoresAgree
  BY JobRead
<1>l. ASSUME NEW pc \in {"save", "saveSkip", "mark"}, NEW new \in LinkType, new.doc \in Existing,
             inv # None, WriteLink(w, pc, new)
      PROVE  TypeInv'
  <2> DEFINE j == [job[w] EXCEPT !.pc = "finish"]
  <2>1. StoresFit' /\ StoresAgree' /\ Grows
    BY <1>j, <1>l, LinkWritten DEF WriteLink
  <2>2. job' = [job EXCEPT ![w] = j] BY <1>l DEF WriteLink, Goto
  <2>3. /\ j \in [pc : Pcs, subject : Subjects \cup {None}, inv : InvoiceType \cup {None},
                  link : LinkType \cup {None}, doc : ReadType \cup {None}]
        /\ j.pc = "finish" /\ j.subject = job[w].subject
    BY <1>j DEF JobFits, Pcs
  <2> HIDE DEF j
  <2>4. job'[w] = j BY <2>2 DEF TypeInv, JobsFit
  <2>5. j.subject \in Known'
    BY <1>j, <1>l, <2>1, <2>3, KnownGrows DEF JobFits, WriteLink
  <2>6. JobFits(job[w])'
    BY <2>3, <2>4, <2>5 DEF JobFits, Pcs, InvPc, LinkPc, DocPc, LinkedPc
  <2> QED BY <1>l, <2>1, <2>2, <2>6, WorkerMoves DEF WriteLink
<1>1. CASE Save(w)
  <2> DEFINE new == SyncedLink(job[w].doc.id, job[w].inv, job[w].doc.token)
  <2>1. /\ job[w].inv \in InvoiceType /\ job[w].doc \in ReadType
        /\ job[w].doc.id \in Existing /\ inv # None
    BY <1>1, <1>j DEF Save, WriteLink, JobFits, InvPc, DocPc
  <2>2. new \in LinkType /\ new.doc = job[w].doc.id
    BY <2>1, SyncedFits DEF ReadType
  <2>3. WriteLink(w, "save", new) BY <1>1 DEF Save
  <2> HIDE DEF new
  <2> QED BY <1>l, <2>1, <2>2, <2>3
<1>2. CASE SaveSkip(w)
  <2> DEFINE qver == IF job[w].subject = Internal THEN link.qver ELSE job[w].doc.token
             new == [link EXCEPT !.doc = job[w].doc.id, !.hash = Hash(job[w].inv),
                                 !.status = "linked", !.qver = qver]
  <2>1. /\ link \in LinkType /\ inv # None /\ job[w].inv \in InvoiceType
        /\ job[w].doc \in ReadType /\ job[w].doc.id \in Existing
    BY <1>2, <1>j DEF SaveSkip, WriteLink, JobFits, InvPc, DocPc, LinkedPc, StoresFit, StoresAgree
  <2>2. qver \in Nat BY <2>1 DEF LinkType, ReadType
  <2>3. job[w].doc.id \in Docs BY <2>1 DEF Existing
  <2>4. WriteLink(w, "saveSkip", new) BY <1>2 DEF SaveSkip
  <2> HIDE DEF qver
  <2>5. new \in LinkType /\ new.doc = job[w].doc.id
    BY <2>1, <2>2, <2>3, HashFits DEF LinkType
  <2> HIDE DEF new
  <2> QED BY <1>l, <2>1, <2>4, <2>5
<1>3. CASE Mark(w)
  <2> DEFINE new == [link EXCEPT !.status = "conflict"]
  <2>1. link \in LinkType /\ inv # None /\ link.doc \in Existing
    BY <1>3, <1>j DEF Mark, WriteLink, JobFits, LinkedPc, StoresFit, StoresAgree
  <2>2. new \in LinkType /\ new.doc = link.doc
    BY <2>1 DEF LinkType
  <2>3. WriteLink(w, "mark", new) BY <1>3 DEF Mark
  <2> HIDE DEF new
  <2> QED BY <1>l, <2>1, <2>2, <2>3
<1>4. CASE Finish(w)
  <2>1. JobFits(IdleJob)
    BY DEF JobFits, IdleJob, Pcs, InvPc, LinkPc, DocPc, LinkedPc
  <2> QED BY <1>4, <2>1, WorkerReads DEF Finish
<1> QED BY <1>1, <1>2, <1>3, <1>4, ForwardTypes, ReverseTypes DEF Worker
--------------------------------------------------------------------------------
\* A step of the reconciler: the stores and its own record are well typed after it.
LEMMA RecTypes == TypeInv /\ (Reconciler \/ RecFails) => TypeInv'
<1> SUFFICES ASSUME TypeInv, Reconciler \/ RecFails PROVE TypeInv'
  OBVIOUS
<1>t. /\ StoresFit /\ StoresAgree /\ RecFits
      /\ used \in [DOMAIN Limit -> Nat]
  BY DEF TypeInv, StoresFit
<1>m. ASSUME StoresFit', StoresAgree', Grows, RecFits', UNCHANGED <<job, op>> PROVE TypeInv'
  BY <1>m, JobsStay, OpStays DEF TypeInv
<1>i. IdleRec \in [pc : {"idle"}, inv : {None}, link : {None}, found : {{}}]
  BY DEF IdleRec
\* A step that reads.
<1>r. ASSUME UNCHANGED <<books, link, outbox, job, op>>, used' \in [DOMAIN Limit -> Nat],
             Grows /\ UNCHANGED <<Existing, Known>> => RecFits'
      PROVE  TypeInv'
  BY <1>t, <1>m, <1>r, StoresStay
<1> USE DEF UnlinkedPc, DriftPc
<1>1. CASE RecStart
  <2>1. RecFits'
    BY <1>1, <1>t DEF RecStart, RecFits, IdleRec, StoresFit, books
  <2> QED BY <1>1, <1>t, <1>r, <2>1 DEF RecStart
<1>2. CASE RecHasLink
  <2>1. ASSUME UNCHANGED Existing PROVE RecFits'
    BY <1>2, <1>t, <2>1 DEF RecHasLink, RecGoto, RecFits, books
  <2> QED BY <1>2, <1>t, <1>r, <2>1 DEF RecHasLink
<1>3. CASE RecPending
  <2>1. ASSUME UNCHANGED Existing PROVE RecFits'
    BY <1>3, <1>t, <2>1 DEF RecPending, RecGoto, RecFits, books
  <2> QED BY <1>3, <1>t, <1>r, <2>1 DEF RecPending
<1>4. CASE RecList
  <2> DEFINE found == {Read(d) : d \in Existing}
  <2>1. found \in SUBSET ReadType /\ \A m \in found : m.id \in Existing
    BY <1>t, ReadFits
  <2>2. rec' = [rec EXCEPT !.found = found, !.pc = "filter"]
    BY <1>4 DEF RecList
  <2> HIDE DEF found
  <2>3. ASSUME UNCHANGED Existing PROVE RecFits'
    BY <1>4, <1>t, <2>1, <2>2, <2>3 DEF RecList, RecFits, books
  <2> QED BY <1>4, <1>t, <1>r, <2>3 DEF RecList
<1>5. CASE RecFilter
  <2>1. ASSUME UNCHANGED Existing PROVE RecFits'
    BY <1>5, <1>t, <2>1 DEF RecFilter, RecFits, books
  <2> QED BY <1>5, <1>t, <1>r, <2>1 DEF RecFilter
<1>6. CASE RecMatch
  <2>1. rec.inv \in InvoiceType /\ inv # None
    BY <1>6, <1>t DEF RecMatch, RecFits
  <2>2. StoresFit' /\ StoresAgree' /\ Grows
    <3>1. CASE Resync(Internal, rec.inv.version) /\ UNCHANGED link
      <4>1. Internal \in Known /\ rec.inv.version \in Nat
        BY <2>1 DEF Known, InvoiceType
      <4> QED BY <1>6, <1>t, <3>1, <4>1, ResyncFits DEF RecMatch
    <3>2. ASSUME NEW m \in rec.found, UNCHANGED outbox,
                 link' = LET new == SyncedLink(m.id, rec.inv, m.token)
                         IN  IF m.amount = rec.inv.amount THEN new
                             ELSE [new EXCEPT !.status = "conflict",
                                     !.snapshot = IF link = None THEN None ELSE link.snapshot]
          PROVE  StoresFit' /\ StoresAgree' /\ Grows
      <4> DEFINE new == SyncedLink(m.id, rec.inv, m.token)
                 snapshot == IF link = None THEN None ELSE link.snapshot
      <4>1. m \in ReadType /\ m.id \in Existing
        BY <1>t DEF RecFits
      <4>2. new \in LinkType /\ new.doc = m.id
        BY <2>1, <4>1, SyncedFits DEF ReadType
      <4>3. snapshot \in CanonicalType \cup {None}
        BY <1>t DEF StoresFit, LinkType
      <4>4. link' = IF m.amount = rec.inv.amount THEN new
                    ELSE [new EXCEPT !.status = "conflict", !.snapshot = snapshot]
        BY <3>2
      <4> HIDE DEF new, snapshot
      <4>5. link' \in LinkType /\ link'.doc \in Existing
        BY <4>1, <4>2, <4>3, <4>4 DEF LinkType
      <4> QED BY <1>6, <1>t, <2>1, <3>2, <4>5, LinkWritten DEF RecMatch
    <3>3. CASE UNCHANGED <<link, outbox>>
      BY <1>6, <1>t, <3>3, StoresStay DEF RecMatch
    <3> QED BY <1>6, <3>1, <3>2, <3>3 DEF RecMatch
  <2>3. RecFits'
    BY <1>6, <1>t, <2>2 DEF RecMatch, RecGoto, RecFits, Grows
  <2> QED BY <1>6, <1>m, <2>2, <2>3 DEF RecMatch
<1>7. CASE RecLinks
  <2>1. ASSUME UNCHANGED Existing PROVE RecFits'
    BY <1>7, <1>t, <2>1 DEF RecLinks, RecFits, IdleRec, StoresFit, StoresAgree, books
  <2> QED BY <1>7, <1>t, <1>r, <2>1 DEF RecLinks
<1>8. CASE RecDrift
  <2>1. ASSUME UNCHANGED Existing PROVE RecFits'
    BY <1>8, <1>t, <2>1 DEF RecDrift, RecGoto, RecFits, IdleRec, books
  <2> QED BY <1>8, <1>t, <1>r, <2>1 DEF RecDrift
<1>9. CASE RecRead
  <2> DEFINE d == rec.link.doc
  <2>1. d \in Existing /\ d \in Known /\ docs[d].token \in Nat
    <3>1. d \in Existing BY <1>9, <1>t DEF RecRead, RecFits
    <3>2. docs[d] \in DocType BY <1>t, <3>1, ReadFits
    <3> QED BY <3>1, <3>2 DEF Known, DocType
  <2>2. StoresFit' /\ StoresAgree' /\ Grows
    <3>1. CASE Resync(d, docs[d].token)
      BY <1>9, <1>t, <2>1, <3>1, ResyncFits DEF RecRead
    <3>2. CASE UNCHANGED outbox
      BY <1>9, <1>t, <3>2, StoresStay DEF RecRead
    <3> QED BY <1>9, <3>1, <3>2 DEF RecRead
  <2>3. RecFits'
    BY <1>9, <1>t, <2>2 DEF RecRead, RecGoto, RecFits, Grows
  <2> QED BY <1>9, <1>m, <2>2, <2>3 DEF RecRead
<1>10. CASE RecRefetch
  <2>1. inv # None /\ inv \in InvoiceType
    BY <1>10, <1>t DEF RecRefetch, RecFits, StoresFit
  <2>2. StoresFit' /\ StoresAgree' /\ Grows
    <3>1. CASE Resync(Internal, inv.version)
      <4>1. Internal \in Known /\ inv.version \in Nat
        BY <2>1 DEF Known, InvoiceType
      <4> QED BY <1>10, <1>t, <3>1, <4>1, ResyncFits DEF RecRefetch
    <3>2. CASE UNCHANGED outbox
      BY <1>10, <1>t, <3>2, StoresStay DEF RecRefetch
    <3> QED BY <1>10, <3>1, <3>2 DEF RecRefetch
  <2>3. RecFits'
    BY <1>10, <1>i DEF RecRefetch, RecFits
  <2> QED BY <1>10, <1>m, <2>2, <2>3 DEF RecRefetch
<1>11. CASE RecFails
  <2>1. used' \in [DOMAIN Limit -> Nat]
    BY <1>11, <1>t, Spent, Bounds DEF RecFails
  <2>2. RecFits'
    BY <1>11, <1>i DEF RecFails, RecFits
  <2> QED BY <1>11, <1>r, <2>1, <2>2 DEF RecFails
<1> QED
  BY <1>1, <1>2, <1>3, <1>4, <1>5, <1>6, <1>7, <1>8, <1>9, <1>10, <1>11 DEF Reconciler
--------------------------------------------------------------------------------
\* A step of the operator's request.
LEMMA OpTypes == TypeInv /\ (ResolveStart \/ Resolve \/ ResolveFails) => TypeInv'
<1> SUFFICES ASSUME TypeInv, ResolveStart \/ Resolve \/ ResolveFails PROVE TypeInv'
  OBVIOUS
<1>t. /\ StoresFit /\ StoresAgree /\ OpFits
      /\ used \in [DOMAIN Limit -> Nat]
  BY DEF TypeInv, StoresFit
<1>m. ASSUME StoresFit', StoresAgree', Grows, OpFits', UNCHANGED <<job, rec>> PROVE TypeInv'
  BY <1>m, JobsStay, RecStays DEF TypeInv
<1>r. ASSUME UNCHANGED <<books, link, outbox, job, rec>>, used' \in [DOMAIN Limit -> Nat],
             Grows /\ UNCHANGED Existing => OpFits'
      PROVE  TypeInv'
  BY <1>t, <1>m, <1>r, StoresStay
<1>1. CASE ResolveStart
  <2>1. used' \in [DOMAIN Limit -> Nat]
    BY <1>1, <1>t, Spent, Bounds DEF ResolveStart
  <2>2. ASSUME UNCHANGED Existing PROVE OpFits'
    BY <1>1, <1>t, <2>2 DEF ResolveStart, OpFits, StoresFit, StoresAgree, books
  <2> QED BY <1>1, <1>r, <2>1, <2>2 DEF ResolveStart
<1>2. CASE ResolveRefetch
  <2>1. ASSUME UNCHANGED Existing PROVE OpFits'
    BY <1>2, <1>t, <2>1 DEF ResolveRefetch, OpFits, StoresFit, books
  <2> QED BY <1>2, <1>t, <1>r, <2>1 DEF ResolveRefetch
<1>3. CASE ResolveRead
  <2>1. Read(op.link.doc) \in ReadType /\ Read(op.link.doc).id \in Existing
        /\ Read(op.link.doc) # None
    BY <1>3, <1>t, ReadFits DEF ResolveRead, OpFits
  <2>2. ASSUME UNCHANGED Existing PROVE OpFits'
    BY <1>3, <1>t, <2>1, <2>2 DEF ResolveRead, OpFits, books
  <2> QED BY <1>3, <1>t, <1>r, <2>2 DEF ResolveRead
<1>4. CASE InternalWins
  <2>1. /\ op.doc \in ReadType /\ op.doc.id \in Existing /\ op.inv \in InvoiceType
        /\ inv # None /\ op.link # None /\ op.link.doc \in Existing /\ op.pc = "apply"
    BY <1>4, <1>t DEF InternalWins, OpFits
  <2>2. CASE Current(op.doc)
    <3>1. Pushed(op.doc.id, op.inv.amount) \in DocType
      BY <1>t, <2>1, PushedFits DEF InvoiceType
    <3>2. /\ WriteQbo(op.doc.id, Pushed(op.doc.id, op.inv.amount))
          /\ op' = [op EXCEPT !.doc = Answered(op.doc), !.pc = "save"]
          /\ UNCHANGED <<link, queue, dead, resynced, job, rec, used>>
      BY <1>4, <2>2 DEF InternalWins
    <3>3. StoresFit' /\ StoresAgree' /\ Grows
      BY <1>t, <2>1, <3>1, <3>2, QboWritten DEF Existing
    <3>4. Answered(op.doc) \in ReadType /\ Answered(op.doc).id = op.doc.id
          /\ Answered(op.doc) # None
      BY <2>1, AnsweredFits
    <3> DEFINE doc == Answered(op.doc)
    <3>5. /\ doc \in ReadType /\ doc.id \in Existing /\ doc # None
          /\ op' = [op EXCEPT !.doc = doc, !.pc = "save"]
      BY <2>1, <3>2, <3>4
    <3> HIDE DEF doc
    <3>6. OpFits'
      BY <1>t, <2>1, <3>3, <3>5 DEF OpFits, Grows
    <3> QED BY <1>m, <3>2, <3>3, <3>6
  <2>3. CASE ~Current(op.doc)
    <3>1. op' = IdleOp /\ UNCHANGED <<books, sent, link, queue, dead, resynced, job, rec, used>>
      BY <1>4, <2>3 DEF InternalWins
    <3>2. OpFits'
      BY <3>1 DEF OpFits, IdleOp
    <3> QED BY <1>t, <1>r, <3>1, <3>2 DEF outbox
  <2> QED BY <2>2, <2>3
<1>5. CASE QuickbooksWins
  <2> DEFINE new == WithAmount(op.doc.amount)
  <2>1. /\ op.doc \in ReadType /\ op.doc.id \in Existing
        /\ inv # None /\ op.link # None /\ op.link.doc \in Existing
    BY <1>5, <1>t DEF QuickbooksWins, OpFits
  <2>2. new \in InvoiceType
    BY <1>t, <2>1, WrittenFits DEF ReadType
  <2>3. new # None
    BY <2>2, NoneIsNoRecord
  <2>4. /\ WriteInternal(new) /\ op' = [op EXCEPT !.inv = new, !.pc = "save"]
        /\ UNCHANGED <<link, queue, dead, resynced, job, rec, used>>
    BY <1>5 DEF QuickbooksWins
  <2> HIDE DEF new
  <2>5. StoresFit' /\ StoresAgree' /\ Grows /\ UNCHANGED Existing
    BY <1>t, <2>2, <2>4, InternalWritten
  <2>6. OpFits'
    BY <1>5, <1>t, <2>1, <2>2, <2>3, <2>4, <2>5 DEF QuickbooksWins, OpFits, Grows
  <2> QED BY <1>m, <2>4, <2>5, <2>6
<1>6. CASE ResolveSave
  <2> DEFINE new == SyncedLink(op.link.doc, op.inv, op.doc.token)
  <2>1. /\ op.doc \in ReadType /\ op.inv \in InvoiceType
        /\ inv # None /\ op.link # None /\ op.link.doc \in Existing
    BY <1>6, <1>t DEF ResolveSave, OpFits
  <2>2. new \in LinkType /\ new.doc \in Existing
    BY <2>1, SyncedFits DEF ReadType, Existing
  <2>3. link' = new /\ op' = IdleOp /\ UNCHANGED <<books, outbox, job, rec, used>>
    BY <1>6 DEF ResolveSave
  <2> HIDE DEF new
  <2>4. StoresFit' /\ StoresAgree' /\ Grows
    BY <1>t, <2>1, <2>2, <2>3, LinkWritten
  <2>5. OpFits'
    BY <2>3 DEF OpFits, IdleOp
  <2> QED BY <1>m, <2>3, <2>4, <2>5
<1>7. CASE ResolveFails
  <2>1. used' \in [DOMAIN Limit -> Nat]
    BY <1>7, <1>t, Spent, Bounds DEF ResolveFails
  <2>2. OpFits'
    BY <1>7 DEF ResolveFails, OpFits, IdleOp
  <2> QED BY <1>7, <1>r, <2>1, <2>2 DEF ResolveFails
<1> QED BY <1>1, <1>2, <1>3, <1>4, <1>5, <1>6, <1>7 DEF Resolve
--------------------------------------------------------------------------------
LEMMA TypeInvStep == TypeInv /\ [Next]_vars => TypeInv'
<1> SUFFICES ASSUME TypeInv, [Next]_vars PROVE TypeInv'
  OBVIOUS
<1>1. CASE UNCHANGED vars
  <2>1. StoresFit' /\ StoresAgree' /\ Grows
    BY <1>1, StoresStay DEF vars, TypeInv, StoresFit
  <2> QED BY <1>1, <2>1, OthersStay DEF vars, TypeInv
<1> QED
  BY <1>1, PeopleTypes, WebhookTypes, WorkerTypes, InterruptTypes, RecTypes, OpTypes DEF Next

\* Every record keeps its type, a link joins two invoices that are there, and a handler
\* holds what its next step reads.
THEOREM SyncTypeOK == Spec => []TypeOK
  BY TypeInvInit, TypeInvStep, TypeInvFits, PTL DEF Spec
--------------------------------------------------------------------------------
(***************************************************************************)
(* Where each step of a worker takes its job, field by field.              *)
(***************************************************************************)
Moved(w, pc, subject, i, lnk, doc) ==
  /\ /\ job'[w].pc = pc /\ job'[w].subject = subject
     /\ job'[w].inv = i /\ job'[w].link = lnk /\ job'[w].doc = doc
  /\ \A v \in Workers : v # w => job'[v] = job[v]

Dropped(w) == Moved(w, "idle", None, None, None, None)

LEMMA MovesTo ==
  ASSUME TypeInv, NEW w \in Workers, NEW j, job' = [job EXCEPT ![w] = j]
  PROVE  job'[w] = j /\ \A v \in Workers : v # w => job'[v] = job[v]
  BY DEF TypeInv, JobsFit

LEMMA MovesToIdle ==
  ASSUME TypeInv, NEW w \in Workers, job' = [job EXCEPT ![w] = IdleJob]
  PROVE  Dropped(w)
<1>1. job'[w] = IdleJob /\ \A v \in Workers : v # w => job'[v] = job[v]
  BY MovesTo
<1> QED BY <1>1 DEF Moved, Dropped, IdleJob

JobType == [pc : Pcs, subject : Subjects \cup {None}, inv : InvoiceType \cup {None},
            link : LinkType \cup {None}, doc : ReadType \cup {None}]

LEMMA MovesWhole ==
  ASSUME TypeInv, NEW w \in Workers
  PROVE  job[w] \in JobType
  BY DEF TypeInv, JobsFit, JobFits, JobType

LEMMA MovesLink ==
  ASSUME TypeInv, NEW w \in Workers, NEW lnk, NEW pc,
         job' = [job EXCEPT ![w] = [job[w] EXCEPT !.link = lnk, !.pc = pc]]
  PROVE  Moved(w, pc, job[w].subject, job[w].inv, lnk, job[w].doc)
<1> DEFINE j == job[w]
           k == job'[w]
<1>1. k = [j EXCEPT !.link = lnk, !.pc = pc]
  BY MovesTo
<1>2. \A v \in Workers : v # w => job'[v] = job[v]
  BY MovesTo
<1>3. j \in JobType
  BY MovesWhole
<1> HIDE DEF j, k
<1>4. k.pc = pc /\ k.subject = j.subject /\ k.doc = j.doc
  BY <1>1, <1>3 DEF JobType
<1>5. k.inv = j.inv /\ k.link = lnk
  BY <1>1, <1>3 DEF JobType
<1> QED BY <1>2, <1>4, <1>5 DEF Moved, j, k

LEMMA MovesInv ==
  ASSUME TypeInv, NEW w \in Workers, NEW i, NEW pc,
         job' = [job EXCEPT ![w] = [job[w] EXCEPT !.inv = i, !.pc = pc]]
  PROVE  Moved(w, pc, job[w].subject, i, job[w].link, job[w].doc)
<1> DEFINE j == job[w]
           k == job'[w]
<1>1. k = [j EXCEPT !.inv = i, !.pc = pc]
  BY MovesTo
<1>2. \A v \in Workers : v # w => job'[v] = job[v]
  BY MovesTo
<1>3. j \in JobType
  BY MovesWhole
<1> HIDE DEF j, k
<1>4. k.pc = pc /\ k.subject = j.subject /\ k.doc = j.doc
  BY <1>1, <1>3 DEF JobType
<1>5. k.inv = i /\ k.link = j.link
  BY <1>1, <1>3 DEF JobType
<1> QED BY <1>2, <1>4, <1>5 DEF Moved, j, k

LEMMA MovesDoc ==
  ASSUME TypeInv, NEW w \in Workers, NEW doc, NEW pc,
         \/ job' = [job EXCEPT ![w] = [job[w] EXCEPT !.doc = doc, !.pc = pc]]
         \/ job' = [job EXCEPT ![w] = [job[w] EXCEPT !.pc = pc, !.doc = doc]]
  PROVE  Moved(w, pc, job[w].subject, job[w].inv, job[w].link, doc)
<1>1. \/ job'[w] = [job[w] EXCEPT !.doc = doc, !.pc = pc]
      \/ job'[w] = [job[w] EXCEPT !.pc = pc, !.doc = doc]
  BY MovesTo
<1>2. \A v \in Workers : v # w => job'[v] = job[v]
  BY MovesTo
<1>3. job[w] \in JobType
  BY MovesWhole
<1> QED BY <1>1, <1>2, <1>3 DEF Moved, JobType

LEMMA MovesPc ==
  ASSUME TypeInv, NEW w \in Workers, NEW pc, Goto(w, pc)
  PROVE  Moved(w, pc, job[w].subject, job[w].inv, job[w].link, job[w].doc)
<1>1. job' = [job EXCEPT ![w] = [job[w] EXCEPT !.pc = pc]]
  BY DEF Goto
<1>2. job'[w] = [job[w] EXCEPT !.pc = pc] /\ \A v \in Workers : v # w => job'[v] = job[v]
  BY <1>1, MovesTo
<1>3. job[w] \in JobType
  BY MovesWhole
<1> QED BY <1>2, <1>3 DEF Moved, JobType

LEMMA ForwardMoves ==
  ASSUME TypeInv, NEW w \in Workers
  PROVE  LET j == job[w] IN
         /\ TakeForward(w) => Moved(w, "link", Internal, inv, None, None)
         /\ ForwardLink(w) => Moved(w, AfterLink(j.inv), j.subject, j.inv, link, j.doc)
         /\ ForwardRead(w) =>
              LET doc == Read(j.link.doc)
                  go  == Decide("internal", j.link, j.inv, doc)
              IN  Moved(w, IF go = "apply" THEN "push" ELSE go, j.subject, j.inv, j.link, doc)
         /\ ForwardFind(w) =>
              \/ \E d \in Existing : Moved(w, "push", j.subject, j.inv, j.link, Read(d))
              \/ Existing = {} /\ Moved(w, "create", j.subject, j.inv, j.link, j.doc)
         /\ ForwardPush(w) \/ ForwardVoid(w) =>
              \/ Current(j.doc) /\ Moved(w, "save", j.subject, j.inv, j.link, Answered(j.doc))
              \/ ~Current(j.doc) /\ Dropped(w) /\ UNCHANGED <<books, sent, queue>>
         /\ ForwardCreate(w) => \E doc : Moved(w, "save", j.subject, j.inv, j.link, doc)
         /\ ReadToVoid(w) =>
              Moved(w, "void", j.subject, j.inv, j.link, Read(j.link.doc))
<1> DEFINE j == job[w]
<1>1. ASSUME TakeForward(w) PROVE Moved(w, "link", Internal, inv, None, None)
  <2> DEFINE j0 == [IdleJob EXCEPT !.pc = "link", !.subject = Internal, !.inv = inv]
  <2>1. job' = [job EXCEPT ![w] = j0]
    BY <1>1 DEF TakeForward
  <2>2. /\ j0.pc = "link" /\ j0.subject = Internal /\ j0.inv = inv
        /\ j0.link = None /\ j0.doc = None
    BY DEF IdleJob
  <2> HIDE DEF j0
  <2> QED BY <2>1, <2>2, MovesTo DEF Moved
<1>2. ASSUME ForwardLink(w)
      PROVE  Moved(w, AfterLink(j.inv), j.subject, j.inv, link, j.doc)
  <2>1. job' = [job EXCEPT ![w] = [job[w] EXCEPT !.link = link, !.pc = AfterLink(job[w].inv)]]
    BY <1>2 DEF ForwardLink
  <2> QED BY <2>1, MovesLink
<1>3. ASSUME ForwardRead(w)
      PROVE  LET doc == Read(j.link.doc)
                 go  == Decide("internal", j.link, j.inv, doc)
             IN  Moved(w, IF go = "apply" THEN "push" ELSE go, j.subject, j.inv, j.link, doc)
  <2> DEFINE doc == Read(j.link.doc)
             go  == Decide("internal", j.link, j.inv, doc)
             to  == IF go = "apply" THEN "push" ELSE go
  <2>1. job' = [job EXCEPT ![w] = [job[w] EXCEPT !.doc = doc, !.pc = to]]
    BY <1>3 DEF ForwardRead
  <2> HIDE DEF doc, to
  <2>2. Moved(w, to, j.subject, j.inv, j.link, doc)
    BY <2>1, MovesDoc
  <2> QED BY <2>2 DEF to, doc
<1>4. ASSUME ForwardFind(w)
      PROVE  \/ \E d \in Existing : Moved(w, "push", j.subject, j.inv, j.link, Read(d))
             \/ Existing = {} /\ Moved(w, "create", j.subject, j.inv, j.link, j.doc)
  <2>1. ASSUME NEW d \in Existing, job' = [job EXCEPT ![w].doc = Read(d), ![w].pc = "push"]
        PROVE  Moved(w, "push", j.subject, j.inv, j.link, Read(d))
    <3>1. job' = [job EXCEPT ![w] = [job[w] EXCEPT !.doc = Read(d), !.pc = "push"]]
      BY <2>1
    <3> QED BY <3>1, MovesDoc
  <2> QED BY <1>4, <2>1, MovesPc DEF ForwardFind
<1>5. ASSUME ForwardPush(w) \/ ForwardVoid(w)
      PROVE  \/ Current(j.doc) /\ Moved(w, "save", j.subject, j.inv, j.link, Answered(j.doc))
             \/ ~Current(j.doc) /\ Dropped(w) /\ UNCHANGED <<books, sent, queue>>
  <2>1. CASE /\ job' = [job EXCEPT ![w].doc = Answered(job[w].doc), ![w].pc = "save"]
             /\ Current(j.doc)
    <3>1. job' = [job EXCEPT ![w] = [job[w] EXCEPT !.doc = Answered(job[w].doc), !.pc = "save"]]
      BY <2>1
    <3>2. Moved(w, "save", j.subject, j.inv, j.link, Answered(j.doc))
      BY <3>1, MovesDoc
    <3> QED BY <1>5, <2>1, <3>2 DEF ForwardPush, ForwardVoid, Die
  <2>2. CASE Die(w) /\ ~Current(j.doc)
    <3>1. job' = [job EXCEPT ![w] = IdleJob] /\ UNCHANGED <<books, sent, queue>>
      BY <2>2 DEF Die
    <3> QED BY <2>2, <3>1, MovesToIdle
  <2> QED BY <1>5, <2>1, <2>2 DEF ForwardPush, ForwardVoid
<1>6. ASSUME ForwardCreate(w)
      PROVE  \E doc : Moved(w, "save", j.subject, j.inv, j.link, doc)
  <2>1. ASSUME NEW doc, job' = [job EXCEPT ![w].doc = doc, ![w].pc = "save"]
        PROVE  Moved(w, "save", j.subject, j.inv, j.link, doc)
    <3>1. job' = [job EXCEPT ![w] = [job[w] EXCEPT !.doc = doc, !.pc = "save"]]
      BY <2>1
    <3> QED BY <3>1, MovesDoc
  <2>2. ASSUME NEW doc, job' = [job EXCEPT ![w].pc = "save", ![w].doc = doc]
        PROVE  Moved(w, "save", j.subject, j.inv, j.link, doc)
    <3>1. job' = [job EXCEPT ![w] = [job[w] EXCEPT !.pc = "save", !.doc = doc]]
      BY <2>2
    <3> QED BY <3>1, MovesDoc
  <2> QED BY <1>6, <2>1, <2>2 DEF ForwardCreate
<1>7. ASSUME ReadToVoid(w)
      PROVE  Moved(w, "void", j.subject, j.inv, j.link, Read(j.link.doc))
  <2>1. job' = [job EXCEPT ![w] = [job[w] EXCEPT !.doc = Read(job[w].link.doc), !.pc = "void"]]
    BY <1>7 DEF ReadToVoid
  <2> QED BY <2>1, MovesDoc
<1> QED BY <1>1, <1>2, <1>3, <1>4, <1>5, <1>6, <1>7

LEMMA ReverseMoves ==
  ASSUME TypeInv, NEW w \in Workers
  PROVE  LET j == job[w] IN
         /\ \A d \in Docs : TakeReverse(w, d) => Moved(w, "linkByQbo", d, None, None, Read(d))
         /\ ReverseLink(w) => Moved(w, AfterLinkByQbo(j.doc), j.subject, j.inv, link, j.doc)
         /\ ReverseRefetch(w) =>
              Moved(w, Decide("quickbooks", j.link, inv, j.doc), j.subject, inv, j.link, j.doc)
         /\ ReverseApply(w) =>
              Moved(w, "save", j.subject, WithAmount(j.doc.amount), j.link, j.doc)
         /\ ReverseRemove(w) => Moved(w, "save", j.subject, Deleted, j.link, j.doc)
<1> DEFINE j == job[w]
<1>1. ASSUME NEW d \in Docs, TakeReverse(w, d)
      PROVE  Moved(w, "linkByQbo", d, None, None, Read(d))
  <2> DEFINE j0 == [IdleJob EXCEPT !.pc = "linkByQbo", !.subject = d, !.doc = Read(d)]
  <2>1. job' = [job EXCEPT ![w] = j0]
    BY <1>1 DEF TakeReverse
  <2>2. /\ j0.pc = "linkByQbo" /\ j0.subject = d /\ j0.inv = None
        /\ j0.link = None /\ j0.doc = Read(d)
    BY DEF IdleJob
  <2> HIDE DEF j0
  <2> QED BY <2>1, <2>2, MovesTo DEF Moved
<1>2. ASSUME ReverseLink(w)
      PROVE  Moved(w, AfterLinkByQbo(j.doc), j.subject, j.inv, link, j.doc)
  <2>1. job' = [job EXCEPT ![w] = [job[w] EXCEPT !.link = link,
                                                 !.pc = AfterLinkByQbo(job[w].doc)]]
    BY <1>2 DEF ReverseLink
  <2> QED BY <2>1, MovesLink
<1>3. ASSUME ReverseRefetch(w)
      PROVE  Moved(w, Decide("quickbooks", j.link, inv, j.doc), j.subject, inv, j.link, j.doc)
  <2> DEFINE to == Decide("quickbooks", j.link, inv, j.doc)
  <2>1. job' = [job EXCEPT ![w] = [job[w] EXCEPT !.inv = inv, !.pc = to]]
    BY <1>3 DEF ReverseRefetch
  <2> HIDE DEF to
  <2>2. Moved(w, to, j.subject, inv, j.link, j.doc)
    BY <2>1, MovesInv
  <2> QED BY <2>2 DEF to
<1>4. ASSUME NEW pc, NEW new, ReverseWrite(w, pc, new)
      PROVE  Moved(w, "save", j.subject, new, j.link, j.doc)
  <2>1. job' = [job EXCEPT ![w] = [job[w] EXCEPT !.inv = new, !.pc = "save"]]
    BY <1>4 DEF ReverseWrite
  <2> QED BY <2>1, MovesInv
<1> QED BY <1>1, <1>2, <1>3, <1>4 DEF ReverseApply, ReverseRemove

LEMMA EndMoves ==
  ASSUME TypeInv, NEW w \in Workers
  PROVE  LET j == job[w] IN
         /\ Save(w) \/ SaveSkip(w) \/ Mark(w) =>
              Moved(w, "finish", j.subject, j.inv, j.link, j.doc)
         /\ Finish(w) \/ Interrupt(w) => Dropped(w)
<1> DEFINE j == job[w]
<1>1. ASSUME NEW pc, NEW new, WriteLink(w, pc, new)
      PROVE  Moved(w, "finish", j.subject, j.inv, j.link, j.doc)
  BY <1>1, MovesPc DEF WriteLink
<1>2. Finish(w) \/ Interrupt(w) => Dropped(w)
  BY MovesToIdle DEF Finish, Interrupt
<1> QED BY <1>1, <1>2 DEF Save, SaveSkip, Mark

\* Nobody else moves a job.
LEMMA OnlyWorkersMove ==
  [Next]_vars => UNCHANGED job \/ \E w \in Workers : Worker(w) \/ Interrupt(w)
  BY DEF Next, People, CreateInvoice, EditInternal, RenameCustomer, RecordPayment,
     DeleteInternal, QboEdit, QboEnter, QboVoid, QboTouch, Deliver, Lose, Reconciler, RecFails,
     RecStart, RecHasLink, RecPending, RecList, RecFilter, RecMatch, RecLinks, RecDrift, RecRead,
     RecRefetch, ResolveStart, Resolve, ResolveFails, ResolveRefetch, ResolveRead, InternalWins,
     QuickbooksWins, ResolveSave, vars
--------------------------------------------------------------------------------
(***************************************************************************)
(* Creates.  A Request-Id never leaves the invoice it made, and nobody but *)
(* a worker's create brings one.                                           *)
(***************************************************************************)
RidsAreKept ==
  /\ \A d \in Existing : docs'[d].rid = docs[d].rid
  /\ \A d \in Existing' \ Existing : docs'[d].rid = 0

LEMMA RidsWritten ==
  ASSUME TypeInv, NEW d \in Docs, NEW new, WriteQbo(d, new),
         new.rid = IF d \in Existing THEN docs[d].rid ELSE 0
  PROVE  RidsAreKept
<1>1. docs' = [docs EXCEPT ![d] = new]
  BY DEF WriteQbo
<1> QED BY <1>1 DEF TypeInv, StoresFit, Existing, RidsAreKept

LEMMA RidOfWrite ==
  ASSUME TypeInv, NEW d \in Existing, NEW a \in Shown
  PROVE  /\ Pushed(d, a).rid = docs[d].rid
         /\ [Pushed(d, a) EXCEPT !.edited = TRUE].rid = docs[d].rid
         /\ Voided(d).rid = docs[d].rid
         /\ [docs[d] EXCEPT !.token = @ + 1].rid = docs[d].rid
<1>1. docs[d] \in DocType BY DEF TypeInv, StoresFit, Existing
<1> QED BY <1>1 DEF Pushed, Voided, DocType

LEMMA OnlyCreatesBringRids ==
  TypeInv /\ [Next]_vars => RidsAreKept \/ \E w \in Workers : ForwardCreate(w)
<1> SUFFICES ASSUME TypeInv, [Next]_vars, \A w \in Workers : ~ForwardCreate(w)
             PROVE  RidsAreKept
  OBVIOUS
<1> USE DEF At
<1>k. ASSUME UNCHANGED docs PROVE RidsAreKept
  BY <1>k DEF RidsAreKept, Existing
<1>j. \A w \in Workers :
        /\ JobFits(job[w])
        /\ job[w].pc \in {"push", "void"} => job[w].doc.id \in Existing
        /\ job[w].pc \in {"push", "create"} => job[w].inv \in InvoiceType
  BY DEF TypeInv, JobsFit, JobFits, DocPc, InvPc
<1>1. CASE People
  <2>1. ASSUME NEW d \in Docs, NEW a \in Amounts, QboEdit(d, a) PROVE RidsAreKept
    BY <2>1, RidsWritten, RidOfWrite DEF QboEdit, Shown
  <2>2. ASSUME NEW d \in Docs, NEW a \in Amounts, QboEnter(d, a) PROVE RidsAreKept
    <3> DEFINE new == [amount |-> a, voided |-> FALSE, token |-> 0, rid |-> 0, edited |-> TRUE]
    <3>1. new.rid = 0 /\ WriteQbo(d, new) /\ d \notin Existing BY <2>2 DEF QboEnter
    <3> HIDE DEF new
    <3> QED BY <3>1, RidsWritten
  <2>3. ASSUME NEW d \in Docs, QboVoid(d) PROVE RidsAreKept
    BY <2>3, RidsWritten, RidOfWrite DEF QboVoid, Shown
  <2>4. ASSUME NEW d \in Docs, QboTouch(d) PROVE RidsAreKept
    BY <2>4, RidsWritten, RidOfWrite DEF QboTouch, Shown
  <2>5. CASE UNCHANGED docs BY <1>k, <2>5
  <2> QED
    BY <1>1, <2>1, <2>2, <2>3, <2>4, <2>5
    DEF People, CreateInvoice, EditInternal, RenameCustomer, RecordPayment, DeleteInternal,
        WriteInternal
<1>2. ASSUME NEW w \in Workers, ForwardPush(w) PROVE RidsAreKept
  <2> DEFINE d == job[w].doc.id
  <2>1. d \in Existing /\ d \in Docs /\ job[w].inv.amount \in Shown
    BY <1>2, <1>j DEF ForwardPush, InvoiceType, Existing
  <2>2. WriteQbo(d, Pushed(d, job[w].inv.amount)) \/ UNCHANGED docs
    BY <1>2 DEF ForwardPush, Die, books
  <2> QED BY <1>k, <2>1, <2>2, RidsWritten, RidOfWrite
<1>3. ASSUME NEW w \in Workers, ForwardVoid(w) PROVE RidsAreKept
  <2> DEFINE d == job[w].doc.id
  <2>1. d \in Existing /\ d \in Docs
    BY <1>3, <1>j DEF ForwardVoid, Existing
  <2>2. WriteQbo(d, Voided(d)) \/ UNCHANGED docs
    BY <1>3 DEF ForwardVoid, Die, books
  <2> QED BY <1>k, <2>1, <2>2, RidsWritten, RidOfWrite DEF Shown
<1>5. CASE InternalWins
  <2> DEFINE d == op.doc.id
  <2>1. d \in Existing /\ d \in Docs /\ op.inv.amount \in Shown
    BY <1>5 DEF InternalWins, TypeInv, OpFits, InvoiceType, Existing
  <2>2. WriteQbo(d, Pushed(d, op.inv.amount)) \/ UNCHANGED docs
    BY <1>5 DEF InternalWins, books
  <2> QED BY <1>k, <2>1, <2>2, RidsWritten, RidOfWrite
\* Nobody else writes to QuickBooks.
<1>6. ASSUME NEW w \in Workers, Worker(w) \/ Interrupt(w) PROVE RidsAreKept
  <2>1. CASE UNCHANGED docs BY <1>k, <2>1
  <2> QED
    BY <1>2, <1>3, <1>6, <2>1
    DEF Worker, Forward, Reverse, Interrupt, TakeForward, ForwardLink, ForwardRead, ForwardFind,
        ReadToVoid, TakeReverse, ReverseLink, ReverseRefetch, ReverseApply, ReverseRemove,
        ReverseWrite, WriteInternal, Save, SaveSkip, Mark, WriteLink, Finish, books
<1>7. CASE Reconciler \/ RecFails
  BY <1>7, <1>k DEF Reconciler, RecFails, RecStart, RecHasLink, RecPending, RecList, RecFilter,
     RecMatch, RecLinks, RecDrift, RecRead, RecRefetch, books
<1>8. CASE ResolveStart \/ Resolve \/ ResolveFails
  BY <1>5, <1>8, <1>k DEF ResolveStart, Resolve, ResolveFails, ResolveRefetch, ResolveRead,
     QuickbooksWins, WriteInternal, ResolveSave, books
<1>9. CASE UNCHANGED vars \/ \E s \in Subjects : Deliver(s) \/ Lose(s)
  BY <1>9, <1>k DEF vars, books, Deliver, Lose
<1> QED BY <1>1, <1>6, <1>7, <1>8, <1>9 DEF Next

\* A create answers with what an earlier one under its Request-Id made, or makes the first.
LEMMA CreateMakes ==
  ASSUME TypeInv, NEW w \in Workers, ForwardCreate(w)
  PROVE  \/ UNCHANGED docs
         \/ \E d \in Docs \ Existing :
              /\ Created' \subseteq Created \cup {d}
              /\ \A e \in Created : /\ docs'[e].rid = docs[e].rid
                                    /\ docs[e].rid # docs'[d].rid
<1> DEFINE v == job[w].inv.version
<1>1. ASSUME NEW d \in Docs \ Existing, ServedBefore(v) = {}, NEW new, new.rid = v,
             WriteQbo(d, new)
      PROVE  /\ Created' \subseteq Created \cup {d}
             /\ \A e \in Created : docs'[e].rid = docs[e].rid /\ docs[e].rid # docs'[d].rid
  <2>1. docs' = [docs EXCEPT ![d] = new] /\ docs \in [Docs -> DocType \cup {None}]
    BY <1>1 DEF WriteQbo, TypeInv, StoresFit
  <2>2. docs'[d].rid = v
    BY <1>1, <2>1
  <2>3. \A e \in Created : docs'[e].rid = docs[e].rid /\ docs[e].rid # v
    BY <1>1, <2>1 DEF Created, Existing, ServedBefore
  <2> QED BY <2>1, <2>2, <2>3 DEF Created, Existing
<1>2. ASSUME NEW d \in Docs \ Existing, ServedBefore(v) = {},
             WriteQbo(d, [amount |-> job[w].inv.amount, voided |-> FALSE, token |-> 0,
                          rid |-> v, edited |-> FALSE])
      PROVE  /\ Created' \subseteq Created \cup {d}
             /\ \A e \in Created : docs'[e].rid = docs[e].rid /\ docs[e].rid # docs'[d].rid
  <2> DEFINE new == [amount |-> job[w].inv.amount, voided |-> FALSE, token |-> 0,
                     rid |-> v, edited |-> FALSE]
  <2>1. new.rid = v /\ WriteQbo(d, new) BY <1>2
  <2> HIDE DEF new
  <2> QED BY <1>1, <1>2, <2>1
<1> QED BY <1>2 DEF ForwardCreate, books

(***************************************************************************)
(* With one worker a later version makes no second invoice either: what it *)
(* looks for before the create stays not there until it creates.           *)
(***************************************************************************)
Alone == \A v, w \in Workers : v = w

CreatedOnce ==
  /\ \A d, e \in Created : d = e
  /\ \A w \in Workers : At(w, "create") => Created = {}

\* A worker comes to create only from a look that found nothing.
LEMMA EntersCreate ==
  ASSUME TypeInv, [Next]_vars, NEW w \in Workers, At(w, "create")', ~At(w, "create")
  PROVE  Existing = {}
<1> USE DEF At, Moved
<1>1. ~UNCHANGED job
  OBVIOUS
<1>2. PICK v \in Workers : Worker(v) \/ Interrupt(v)
  BY <1>1, OnlyWorkersMove
<1>3. AfterLink(job[v].inv) # "create" /\ AfterLinkByQbo(job[v].doc) # "create"
  BY DEF AfterLink, AfterLinkByQbo
<1>4. /\ Decide("quickbooks", job[v].link, inv, job[v].doc) # "create"
      /\ Decide("internal", job[v].link, job[v].inv, Read(job[v].link.doc)) # "create"
  BY DecideGoes
<1> QED BY <1>2, <1>3, <1>4, ForwardMoves, ReverseMoves, EndMoves
        DEF Worker, Forward, Reverse, Dropped

LEMMA CreatedStep == Alone /\ TypeInv /\ CreatedOnce /\ [Next]_vars => CreatedOnce'
<1> SUFFICES ASSUME Alone, TypeInv, CreatedOnce, [Next]_vars PROVE CreatedOnce'
  OBVIOUS
<1>1. ASSUME NEW w \in Workers, ForwardCreate(w) PROVE CreatedOnce'
  <2>1. Created = {} /\ \A v \in Workers : v = w
    BY <1>1 DEF CreatedOnce, Alone, ForwardCreate
  <2>2. ~At(w, "create")'
    BY <1>1, ForwardMoves DEF Moved, At
  <2>3. \A d, e \in Created' : d = e
    <3>1. CASE UNCHANGED docs BY <2>1, <3>1 DEF Created, Existing
    <3> QED BY <1>1, <2>1, <3>1, CreateMakes
  <2> QED BY <2>1, <2>2, <2>3 DEF CreatedOnce
<1>2. CASE RidsAreKept
  <2>1. Created' \subseteq Created
    BY <1>2 DEF RidsAreKept, Created, Existing
  <2>2. ASSUME NEW w \in Workers, At(w, "create")', ~At(w, "create") PROVE Created' = {}
    BY <2>1, <2>2, EntersCreate DEF Created
  <2> QED BY <2>1, <2>2 DEF CreatedOnce
<1> QED BY <1>1, <1>2, OnlyCreatesBringRids

\* One worker creates the invoice in QuickBooks once, whatever is interrupted, tried again,
\* edited or reconciled between the create and the write of the link.
THEOREM CreatesOneInvoice == Alone => (Spec => []NoDuplicateInvoice)
<1> SUFFICES ASSUME Alone PROVE Spec => []NoDuplicateInvoice
  OBVIOUS
<1>1. Init => CreatedOnce
  BY DEF Init, CreatedOnce, Created, Existing, At, IdleJob
<1>2. CreatedOnce => NoDuplicateInvoice
  <2> SUFFICES ASSUME CreatedOnce PROVE NoDuplicateInvoice
    OBVIOUS
  <2>1. Created = {} \/ \E d : Created = {d}
    BY DEF CreatedOnce
  <2>2. Cardinality(Created) \in {0, 1}
    BY <2>1, FS_EmptySet, FS_Singleton
  <2> QED BY <2>2 DEF NoDuplicateInvoice
<1>3. TypeInv /\ CreatedOnce /\ [Next]_vars => CreatedOnce'
  BY CreatedStep
<1> QED BY <1>1, <1>2, <1>3, TypeInvInit, TypeInvStep, PTL DEF Spec
--------------------------------------------------------------------------------
(***************************************************************************)
(* What the writes show, field by field.                                   *)
(***************************************************************************)
ShowsDoc(d, amount, voided) ==
  /\ docs'[d] # None /\ docs'[d].amount = amount /\ docs'[d].voided = voided
  /\ docs'[d].token = docs[d].token + 1
  /\ \A e \in Docs : e # d => docs'[e] = docs[e]
  /\ UNCHANGED Existing

ShowsInv(amount, status) ==
  inv' # None /\ inv'.amount = amount /\ inv'.status = status

LEMMA DocWritten ==
  ASSUME TypeInv, NEW d \in Existing, NEW new \in DocType, WriteQbo(d, new),
         new.token = docs[d].token + 1
  PROVE  ShowsDoc(d, new.amount, new.voided) /\ UNCHANGED inv
<1>1. docs' = [docs EXCEPT ![d] = new] /\ UNCHANGED inv /\ d \in Docs
  BY DEF WriteQbo, Existing
<1>2. docs \in [Docs -> DocType \cup {None}] /\ docs[d] # None
  BY DEF TypeInv, StoresFit, Existing
<1>3. docs'[d] = new /\ \A e \in Docs : e # d => docs'[e] = docs[e]
  BY <1>1, <1>2
<1>4. docs'[d] # None
  BY <1>3, NoneIsNoRecord
<1>5. UNCHANGED Existing
  BY <1>1, <1>2, <1>3, <1>4 DEF Existing
<1> QED BY <1>1, <1>3, <1>4, <1>5 DEF ShowsDoc

LEMMA PushShows ==
  ASSUME TypeInv, NEW d \in Existing, NEW a \in Shown,
         \/ WriteQbo(d, Pushed(d, a)) \/ WriteQbo(d, [Pushed(d, a) EXCEPT !.edited = TRUE])
  PROVE  ShowsDoc(d, a, docs[d].voided) /\ UNCHANGED inv
<1> DEFINE new1 == Pushed(d, a)
           new2 == [new1 EXCEPT !.edited = TRUE]
<1>1. docs[d] \in DocType /\ new1 \in DocType
  BY ReadFits, PushedFits DEF TypeInv
<1>2. new1.amount = a /\ new1.voided = docs[d].voided /\ new1.token = docs[d].token + 1
  BY <1>1 DEF Pushed, DocType
<1>3. WriteQbo(d, new1) \/ WriteQbo(d, new2)
  OBVIOUS
<1> HIDE DEF new1
<1>4. /\ new2 \in DocType /\ new2.amount = a /\ new2.voided = docs[d].voided
      /\ new2.token = docs[d].token + 1
  BY <1>1, <1>2 DEF DocType
<1> HIDE DEF new2
<1>5. CASE WriteQbo(d, new1)
  <2>1. ShowsDoc(d, new1.amount, new1.voided) /\ UNCHANGED inv
    BY <1>1, <1>2, <1>5, DocWritten
  <2> QED BY <1>2, <2>1
<1>6. CASE WriteQbo(d, new2)
  <2>1. ShowsDoc(d, new2.amount, new2.voided) /\ UNCHANGED inv
    BY <1>4, <1>6, DocWritten
  <2> QED BY <1>4, <2>1
<1> QED BY <1>3, <1>5, <1>6

LEMMA VoidShows ==
  ASSUME TypeInv, NEW d \in Existing, WriteQbo(d, Voided(d))
  PROVE  ShowsDoc(d, Zero, TRUE) /\ UNCHANGED inv
<1> DEFINE new == Voided(d)
<1>1. docs[d] \in DocType /\ new \in DocType
  BY ReadFits, VoidedFits DEF TypeInv
<1>2. new.amount = Zero /\ new.voided = TRUE /\ new.token = docs[d].token + 1
  BY <1>1 DEF Voided, DocType
<1>3. WriteQbo(d, new)
  OBVIOUS
<1> HIDE DEF new
<1>4. ShowsDoc(d, new.amount, new.voided) /\ UNCHANGED inv
  BY <1>1, <1>2, <1>3, DocWritten
<1> QED BY <1>2, <1>4

LEMMA TouchShows ==
  ASSUME TypeInv, NEW d \in Existing, WriteQbo(d, [docs[d] EXCEPT !.token = @ + 1])
  PROVE  ShowsDoc(d, docs[d].amount, docs[d].voided) /\ UNCHANGED inv
<1> DEFINE new == [docs[d] EXCEPT !.token = @ + 1]
<1>1. docs[d] \in DocType
  BY ReadFits DEF TypeInv
<1>2. docs[d].token + 1 \in Nat
  BY <1>1 DEF DocType
<1>3. /\ new \in DocType /\ new.amount = docs[d].amount /\ new.voided = docs[d].voided
      /\ new.token = docs[d].token + 1
  BY <1>1, <1>2 DEF DocType
<1>4. WriteQbo(d, new)
  OBVIOUS
<1> HIDE DEF new
<1>5. ShowsDoc(d, new.amount, new.voided) /\ UNCHANGED inv
  BY <1>3, <1>4, DocWritten
<1> QED BY <1>3, <1>5

\* The first invoice under our DocNumber.
LEMMA CreateShows ==
  ASSUME TypeInv, Existing = {}, NEW w \in Workers, ForwardCreate(w)
  PROVE  \E d \in Docs : \E doc \in ReadType :
           /\ Existing' = {d} /\ UNCHANGED inv
           /\ docs'[d].amount = job[w].inv.amount /\ docs'[d].voided = FALSE
           /\ docs'[d].token = 0
           /\ doc.id = d /\ doc.amount = job[w].inv.amount /\ doc.voided = FALSE /\ doc.token = 0
           /\ Moved(w, "save", job[w].subject, job[w].inv, job[w].link, doc)
<1> DEFINE i == job[w].inv
<1>1. i \in InvoiceType
  BY DEF ForwardCreate, At, TypeInv, JobsFit, JobFits, InvPc
<1>2. PICK d \in Docs :
        /\ WriteQbo(d, [amount |-> i.amount, voided |-> FALSE, token |-> 0,
                        rid |-> i.version, edited |-> FALSE])
        /\ job' = [job EXCEPT ![w].pc = "save",
                     ![w].doc = [id |-> d, amount |-> i.amount, voided |-> FALSE, token |-> 0]]
  BY DEF ForwardCreate, ServedBefore
<1> DEFINE new == [amount |-> i.amount, voided |-> FALSE, token |-> 0,
                   rid |-> i.version, edited |-> FALSE]
           doc == [id |-> d, amount |-> i.amount, voided |-> FALSE, token |-> 0]
<1>3. /\ new \in DocType /\ new.amount = i.amount /\ new.voided = FALSE /\ new.token = 0
      /\ doc \in ReadType
      /\ doc.id = d /\ doc.amount = i.amount /\ doc.voided = FALSE /\ doc.token = 0
  BY <1>1 DEF DocType, ReadType, InvoiceType
<1>4. WriteQbo(d, new) /\ job' = [job EXCEPT ![w] = [job[w] EXCEPT !.pc = "save", !.doc = doc]]
  BY <1>2
<1> HIDE DEF new, doc, i
<1>5. docs' = [docs EXCEPT ![d] = new] /\ UNCHANGED inv
  BY <1>4 DEF WriteQbo
<1>6. docs' [d] = new /\ Existing' = {d}
  <2>1. docs'[d] = new /\ new # None /\ \A e \in Docs : e # d => docs'[e] = None
    BY <1>3, <1>5, NoneIsNoRecord DEF TypeInv, StoresFit, Existing
  <2> QED BY <2>1 DEF Existing
<1>7. Moved(w, "save", job[w].subject, job[w].inv, job[w].link, doc)
  BY <1>4, MovesDoc
<1> QED BY <1>3, <1>5, <1>6, <1>7 DEF i

LEMMA AmountShows ==
  ASSUME TypeInv, inv # None, NEW a \in Shown, WriteInternal(WithAmount(a))
  PROVE  ShowsInv(a, "open") /\ UNCHANGED docs
<1>1. inv \in InvoiceType /\ WithAmount(a) \in InvoiceType
  BY WrittenFits DEF TypeInv, StoresFit
<1>2. WithAmount(a).amount = a /\ WithAmount(a).status = "open"
  BY <1>1 DEF WithAmount, InvoiceType
<1>3. WithAmount(a) # None
  BY <1>1, NoneIsNoRecord
<1> QED BY <1>2, <1>3 DEF ShowsInv, WriteInternal

LEMMA DeleteShows ==
  ASSUME TypeInv, inv # None, WriteInternal(Deleted)
  PROVE  ShowsInv(inv.amount, "deleted") /\ UNCHANGED docs
<1>1. inv \in InvoiceType /\ inv.amount \in Shown
  BY DEF TypeInv, StoresFit, InvoiceType
<1>2. Deleted \in InvoiceType
  BY <1>1, WrittenFits DEF TypeInv
<1>3. Deleted.amount = inv.amount /\ Deleted.status = "deleted" /\ Deleted # None
  BY <1>1, <1>2, NoneIsNoRecord DEF Deleted, InvoiceType
<1> QED BY <1>3 DEF ShowsInv, WriteInternal

LEMMA ReadShows ==
  ASSUME TypeInv, NEW d \in Existing
  PROVE  /\ Read(d).id = d /\ Read(d).amount = docs[d].amount
         /\ Read(d).voided = docs[d].voided /\ Read(d).token = docs[d].token
         /\ CanonicalFromQbo(Read(d)) = CanonicalFromQbo(docs[d])
  BY DEF Read, CanonicalFromQbo

\* What a handler decides, and what the sides then look like against the snapshot.
LEMMA DecideMeans ==
  ASSUME NEW source \in Sources, NEW lnk \in LinkType, lnk.snapshot # None, NEW i, NEW doc
  PROVE  LET to == Decide(source, lnk, i, doc)
             s  == lnk.snapshot
             a  == CanonicalFromInternal(i)
             q  == CanonicalFromQbo(doc)
         IN  /\ to \in {"apply", "save", "saveSkip", "mark", "finish"}
             /\ to = "apply" => /\ source = "internal" => q = s /\ a # s
                                /\ source = "quickbooks" => a = s /\ q # s
             /\ to = "save" => a = q
             /\ to = "saveSkip" => /\ source = "internal" => a = s
                                   /\ source = "quickbooks" => q = s
             /\ to = "mark" => a # s /\ q # s /\ a # q
             /\ to = "finish" => lnk.status = "conflict"
<1> DEFINE s  == lnk.snapshot
           a  == CanonicalFromInternal(i)
           q  == CanonicalFromQbo(doc)
           outcome == Analyze(s, a, q)
           to == Decide(source, lnk, i, doc)
<1>1. to = IF lnk.status = "conflict"
           THEN IF outcome \in {"converged", "neither"} THEN "save" ELSE "finish"
           ELSE CASE ActionFor(source, outcome) = "apply"     -> "apply"
                  [] ActionFor(source, outcome) = "conflict"  -> "mark"
                  [] ActionFor(source, outcome) = "converged" -> "save"
                  [] ActionFor(source, outcome) = "skip"      -> "saveSkip"
  BY DEF Decide
<1>2. \/ outcome = "neither" /\ a = s /\ q = s
      \/ outcome = "internal-only" /\ a # s /\ q = s
      \/ outcome = "qbo-only" /\ a = s /\ q # s
      \/ outcome = "converged" /\ a # s /\ q # s /\ a = q
      \/ outcome = "conflict" /\ a # s /\ q # s /\ a # q
  <2> HIDE DEF a, q
  <2> QED BY Outcomes
<1>3. lnk.status \in {"linked", "conflict"}
  BY DEF LinkType
<1> HIDE DEF outcome, s, a, q, to
<1>4. ActionFor(source, outcome) =
        CASE outcome = "neither" -> "skip"
          [] outcome = "internal-only" -> IF source = "internal" THEN "apply" ELSE "skip"
          [] outcome = "qbo-only" -> IF source = "internal" THEN "skip" ELSE "apply"
          [] outcome = "converged" -> "converged"
          [] outcome = "conflict" -> "conflict"
  BY <1>2 DEF ActionFor, OwnChange, Sources
<1>5. /\ to \in {"apply", "save", "saveSkip", "mark", "finish"}
      /\ to = "apply" => /\ source = "internal" => q = s /\ a # s
                         /\ source = "quickbooks" => a = s /\ q # s
      /\ to = "save" => a = q
      /\ to = "saveSkip" => /\ source = "internal" => a = s
                            /\ source = "quickbooks" => q = s
      /\ to = "mark" => a # s /\ q # s /\ a # q
      /\ to = "finish" => lnk.status = "conflict"
  BY <1>1, <1>2, <1>3, <1>4 DEF Sources
<1> QED BY <1>5 DEF s, a, q, to
--------------------------------------------------------------------------------
(***************************************************************************)
(* What people do, in the terms of the invariants below: which side shows  *)
(* what, how often a side was changed, and what of the ledger is announced. *)
(***************************************************************************)
Changes == {"edit", "delete", "qboEdit", "void"}

\* One change of kind k is made, or none when k is no change of what is synced.
Counts(k) == \A c \in Changes : used'[c] = IF c = k THEN used[c] + 1 ELSE used[c]

LedgerStep ==
  /\ UNCHANGED <<docs, link, queue, dead, job, rec, op>>
  /\ inv' # None /\ sent'[Internal] >= sent[Internal]
  /\ \/ inv = None /\ inv'.status = "open" /\ Counts("none")
     \/ Editable /\ inv'.status = "open" /\ Counts("edit")
     \/ /\ Editable \/ (inv # None /\ inv.status = "open")
        /\ inv'.status = "open" /\ inv'.amount = inv.amount /\ Counts("other")
     \/ /\ inv # None /\ ShowsInv(inv.amount, "deleted") /\ Counts("delete")
        /\ sent'[Internal] > 0

QboStep ==
  /\ UNCHANGED <<inv, link, queue, dead, job, rec, op>>
  /\ sent'[Internal] = sent[Internal]
  /\ \E d \in Existing, a \in Shown :
       \/ /\ ~docs[d].voided /\ docs[d].amount # a /\ ShowsDoc(d, a, FALSE)
          /\ Counts("qboEdit") /\ used["qboEdit"] < MaxQboEdits
       \/ ~docs[d].voided /\ ShowsDoc(d, Zero, TRUE) /\ Counts("void")
       \/ ShowsDoc(d, docs[d].amount, docs[d].voided) /\ Counts("touch") /\ MaxTouches # 0

LEMMA SpendCounts ==
  ASSUME TypeInv, NEW k \in DOMAIN Limit, Spend(k)
  PROVE  Counts(k)
<1>1. used' = [used EXCEPT ![k] = @ + 1] /\ used \in [DOMAIN Limit -> Nat]
  BY DEF Spend, TypeInv, StoresFit
<1>2. Changes \subseteq DOMAIN Limit
  BY Bounds DEF Changes
<1> QED BY <1>1, <1>2 DEF Counts

\* What a bound of zero rules out.
LEMMA Unspent ==
  ASSUME TypeInv, NEW k \in DOMAIN Limit, Spend(k)
  PROVE  Limit[k] # 0
  BY DEF Spend, TypeInv, StoresFit

LEMMA Announced ==
  ASSUME TypeInv, NEW s \in Subjects, Announce(s)
  PROVE  /\ sent'[s] = sent[s] + 1 /\ sent[s] \in Nat
         /\ \A x \in Subjects : x # s => sent'[x] = sent[x]
  BY DEF TypeInv, StoresFit, Announce

LEMMA PeopleShow ==
  ASSUME TypeInv, MaxEntries = 0, People
  PROVE  LedgerStep \/ QboStep
<1>n. Internal \in Subjects /\ Docs \subseteq Subjects /\ Internal \notin Docs
  BY NamesDiffer DEF Subjects
<1>a. Amounts \subseteq Shown
  BY DEF Shown
<1>s. sent[Internal] \in Nat
  BY <1>n DEF TypeInv, StoresFit
<1>i. ASSUME NEW new, WriteInternal(new)
      PROVE  sent'[Internal] > 0 /\ sent'[Internal] >= sent[Internal] /\ UNCHANGED docs
  BY <1>n, <1>i, Announced DEF WriteInternal
<1>q. ASSUME NEW d \in Docs, NEW new, WriteQbo(d, new)
      PROVE  sent'[Internal] = sent[Internal] /\ UNCHANGED inv
  BY <1>n, <1>q, Announced DEF WriteQbo
<1>1. ASSUME NEW a \in Amounts, CreateInvoice(a) PROVE LedgerStep
  <2> DEFINE new == [amount |-> a, name |-> 0, paid |-> 0, status |-> "open", version |-> 1]
  <2>1. new \in InvoiceType /\ new.status = "open" BY <1>a DEF InvoiceType
  <2>2. WriteInternal(new) BY <1>1 DEF CreateInvoice
  <2> HIDE DEF new
  <2>3. inv' = new /\ new # None BY <2>1, <2>2, NoneIsNoRecord DEF WriteInternal
  <2>4. Counts("none") BY <1>1 DEF CreateInvoice, Counts, Changes
  <2> QED BY <1>1, <1>i, <2>1, <2>2, <2>3, <2>4 DEF CreateInvoice, LedgerStep
<1>2. ASSUME NEW a \in Amounts, EditInternal(a) PROVE LedgerStep
  <2>1. ShowsInv(a, "open") BY <1>2, <1>a, AmountShows DEF EditInternal, Editable
  <2>2. Counts("edit") BY <1>2, SpendCounts, Bounds DEF EditInternal
  <2> QED BY <1>2, <1>i, <2>1, <2>2 DEF EditInternal, LedgerStep, ShowsInv
<1>3. CASE RenameCustomer
  <2> DEFINE i == WithAmount(inv.amount)
  <2>1. inv \in InvoiceType /\ inv.amount \in Shown
    BY <1>3 DEF RenameCustomer, Editable, TypeInv, StoresFit, InvoiceType
  <2>2. i \in InvoiceType
    BY <1>3, <2>1, WrittenFits DEF RenameCustomer, Editable, TypeInv
  <2>3. i.amount = inv.amount /\ i.status = "open"
    BY <2>1 DEF WithAmount, InvoiceType
  <2> DEFINE new == [i EXCEPT !.name = 1 - @]
  <2>4. WriteInternal(new)
    BY <1>3 DEF RenameCustomer
  <2> HIDE DEF i
  <2>5. 1 - i.name \in 0..1 BY <2>2 DEF InvoiceType
  <2>6. new \in InvoiceType /\ new.amount = inv.amount /\ new.status = "open"
    BY <2>2, <2>3, <2>5 DEF InvoiceType
  <2> HIDE DEF new
  <2>7. inv' = new /\ new # None BY <2>4, <2>6, NoneIsNoRecord DEF WriteInternal
  <2>8. Counts("other") BY <1>3, SpendCounts, Bounds DEF RenameCustomer
  <2> QED BY <1>3, <1>i, <2>4, <2>6, <2>7, <2>8 DEF RenameCustomer, LedgerStep
<1>4. CASE RecordPayment
  <2>1. inv \in InvoiceType /\ inv.paid + 1 \in Nat /\ inv.version + 1 \in Nat
    BY <1>4 DEF RecordPayment, TypeInv, StoresFit, InvoiceType
  <2>2. inv' = [inv EXCEPT !.paid = @ + 1, !.version = @ + 1]
    BY <1>4 DEF RecordPayment
  <2>3. inv' \in InvoiceType /\ inv'.amount = inv.amount /\ inv'.status = inv.status
    BY <2>1, <2>2 DEF InvoiceType
  <2>4. inv' # None BY <2>3, NoneIsNoRecord
  <2>5. Counts("other") BY <1>4, SpendCounts, Bounds DEF RecordPayment
  <2> QED BY <1>4, <1>s, <2>3, <2>4, <2>5 DEF RecordPayment, LedgerStep, outbox
<1>5. CASE DeleteInternal
  <2>1. ShowsInv(inv.amount, "deleted") BY <1>5, DeleteShows DEF DeleteInternal
  <2>2. Counts("delete") BY <1>5, SpendCounts, Bounds DEF DeleteInternal
  <2> QED BY <1>5, <1>i, <2>1, <2>2 DEF DeleteInternal, LedgerStep, ShowsInv
<1>6. ASSUME NEW d \in Docs, NEW a \in Amounts, QboEdit(d, a) PROVE QboStep
  <2>1. d \in Existing /\ ~docs[d].voided /\ docs[d].amount # a /\ docs[d] \in DocType
    BY <1>6, ReadFits DEF QboEdit, TypeInv
  <2>2. ShowsDoc(d, a, FALSE)
    <3>1. ShowsDoc(d, a, docs[d].voided) BY <1>6, <1>a, <2>1, PushShows DEF QboEdit
    <3>2. docs[d].voided = FALSE BY <2>1 DEF DocType
    <3> QED BY <3>1, <3>2
  <2>3. Counts("qboEdit") BY <1>6, SpendCounts, Bounds DEF QboEdit
  <2>4. used["qboEdit"] < MaxQboEdits BY <1>6 DEF QboEdit, Spend, Limit
  <2> QED BY <1>6, <1>a, <1>q, <2>1, <2>2, <2>3, <2>4 DEF QboEdit, QboStep
<1>7. ASSUME NEW d \in Docs, NEW a \in Amounts PROVE ~QboEnter(d, a)
  BY Unspent, Bounds DEF QboEnter, Limit
<1>8. ASSUME NEW d \in Docs, QboVoid(d) PROVE QboStep
  <2>1. d \in Existing /\ ~docs[d].voided /\ Zero \in Shown BY <1>8 DEF QboVoid, Shown
  <2>2. ShowsDoc(d, Zero, TRUE) BY <1>8, <2>1, VoidShows DEF QboVoid
  <2>3. Counts("void") BY <1>8, SpendCounts, Bounds DEF QboVoid
  <2> QED BY <1>8, <1>q, <2>1, <2>2, <2>3 DEF QboVoid, QboStep
<1>9. ASSUME NEW d \in Docs, QboTouch(d) PROVE QboStep
  <2>1. d \in Existing /\ Zero \in Shown BY <1>9 DEF QboTouch, Shown
  <2>2. ShowsDoc(d, docs[d].amount, docs[d].voided) BY <1>9, <2>1, TouchShows DEF QboTouch
  <2>3. Counts("touch") BY <1>9, SpendCounts, Bounds DEF QboTouch
  <2>4. MaxTouches # 0 BY <1>9, Unspent, Bounds DEF QboTouch, Limit
  <2> QED BY <1>9, <1>q, <2>1, <2>2, <2>3, <2>4 DEF QboTouch, QboStep
<1> QED
  BY <1>1, <1>2, <1>3, <1>4, <1>5, <1>6, <1>7, <1>8, <1>9 DEF People
--------------------------------------------------------------------------------
(***************************************************************************)
(* One worker when nothing fails, nobody enters an invoice under our       *)
(* DocNumber and the reconciler keeps out of the worker's way: the link    *)
(* and the one invoice in QuickBooks belong together, and what the handler *)
(* has read of them is what they are, or a version of theirs.              *)
(***************************************************************************)
Orderly ==
  /\ Alone /\ MaxFaults = 0 /\ MaxEntries = 0
  /\ ~Reconciling \/ ~Overlap

ForwardPc == {"link", "find", "create", "read", "push", "readToVoid", "void"}
ReversePc == {"linkByQbo", "refetch", "apply", "remove"}
HeldPc    == {"read", "readToVoid", "refetch", "push", "void", "apply", "remove", "saveSkip",
              "mark"}
ScanPc    == {"list", "filter", "match"}

\* The invoice is created once, the link is its, and only the create's own handler is ever
\* between the two.
StoreCore ==
  /\ op.pc = "idle"
  /\ \A d, e \in Existing : d = e
  /\ link = None /\ Existing # {} =>
       \E w \in Workers : At(w, "save") /\ job[w].subject = Internal
  /\ link # None => link.snapshot # None

\* The reconciler finds no candidate.
ScanCore ==
  /\ ~Reconciling => rec.pc = "idle"
  /\ rec.pc \in ScanPc => \A w \in Workers : job[w].subject # Internal
  /\ rec.pc = "filter" => rec.found = {} \/ link # None
  /\ rec.pc = "match" => rec.found = {}

JobCore(w) ==
  LET j == job[w]
      q == docs[j.doc.id]
  IN  /\ j.pc \in ForwardPc => j.subject = Internal
      /\ j.pc \in ReversePc => j.subject # Internal
      /\ j.pc \in {"find", "create"} => link = None /\ Existing = {}
      /\ j.pc \in HeldPc => j.link = link
      /\ j.pc = "push" => CanonicalFromQbo(j.doc) = link.snapshot
      /\ j.pc \in DocPc =>
           /\ j.doc.token <= q.token
           /\ j.doc.voided => q.voided
           /\ j.pc # "save" /\ j.doc.token = q.token =>
                j.doc.amount = q.amount /\ j.doc.voided = q.voided

Core == StoreCore /\ ScanCore /\ \A w \in Workers : JobCore(w)

LEMMA CoreInit == Orderly /\ Init => Core
  BY DEF Init, Core, StoreCore, ScanCore, JobCore, IdleOp, IdleRec, IdleJob, Existing, ForwardPc,
     ReversePc, HeldPc, ScanPc, DocPc

\* Every step is a person's, the worker's, or leaves the invoice alone.
LEMMA OrderlyStep ==
  ASSUME Orderly, TypeInv, Core, [Next]_vars, op'.pc = "idle"
  PROVE  \/ LedgerStep \/ QboStep
         \/ \E w \in Workers : Worker(w)
         \/ /\ UNCHANGED <<books, link, job, op>>
            /\ \A k \in Changes : used'[k] = used[k]
            /\ \/ UNCHANGED <<sent, queue, dead, used>> /\ rec' = rec
               \/ \E s \in Subjects : Deliver(s) \/ Lose(s)
               \/ Reconciler /\ Reconciling
<1>1. CASE People
  BY <1>1, PeopleShow DEF Orderly
<1>2. CASE \E s \in Subjects : Deliver(s) \/ Lose(s)
  <2>1. ASSUME NEW s \in Subjects, Deliver(s) \/ Lose(s)
        PROVE  UNCHANGED <<books, link, job, op>> /\ \A k \in Changes : used'[k] = used[k]
    <3>1. UNCHANGED used \/ Counts("drop")
      BY <2>1, SpendCounts, Bounds DEF Deliver, Lose
    <3>2. \A k \in Changes : used'[k] = used[k]
      BY <3>1 DEF Counts, Changes
    <3> QED BY <2>1, <3>2 DEF Deliver, Lose
  <2> QED BY <1>2, <2>1
<1>3. CASE \E w \in Workers : Worker(w)
  BY <1>3
<1>4. ASSUME NEW k, k = "fault" PROVE ~Spend(k)
  BY <1>4, Unspent, Bounds DEF Orderly, Limit
<1>5. CASE RecFails \/ ResolveFails \/ \E w \in Workers : Interrupt(w)
  BY <1>4, <1>5 DEF RecFails, ResolveFails, Interrupt
<1>6. CASE Reconciler
  <2>1. Reconciling
    BY <1>6 DEF Core, ScanCore, Reconciler, RecStart, RecHasLink, RecPending, RecList, RecFilter,
       RecMatch, RecLinks, RecDrift, RecRead, RecRefetch
  <2>2. RecMatch => UNCHANGED link
    <3> SUFFICES ASSUME RecMatch PROVE UNCHANGED link
      OBVIOUS
    <3>1. rec.found = {} BY DEF RecMatch, Core, ScanCore
    <3> QED BY <3>1 DEF RecMatch
  <2>3. UNCHANGED <<books, link, job, op, used>>
    BY <1>6, <2>2 DEF Reconciler, RecStart, RecHasLink, RecPending, RecList, RecFilter,
       RecMatch, RecLinks, RecDrift, RecRead, RecRefetch
  <2> QED BY <1>6, <2>1, <2>3
<1>7. CASE ResolveStart \/ Resolve
  <2>1. op.pc = "idle" /\ ~Resolve
    BY DEF Core, StoreCore, Resolve, ResolveRefetch, ResolveRead, InternalWins, QuickbooksWins,
       ResolveSave
  <2>2. ResolveStart => op'.pc = "refetch"
    BY DEF TypeInv, OpFits, ResolveStart
  <2> QED BY <1>7, <2>1, <2>2
<1>8. CASE UNCHANGED vars
  BY <1>8 DEF vars, outbox
<1> QED BY <1>1, <1>2, <1>3, <1>5, <1>6, <1>7, <1>8 DEF Next

LEMMA OneJob == ASSUME Alone, NEW w \in Workers PROVE Workers = {w}
  BY DEF Alone
--------------------------------------------------------------------------------
\* Nobody else gets in the way of what the worker holds.
LEMMA CoreFrame ==
  ASSUME TypeInv, Core, UNCHANGED <<link, job, op, rec>>, UNCHANGED Existing,
         \A d \in Existing :
           \/ docs'[d] = docs[d]
           \/ docs'[d].token = docs[d].token + 1 /\ (docs[d].voided => docs'[d].voided)
  PROVE  Core'
<1>1. ASSUME NEW w \in Workers PROVE JobCore(w)'
  <2> DEFINE j == job[w]
             d == j.doc.id
  <2>1. JobCore(w) /\ JobFits(j) /\ job'[w] = job[w]
    BY DEF Core, TypeInv, JobsFit
  <2>2. CASE j.pc \in DocPc
    <3>1. d \in Existing /\ docs[d] \in DocType /\ j.doc \in ReadType
      BY <2>1, <2>2, ReadFits DEF JobFits, TypeInv
    <3>2. docs[d].token \in Nat /\ j.doc.token \in Nat
      BY <3>1 DEF DocType, ReadType
    <3> QED BY <2>1, <2>2, <3>1, <3>2 DEF JobCore
  <2>3. CASE j.pc \notin DocPc
    BY <2>1, <2>3 DEF JobCore, DocPc
  <2> QED BY <2>2, <2>3
<1>2. StoreCore' BY DEF Core, StoreCore, At
<1>3. ScanCore' BY DEF Core, ScanCore
<1> QED BY <1>1, <1>2, <1>3 DEF Core

LEMMA CorePeople ==
  ASSUME TypeInv, Core, LedgerStep \/ QboStep
  PROVE  Core'
<1>1. CASE LedgerStep
  BY <1>1, CoreFrame DEF LedgerStep, Existing
<1>2. CASE QboStep
  <2>1. PICK d \in Existing, a \in Shown :
          \/ /\ ~docs[d].voided /\ docs[d].amount # a /\ ShowsDoc(d, a, FALSE)
             /\ Counts("qboEdit") /\ used["qboEdit"] < MaxQboEdits
          \/ ~docs[d].voided /\ ShowsDoc(d, Zero, TRUE) /\ Counts("void")
          \/ ShowsDoc(d, docs[d].amount, docs[d].voided) /\ Counts("touch") /\ MaxTouches # 0
    BY <1>2 DEF QboStep
  <2>2. /\ UNCHANGED Existing /\ docs'[d].token = docs[d].token + 1
        /\ docs[d].voided => docs'[d].voided
        /\ \A e \in Docs : e # d => docs'[e] = docs[e]
    BY <2>1 DEF ShowsDoc
  <2>3. Existing \subseteq Docs
    BY DEF Existing
  <2> QED BY <1>2, <2>2, <2>3, CoreFrame DEF QboStep
<1> QED BY <1>1, <1>2

LEMMA CoreReconciler ==
  ASSUME Orderly, TypeInv, Core, UNCHANGED <<books, link, job, op>>, Reconciler
  PROVE  Core'
<1>1. UNCHANGED Existing BY DEF books, Existing
<1>2. StoreCore' BY <1>1 DEF Core, StoreCore, At
<1>3. \A w \in Workers : JobCore(w)' BY <1>1 DEF Core, JobCore, books
<1>4. ScanCore'
  <2> DEFINE free == \A w \in Workers : job[w].subject # Internal
  <2>1. Reconciling /\ ScanCore /\ StoreCore
    BY DEF Core, ScanCore, Reconciler, RecStart, RecHasLink, RecPending, RecList, RecFilter,
       RecMatch, RecLinks, RecDrift, RecRead, RecRefetch
  <2>2. CASE RecPending
    <3>1. rec' = [rec EXCEPT !.pc = IF Pending(Internal) THEN "links" ELSE "list"]
      BY <2>2 DEF RecPending, RecGoto
    <3>2. rec'.pc = IF Pending(Internal) THEN "links" ELSE "list"
      BY <3>1 DEF TypeInv, RecFits
    <3>3. ~Pending(Internal) => free
      BY DEF Pending
    <3> QED BY <2>1, <3>2, <3>3 DEF ScanCore, ScanPc
  <2>3. CASE RecList
    <3>1. rec'.pc = "filter" /\ rec'.found = {Read(d) : d \in Existing} /\ free
      BY <2>1, <2>3 DEF RecList, TypeInv, RecFits, ScanCore, ScanPc
    <3>2. link = None => Existing = {}
      BY <2>1, <3>1 DEF StoreCore
    <3>3. rec'.found = {} \/ link # None
      BY <3>1, <3>2
    <3> QED BY <2>1, <3>1, <3>3 DEF ScanCore, ScanPc
  <2>4. CASE RecFilter
    <3>1. /\ rec'.pc = "match" /\ free
          /\ rec'.found = {m \in rec.found : link = None \/ link.doc # m.id}
      BY <2>1, <2>4 DEF RecFilter, TypeInv, RecFits, ScanCore, ScanPc
    <3>2. rec.found = {} \/ link # None
      BY <2>1, <2>4 DEF RecFilter, ScanCore
    <3>3. link # None => \A m \in rec.found : link.doc = m.id
      BY <2>1 DEF StoreCore, TypeInv, RecFits, StoresAgree
    <3>4. rec'.found = {}
      BY <3>1, <3>2, <3>3
    <3> QED BY <2>1, <3>1, <3>4 DEF ScanCore, ScanPc
  <2>5. CASE ~(RecPending \/ RecList \/ RecFilter)
    <3>1. CASE RecStart
      <4>1. rec' = [IdleRec EXCEPT !.inv = inv,
                      !.pc = IF inv.status = "deleted" THEN "links" ELSE "hasLink"]
        BY <3>1 DEF RecStart
      <4> QED BY <2>1, <4>1 DEF IdleRec, ScanCore, ScanPc
    <3>2. CASE RecLinks
      <4>1. rec' = IF link # None /\ link.status = "linked"
                   THEN [IdleRec EXCEPT !.link = link, !.pc = "drift"] ELSE IdleRec
        BY <3>2 DEF RecLinks
      <4>2. rec'.pc \in {"drift", "idle"}
        BY <4>1 DEF IdleRec
      <4> QED BY <2>1, <4>2 DEF ScanCore, ScanPc
    <3>3. ASSUME NEW pc \in {"links", "pending", "refetch", "read"}, RecGoto(pc) PROVE ScanCore'
      <4>1. rec'.pc = pc
        BY <3>3 DEF RecGoto, TypeInv, RecFits
      <4> QED BY <2>1, <4>1 DEF ScanCore, ScanPc
    <3>4. ASSUME rec' = IdleRec PROVE ScanCore'
      BY <2>1, <3>4 DEF IdleRec, ScanCore, ScanPc
    <3>5. CASE RecHasLink \/ RecMatch
      BY <3>3, <3>5 DEF RecHasLink, RecMatch
    <3>6. CASE RecDrift
      BY <3>3, <3>4, <3>6 DEF RecDrift
    <3>7. CASE RecRead \/ RecRefetch
      BY <3>3, <3>4, <3>7 DEF RecRead, RecRefetch
    <3> QED BY <2>5, <3>1, <3>2, <3>5, <3>6, <3>7 DEF Reconciler
  <2> QED BY <2>2, <2>3, <2>4, <2>5
<1> QED BY <1>2, <1>3, <1>4 DEF Core

LEMMA LinkedAnew ==
  ASSUME TypeInv, NEW w \in Workers, Save(w)
  PROVE  LET j == job[w] IN
         /\ link' = SyncedLink(j.doc.id, j.inv, j.doc.token)
         /\ link' # None /\ link'.doc = j.doc.id /\ link'.qver = j.doc.token
         /\ link'.status = "linked" /\ link'.hash = Hash(j.inv)
         /\ link'.snapshot = CanonicalFromInternal(j.inv) /\ link'.snapshot # None
         /\ UNCHANGED <<books, outbox, rec, op, used>>
<1> DEFINE j == job[w]
<1>1. j.inv \in InvoiceType /\ j.doc \in ReadType
  BY DEF Save, WriteLink, At, TypeInv, JobsFit, JobFits, InvPc, DocPc
<1>2. link' = SyncedLink(j.doc.id, j.inv, j.doc.token) /\ UNCHANGED <<books, outbox, rec, op, used>>
  BY DEF Save, WriteLink
<1>3. SyncedLink(j.doc.id, j.inv, j.doc.token) \in LinkType
  BY <1>1, SyncedFits DEF ReadType
<1>4. CanonicalFromInternal(j.inv) \in CanonicalType
  BY <1>1 DEF CanonicalFromInternal, CanonicalType, InvoiceType
<1> QED BY <1>2, <1>3, <1>4, NoneIsNoRecord DEF SyncedLink

LEMMA LinkPatched ==
  ASSUME TypeInv, NEW w \in Workers, SaveSkip(w) \/ Mark(w)
  PROVE  LET j == job[w] IN
         /\ link # None /\ link' # None /\ link'.snapshot = link.snapshot
         /\ UNCHANGED <<books, outbox, rec, op, used>>
         /\ SaveSkip(w) => /\ link'.doc = j.doc.id /\ link'.hash = Hash(j.inv)
                           /\ link'.status = "linked"
                           /\ link'.qver = IF j.subject = Internal THEN link.qver
                                           ELSE j.doc.token
         /\ Mark(w) => /\ link'.doc = link.doc /\ link'.status = "conflict"
                       /\ link'.hash = link.hash /\ link'.qver = link.qver
<1> DEFINE j == job[w]
<1>1. link # None /\ link \in LinkType /\ j \in JobType
  BY MovesWhole DEF SaveSkip, Mark, WriteLink, At, TypeInv, StoresFit, JobsFit, JobFits, LinkedPc
<1>2. CASE SaveSkip(w)
  <2> DEFINE hash == Hash(j.inv)
             qver == IF j.subject = Internal THEN link.qver ELSE j.doc.token
  <2>1. link' = [link EXCEPT !.doc = j.doc.id, !.hash = hash, !.status = "linked",
                             !.qver = qver]
    BY <1>2 DEF SaveSkip, WriteLink
  <2>2. j.pc = "saveSkip" BY <1>2 DEF SaveSkip, WriteLink, At
  <2>3. j.inv \in InvoiceType /\ j.doc \in ReadType
    BY <2>2 DEF TypeInv, JobsFit, JobFits, InvPc, DocPc
  <2>4. hash \in Shown \X (0..1) \X Nat \X {"open", "deleted"} /\ qver \in Nat
    BY <1>1, <2>3, HashFits DEF LinkType, ReadType
  <2>5. ~Mark(w) BY <2>2 DEF Mark, WriteLink, At
  <2>6. UNCHANGED <<books, outbox, rec, op, used>> BY <1>2 DEF SaveSkip, WriteLink
  <2> HIDE DEF hash, qver
  <2>7. /\ link' \in LinkType /\ link'.snapshot = link.snapshot /\ link'.doc = j.doc.id
        /\ link'.hash = hash /\ link'.status = "linked" /\ link'.qver = qver
    BY <1>1, <2>1, <2>3, <2>4 DEF LinkType, ReadType
  <2>8. link' # None BY <2>7, NoneIsNoRecord
  <2> QED BY <1>1, <2>5, <2>6, <2>7, <2>8 DEF hash, qver
<1>3. CASE Mark(w)
  <2>1. link' = [link EXCEPT !.status = "conflict"] /\ j.pc = "mark"
    BY <1>3 DEF Mark, WriteLink, At
  <2>2. ~SaveSkip(w) BY <2>1 DEF SaveSkip, WriteLink, At
  <2>3. UNCHANGED <<books, outbox, rec, op, used>> BY <1>3 DEF Mark, WriteLink
  <2>4. /\ link' \in LinkType /\ link'.snapshot = link.snapshot /\ link'.doc = link.doc
        /\ link'.status = "conflict" /\ link'.hash = link.hash /\ link'.qver = link.qver
    BY <1>1, <2>1 DEF LinkType
  <2>5. link' # None BY <2>4, NoneIsNoRecord
  <2> QED BY <1>1, <2>2, <2>3, <2>4, <2>5
<1> QED BY <1>2, <1>3

\* What the worker's writes of either side show.
LEMMA PushWrites ==
  ASSUME TypeInv, NEW w \in Workers, ForwardPush(w), Current(job[w].doc)
  PROVE  LET j == job[w] IN
         /\ ShowsDoc(j.doc.id, j.inv.amount, docs[j.doc.id].voided)
         /\ Moved(w, "save", j.subject, j.inv, j.link, Answered(j.doc))
         /\ UNCHANGED <<inv, link, queue, dead, rec, op, used>> /\ sent'[Internal] = sent[Internal]
<1> DEFINE j == job[w]
<1>1. j.doc.id \in Existing /\ j.inv.amount \in Shown
  BY DEF ForwardPush, At, TypeInv, JobsFit, JobFits, InvPc, DocPc, InvoiceType
<1>2. WriteQbo(j.doc.id, Pushed(j.doc.id, j.inv.amount)) /\ UNCHANGED <<link, queue, dead, rec, op, used>>
  BY DEF ForwardPush
<1>3. Internal \in Subjects /\ j.doc.id \in Subjects /\ j.doc.id # Internal
  BY <1>1, NamesDiffer DEF Subjects, Existing
<1>4. sent'[Internal] = sent[Internal]
  BY <1>2, <1>3, Announced DEF WriteQbo
<1> QED BY <1>1, <1>2, <1>4, PushShows, ForwardMoves

LEMMA VoidWrites ==
  ASSUME TypeInv, NEW w \in Workers, ForwardVoid(w), Current(job[w].doc)
  PROVE  LET j == job[w] IN
         /\ ShowsDoc(j.doc.id, Zero, TRUE)
         /\ Moved(w, "save", j.subject, j.inv, j.link, Answered(j.doc))
         /\ UNCHANGED <<inv, link, queue, dead, rec, op, used>> /\ sent'[Internal] = sent[Internal]
<1> DEFINE j == job[w]
<1>1. j.doc.id \in Existing
  BY DEF ForwardVoid, At, TypeInv, JobsFit, JobFits, DocPc
<1>2. WriteQbo(j.doc.id, Voided(j.doc.id)) /\ UNCHANGED <<link, queue, dead, rec, op, used>>
  BY DEF ForwardVoid
<1>3. Internal \in Subjects /\ j.doc.id \in Subjects /\ j.doc.id # Internal
  BY <1>1, NamesDiffer DEF Subjects, Existing
<1>4. sent'[Internal] = sent[Internal]
  BY <1>2, <1>3, Announced DEF WriteQbo
<1> QED BY <1>1, <1>2, <1>4, VoidShows, ForwardMoves

LEMMA PullWrites ==
  ASSUME TypeInv, NEW w \in Workers
  PROVE  LET j == job[w] IN
         /\ ReverseApply(w) => ShowsInv(j.doc.amount, "open")
                               /\ Moved(w, "save", j.subject, inv', j.link, j.doc)
         /\ ReverseRemove(w) => ShowsInv(inv.amount, "deleted")
                                /\ Moved(w, "save", j.subject, inv', j.link, j.doc)
         /\ ReverseApply(w) \/ ReverseRemove(w) =>
              /\ UNCHANGED <<docs, link, queue, dead, rec, op, used>>
              /\ sent'[Internal] > 0
<1> DEFINE j == job[w]
<1> USE DEF At
<1>1. ReverseApply(w) \/ ReverseRemove(w) => inv # None /\ j.doc \in ReadType
  BY DEF ReverseApply, ReverseRemove, ReverseWrite, TypeInv, StoresAgree, JobsFit, JobFits, DocPc,
     LinkedPc
<1>2. ASSUME ReverseApply(w)
      PROVE  /\ ShowsInv(j.doc.amount, "open")
             /\ Moved(w, "save", j.subject, inv', j.link, j.doc)
  <2>1. WriteInternal(WithAmount(j.doc.amount)) /\ j.doc.amount \in Shown
    BY <1>1, <1>2 DEF ReverseApply, ReverseWrite, ReadType
  <2> QED BY <1>1, <1>2, <2>1, AmountShows, ReverseMoves DEF WriteInternal
<1>3. ASSUME ReverseRemove(w)
      PROVE  /\ ShowsInv(inv.amount, "deleted")
             /\ Moved(w, "save", j.subject, inv', j.link, j.doc)
  <2>1. WriteInternal(Deleted)
    BY <1>3 DEF ReverseRemove, ReverseWrite
  <2> QED BY <1>1, <1>3, <2>1, DeleteShows, ReverseMoves DEF WriteInternal
<1>4. ASSUME ReverseApply(w) \/ ReverseRemove(w)
      PROVE  UNCHANGED <<docs, link, queue, dead, rec, op, used>> /\ sent'[Internal] > 0
  <2>1. Internal \in Subjects BY DEF Subjects
  <2>2. Announce(Internal)
    BY <1>4 DEF ReverseApply, ReverseRemove, ReverseWrite, WriteInternal
  <2> QED BY <1>4, <2>1, <2>2, Announced DEF ReverseApply, ReverseRemove, ReverseWrite, WriteInternal
<1> QED BY <1>2, <1>3, <1>4

LEMMA AnsweredShows ==
  ASSUME NEW doc \in ReadType
  PROVE  /\ Answered(doc).id = doc.id /\ Answered(doc).token = doc.token + 1
         /\ Answered(doc).amount = doc.amount /\ Answered(doc).voided = doc.voided
  BY DEF Answered, ReadType

\* The steps that only read.
Reads(w) ==
  \/ TakeForward(w) \/ ForwardLink(w) \/ ForwardRead(w) \/ ForwardFind(w) \/ ReadToVoid(w)
  \/ \E d \in Docs : TakeReverse(w, d)
  \/ ReverseLink(w) \/ ReverseRefetch(w) \/ Finish(w)
  \/ (ForwardPush(w) \/ ForwardVoid(w)) /\ ~Current(job[w].doc)

LEMMA ReadsWriteNothing ==
  ASSUME NEW w \in Workers, Reads(w)
  PROVE  /\ UNCHANGED <<inv, docs, link, sent, rec, op, used>>
         /\ \A v \in Workers : ~At(v, "save") \/ v # w
  BY DEF Reads, TakeForward, ForwardLink, ForwardRead, ForwardFind, ReadToVoid, TakeReverse,
     ReverseLink, ReverseRefetch, Finish, ForwardPush, ForwardVoid, Die, At, books, outbox
--------------------------------------------------------------------------------
\* The worker itself.
LEMMA CoreWorker ==
  ASSUME Orderly, TypeInv, TypeInv', Core, NEW w \in Workers, Worker(w)
  PROVE  Core'
<1> DEFINE j == job[w]
<1> USE DEF At
<1>w. Workers = {w}
  BY OneJob DEF Orderly
<1>j. /\ JobCore(w) /\ StoreCore /\ ScanCore /\ JobFits(j) /\ StoresAgree
      /\ link # None => link \in LinkType
      /\ j.pc # "save" /\ link = None => Existing = {}
  BY <1>w DEF Core, TypeInv, JobsFit, StoresFit, StoreCore
<1>t. \A d \in Existing : docs[d] \in DocType /\ docs[d].token \in Nat
  BY ReadFits DEF TypeInv, DocType
<1>d. j.pc \in DocPc => /\ j.doc \in ReadType /\ j.doc.id \in Existing /\ j.doc.token \in Nat
  BY <1>j DEF JobFits, ReadType
<1> USE DEF Moved, Dropped, ForwardPc, ReversePc, HeldPc, DocPc
\* The stores, when no link is written and no invoice created.
<1>s. ASSUME UNCHANGED <<link, op>>, UNCHANGED Existing, j.pc # "save" PROVE StoreCore'
  BY <1>j, <1>s DEF StoreCore
<1>c. ASSUME UNCHANGED rec, link # None => link' # None,
             job'[w].subject \in {j.subject, None} \/ Undisturbed
      PROVE  ScanCore'
  <2>1. rec.pc \in ScanPc => ~Undisturbed
    BY <1>j DEF Orderly, ScanCore, ScanPc, Undisturbed
  <2> QED BY <1>w, <1>j, <1>c, <2>1, NamesDiffer DEF ScanCore, ScanPc
<1>1. CASE Reads(w)
  <2>1. UNCHANGED <<inv, docs, link, rec, op>> /\ j.pc # "save" /\ UNCHANGED Existing
    BY <1>1, ReadsWriteNothing DEF Existing
  <2>2. JobCore(w)' /\ (job'[w].subject \in {j.subject, None} \/ Undisturbed)
    <3>1. CASE TakeForward(w)
      <4>1. Moved(w, "link", Internal, inv, None, None) BY <3>1, ForwardMoves
      <4> QED BY <3>1, <4>1 DEF TakeForward, JobCore
    <3>2. CASE ForwardLink(w)
      <4>1. Moved(w, AfterLink(j.inv), j.subject, j.inv, link, j.doc) BY <3>2, ForwardMoves
      <4>2. AfterLink(j.inv) \in {"finish", "readToVoid", "find", "read"}
            /\ (AfterLink(j.inv) = "find" => link = None)
        BY DEF AfterLink
      <4>3. j.pc = "link" /\ j.subject = Internal BY <1>j, <3>2 DEF ForwardLink, JobCore
      <4> QED BY <1>j, <2>1, <4>1, <4>2, <4>3 DEF JobCore
    <3>3. CASE ForwardRead(w)
      <4> DEFINE doc == Read(j.link.doc)
                 go  == Decide("internal", j.link, j.inv, doc)
      <4>1. Moved(w, IF go = "apply" THEN "push" ELSE go, j.subject, j.inv, j.link, doc)
        BY <3>3, ForwardMoves
      <4>2. j.pc = "read" /\ j.subject = Internal /\ j.link = link /\ link # None
        BY <1>j, <3>3 DEF ForwardRead, JobCore, JobFits, LinkPc
      <4>3. /\ doc.id \in Existing /\ doc.amount = docs[doc.id].amount
            /\ doc.voided = docs[doc.id].voided /\ doc.token = docs[doc.id].token
        BY <1>j, <4>2, ReadShows DEF StoresAgree
      <4>4. /\ go \in {"apply", "save", "saveSkip", "mark", "finish"}
            /\ go = "apply" => CanonicalFromQbo(doc) = link.snapshot
        BY <1>j, <4>2, DecideMeans DEF StoreCore, Sources
      <4> HIDE DEF doc, go
      <4> QED BY <1>t, <2>1, <4>1, <4>2, <4>3, <4>4 DEF JobCore
    <3>4. CASE ForwardFind(w)
      <4>1. j.pc = "find" /\ j.subject = Internal /\ Existing = {} /\ link = None
        BY <1>j, <3>4 DEF ForwardFind, JobCore
      <4>2. Moved(w, "create", j.subject, j.inv, j.link, j.doc) BY <3>4, <4>1, ForwardMoves
      <4> QED BY <2>1, <4>1, <4>2 DEF JobCore
    <3>5. CASE ReadToVoid(w)
      <4> DEFINE doc == Read(j.link.doc)
      <4>1. Moved(w, "void", j.subject, j.inv, j.link, doc) BY <3>5, ForwardMoves
      <4>2. j.pc = "readToVoid" /\ j.subject = Internal /\ j.link = link /\ link # None
        BY <1>j, <3>5 DEF ReadToVoid, JobCore, JobFits, LinkPc
      <4>3. /\ doc.id \in Existing /\ doc.amount = docs[doc.id].amount
            /\ doc.voided = docs[doc.id].voided /\ doc.token = docs[doc.id].token
        BY <1>j, <4>2, ReadShows DEF StoresAgree
      <4> HIDE DEF doc
      <4> QED BY <1>t, <2>1, <4>1, <4>2, <4>3 DEF JobCore
    <3>6. ASSUME NEW d \in Docs, TakeReverse(w, d)
          PROVE  JobCore(w)' /\ (job'[w].subject \in {j.subject, None} \/ Undisturbed)
      <4> DEFINE doc == Read(d)
      <4>1. Moved(w, "linkByQbo", d, None, None, doc) BY <3>6, ReverseMoves
      <4>2. d # Internal /\ d \in Existing
        BY <1>j, <3>6, NamesDiffer DEF TakeReverse, StoresAgree, Known, Subjects
      <4>3. /\ doc.id = d /\ doc.amount = docs[d].amount
            /\ doc.voided = docs[d].voided /\ doc.token = docs[d].token
        BY <4>2, ReadShows
      <4> HIDE DEF doc
      <4> QED BY <1>t, <2>1, <3>6, <4>1, <4>2, <4>3 DEF JobCore, TakeReverse
    <3>7. CASE ReverseLink(w)
      <4>1. Moved(w, AfterLinkByQbo(j.doc), j.subject, j.inv, link, j.doc) BY <3>7, ReverseMoves
      <4>2. AfterLinkByQbo(j.doc) \in {"finish", "remove", "refetch"} BY DEF AfterLinkByQbo
      <4>3. j.pc = "linkByQbo" BY <3>7 DEF ReverseLink
      <4> QED BY <1>j, <2>1, <4>1, <4>2, <4>3 DEF JobCore
    <3>8. CASE ReverseRefetch(w)
      <4> DEFINE go == Decide("quickbooks", j.link, inv, j.doc)
      <4>1. Moved(w, go, j.subject, inv, j.link, j.doc) BY <3>8, ReverseMoves
      <4>2. j.pc = "refetch" BY <3>8 DEF ReverseRefetch
      <4>3. go \in {"apply", "save", "saveSkip", "mark", "finish"} BY DecideGoes
      <4> HIDE DEF go
      <4> QED BY <1>j, <2>1, <4>1, <4>2, <4>3 DEF JobCore
    <3>9. CASE Dropped(w)
      BY <3>9 DEF JobCore
    <3> QED
      BY <1>1, <3>1, <3>2, <3>3, <3>4, <3>5, <3>6, <3>7, <3>8, <3>9, ForwardMoves, EndMoves DEF Reads
  <2> QED BY <1>w, <1>s, <1>c, <2>1, <2>2 DEF Core
<1>2. CASE (ForwardPush(w) \/ ForwardVoid(w)) /\ Current(j.doc)
  <2> DEFINE doc == Answered(j.doc)
             d   == j.doc.id
  <2>1. j.pc \in {"push", "void"} BY <1>2 DEF ForwardPush, ForwardVoid
  <2>2. PICK a, v : /\ ShowsDoc(d, a, v) /\ (docs[d].voided => v)
                    /\ Moved(w, "save", j.subject, j.inv, j.link, doc)
                    /\ UNCHANGED <<link, rec, op>>
    BY <1>2, PushWrites, VoidWrites
  <2>3. doc.id = d /\ doc.token = j.doc.token + 1 /\ doc.voided = j.doc.voided
    BY <1>d, <2>1, AnsweredShows
  <2>4. docs'[d].token = docs[d].token + 1 /\ docs'[d].voided = v /\ UNCHANGED Existing
    BY <2>2 DEF ShowsDoc
  <2>5. j.subject = Internal /\ j.doc.token <= docs[d].token /\ (j.doc.voided => docs[d].voided)
    BY <1>j, <2>1 DEF JobCore
  <2> HIDE DEF doc
  <2>6. JobCore(w)'
    BY <1>t, <1>d, <2>1, <2>2, <2>3, <2>4, <2>5 DEF JobCore
  <2> QED BY <1>w, <1>s, <1>c, <2>1, <2>2, <2>4, <2>6 DEF Core
<1>3. CASE ForwardCreate(w)
  <2>1. j.pc = "create" /\ j.subject = Internal /\ link = None /\ Existing = {}
    BY <1>j, <1>3 DEF ForwardCreate, JobCore
  <2>2. PICK d \in Docs, doc \in ReadType :
           /\ Existing' = {d} /\ docs'[d].voided = FALSE /\ docs'[d].token = 0
           /\ doc.id = d /\ doc.voided = FALSE /\ doc.token = 0
           /\ Moved(w, "save", j.subject, j.inv, j.link, doc)
    BY <1>3, <2>1, CreateShows
  <2>3. UNCHANGED <<link, rec, op>> BY <1>3 DEF ForwardCreate
  <2>4. StoreCore' BY <1>j, <2>1, <2>2, <2>3 DEF StoreCore
  <2>5. JobCore(w)' BY <2>1, <2>2 DEF JobCore
  <2> QED BY <1>w, <1>c, <2>1, <2>2, <2>3, <2>4, <2>5 DEF Core
<1>4. CASE ReverseApply(w) \/ ReverseRemove(w)
  <2>1. /\ UNCHANGED <<docs, link, rec, op>> /\ UNCHANGED Existing
        /\ Moved(w, "save", j.subject, inv', j.link, j.doc) /\ j.pc \in {"apply", "remove"}
    BY <1>4, PullWrites DEF Existing, ReverseApply, ReverseRemove, ReverseWrite
  <2>2. JobCore(w)' BY <1>j, <2>1 DEF JobCore
  <2> QED BY <1>w, <1>s, <1>c, <2>1, <2>2 DEF Core
<1>5. CASE Save(w) \/ SaveSkip(w) \/ Mark(w)
  <2>1. Moved(w, "finish", j.subject, j.inv, j.link, j.doc)
    BY <1>5, EndMoves
  <2>2. /\ link' # None /\ link'.snapshot # None /\ UNCHANGED <<docs, rec, op>>
        /\ UNCHANGED Existing
    BY <1>5, <1>j, LinkedAnew, LinkPatched DEF books, Existing, StoreCore
  <2>3. StoreCore' BY <1>j, <2>2 DEF StoreCore
  <2>4. JobCore(w)' BY <2>1 DEF JobCore
  <2> QED BY <1>w, <1>c, <2>1, <2>2, <2>3, <2>4 DEF Core
<1> QED
  BY <1>1, <1>2, <1>3, <1>4, <1>5 DEF Worker, Forward, Reverse, Reads

LEMMA CoreStep ==
  ASSUME Orderly, TypeInv, Core, [Next]_vars, op'.pc = "idle"
  PROVE  Core'
<1>1. TypeInv' BY TypeInvStep
<1>2. ASSUME UNCHANGED <<books, link, job, op, rec>> PROVE Core'
  <2>1. UNCHANGED Existing /\ \A d \in Existing : docs'[d] = docs[d]
    BY <1>2 DEF books, Existing
  <2> QED BY <1>2, <2>1, CoreFrame
<1> QED BY <1>1, <1>2, OrderlyStep, CorePeople, CoreWorker, CoreReconciler DEF Deliver, Lose
--------------------------------------------------------------------------------
LEMMA NobodyAsks ==
  ASSUME op.pc = "idle", [Next]_vars, ~ResolveStart
  PROVE  op'.pc = "idle"
<1>1. ~Resolve /\ ~ResolveFails
  BY DEF Resolve, ResolveRefetch, ResolveRead, InternalWins, QuickbooksWins, ResolveSave,
     ResolveFails
<1>2. UNCHANGED op
  BY <1>1 DEF Next, People, CreateInvoice, EditInternal, RenameCustomer, RecordPayment,
     DeleteInternal, QboEdit, QboEnter, QboVoid, QboTouch, Deliver, Lose, Worker, Interrupt,
     Forward, Reverse, TakeForward, ForwardLink, ForwardRead, ForwardFind, ForwardPush,
     ForwardCreate, ReadToVoid, ForwardVoid, TakeReverse, ReverseLink, ReverseRefetch,
     ReverseApply, ReverseRemove, ReverseWrite, Save, SaveSkip, Mark, WriteLink, Finish,
     Reconciler, RecFails, RecStart, RecHasLink, RecPending, RecList, RecFilter, RecMatch,
     RecLinks, RecDrift, RecRead, RecRefetch, vars
<1> QED BY <1>2

LEMMA NobodyResolves ==
  ASSUME TypeInv, Core, [Next]_vars, ~ResolveStart
  PROVE  op'.pc = "idle"
  BY NobodyAsks DEF Core, StoreCore

LEMMA NoneToSpend == ASSUME MaxResolves = 0, TypeInv PROVE ~ResolveStart
  BY Unspent, Bounds DEF ResolveStart, Limit

\* What a handler pushes over is what it read, and that is what the link records.
LEMMA PushesOverSnapshot ==
  ASSUME Orderly, TypeInv, Core, [Next]_vars, NEW d \in Docs, PushedOver(d)
  PROVE  link # None /\ CanonicalFromQbo(docs[d]) = link.snapshot
<1> USE DEF At, Moved, Dropped
<1>1. PICK w \in Workers : At(w, "push") /\ job'[w].pc = "save"
  BY DEF PushedOver
<1> DEFINE j == job[w]
<1>2. Worker(w) \/ Interrupt(w)
  BY <1>1, OnlyWorkersMove DEF Orderly, Alone
<1>3. ForwardPush(w)
  <2>1. ~Interrupt(w) BY <1>1, EndMoves
  <2> QED
    BY <1>1, <1>2, <2>1 DEF Worker, Forward, Reverse, TakeForward, ForwardLink, ForwardRead,
       ForwardFind, ForwardCreate, ReadToVoid, ForwardVoid, TakeReverse, ReverseLink,
       ReverseRefetch, ReverseApply, ReverseRemove, ReverseWrite, Save, SaveSkip, Mark,
       WriteLink, Finish
<1>4. Current(j.doc)
  BY <1>1, <1>3, ForwardMoves
<1>5. ShowsDoc(j.doc.id, j.inv.amount, docs[j.doc.id].voided)
  BY <1>3, <1>4, PushWrites
<1>6. d = j.doc.id
  BY <1>5 DEF ShowsDoc, PushedOver
<1>7. JobCore(w) /\ j.doc.id \in Existing
  BY <1>1 DEF Core, TypeInv, JobsFit, JobFits, DocPc
<1>8. j.doc.amount = docs[d].amount /\ j.doc.voided = docs[d].voided
      /\ CanonicalFromQbo(j.doc) = link.snapshot
  BY <1>1, <1>4, <1>6, <1>7 DEF JobCore, Current, DocPc
<1>9. link # None
  BY <1>1, <1>7, OneJob DEF Core, StoreCore, Orderly
<1> QED BY <1>8, <1>9 DEF CanonicalFromQbo

\* A worker overwrites an amount a person entered in QuickBooks only if the bridge has
\* taken it over before: for one worker when nothing fails, the reconciler keeps out of its
\* way, and nobody resolves a conflict or enters an invoice under our DocNumber.
THEOREM PushesKeepEdits == Orderly /\ MaxResolves = 0 => (Spec => PushKeepsQboEdits)
<1> SUFFICES ASSUME Orderly, MaxResolves = 0 PROVE Spec => PushKeepsQboEdits
  OBVIOUS
<1>1. Init => Core
  BY CoreInit
<1>2. TypeInv /\ Core /\ [Next]_vars => Core'
  BY CoreStep, NobodyResolves, NoneToSpend
<1>3. TypeInv /\ Core /\ [Next]_vars =>
        [\A d \in Docs : PushedOver(d) =>
           link # None /\ CanonicalFromQbo(docs[d]) = link.snapshot]_vars
  BY PushesOverSnapshot
<1> QED BY <1>1, <1>2, <1>3, TypeInvInit, TypeInvStep, PTL DEF Spec, PushKeepsQboEdits
--------------------------------------------------------------------------------
(***************************************************************************)
(* Ends.  When nobody edits an invoice after its deletion, what the bridge *)
(* takes for ended is ended on both sides, and what a handler took for     *)
(* open was not recorded as ended before.                                  *)
(***************************************************************************)
Over(i) == i.status = "deleted"

LinkEnd ==
  link # None /\ Over(link.snapshot) => Over(inv) /\ docs[link.doc].voided

JobEnd(w) ==
  LET j == job[w]
  IN  /\ j.pc \in ForwardPc \cup {"save"} /\ Over(j.inv) => Over(inv)
      /\ j.pc \in {"find", "create", "read", "push"} => ~Over(j.inv)
      /\ j.pc \in {"readToVoid", "void"} => Over(j.inv)
      /\ j.pc = "save" /\ Over(j.inv) => docs[j.doc.id].voided
      /\ j.pc = "remove" => j.doc.voided
      /\ j.pc \in {"refetch", "apply"} => ~j.doc.voided
      /\ link # None /\ \/ j.pc \in ForwardPc /\ ~Over(j.inv)
                        \/ j.pc \in ReversePc /\ ~j.doc.voided
           => ~Over(link.snapshot)

EndCore == LinkEnd /\ \A w \in Workers : JobEnd(w)

LEMMA EndInit == Init => EndCore
  BY DEF Init, EndCore, LinkEnd, JobEnd, IdleJob, ForwardPc, ReversePc

LEMMA CanonicalEnds ==
  ASSUME NEW i, NEW q
  PROVE  /\ Over(CanonicalFromInternal(i)) <=> Over(i)
         /\ Over(CanonicalFromQbo(q)) <=> q.voided
         /\ CanonicalFromInternal(i) = CanonicalFromQbo(q) =>
              i.amount = q.amount /\ (Over(i) <=> q.voided)
<1>1. /\ CanonicalFromInternal(i).amount = i.amount
      /\ CanonicalFromInternal(i).status = IF i.status = "deleted" THEN "deleted" ELSE "open"
  BY DEF CanonicalFromInternal
<1>2. /\ CanonicalFromQbo(q).amount = q.amount
      /\ CanonicalFromQbo(q).status = IF q.voided THEN "deleted" ELSE "open"
  BY DEF CanonicalFromQbo
<1> QED BY <1>1, <1>2 DEF Over

\* Nothing is opened again while people do things.
LEMMA EndFrame ==
  ASSUME TypeInv, Core, EndCore, UNCHANGED <<link, job>>,
         inv # None /\ Over(inv) => Over(inv'),
         \A d \in Existing : docs[d].voided => docs'[d].voided
  PROVE  EndCore'
<1>1. link # None => inv # None /\ link.doc \in Existing
  BY DEF TypeInv, StoresAgree
<1>2. LinkEnd' BY <1>1 DEF EndCore, LinkEnd
<1>3. ASSUME NEW w \in Workers PROVE JobEnd(w)'
  <2>1. /\ job[w].pc \in ForwardPc \cup {"save"} => inv # None
        /\ job[w].pc = "save" => job[w].doc.id \in Existing
    BY DEF TypeInv, JobsFit, JobFits, InvPc, DocPc, ForwardPc
  <2> QED BY <2>1 DEF EndCore, JobEnd
<1> QED BY <1>2, <1>3 DEF EndCore

LEMMA EndPeople ==
  ASSUME ~EditsDeleted, TypeInv, Core, EndCore, LedgerStep \/ QboStep
  PROVE  EndCore'
<1>1. CASE LedgerStep
  <2>1. inv # None /\ Over(inv) => Over(inv')
    BY <1>1 DEF LedgerStep, Editable, ShowsInv, Over
  <2> QED BY <1>1, <2>1, EndFrame DEF LedgerStep
<1>2. CASE QboStep
  <2>1. PICK d \in Existing, a \in Shown :
          \/ /\ ~docs[d].voided /\ docs[d].amount # a /\ ShowsDoc(d, a, FALSE)
             /\ Counts("qboEdit") /\ used["qboEdit"] < MaxQboEdits
          \/ ~docs[d].voided /\ ShowsDoc(d, Zero, TRUE) /\ Counts("void")
          \/ ShowsDoc(d, docs[d].amount, docs[d].voided) /\ Counts("touch") /\ MaxTouches # 0
    BY <1>2 DEF QboStep
  <2>2. \A e \in Existing : docs[e].voided => docs'[e].voided
    BY <2>1 DEF ShowsDoc, Existing
  <2> QED BY <1>2, <2>2, EndFrame DEF QboStep
<1> QED BY <1>1, <1>2

LEMMA EndWorker ==
  ASSUME Orderly, TypeInv, Core, EndCore, NEW w \in Workers, Worker(w)
  PROVE  EndCore'
<1> DEFINE j == job[w]
<1> USE DEF At
<1>w. Workers = {w}
  BY OneJob DEF Orderly
<1>j. /\ JobCore(w) /\ StoreCore /\ JobFits(j) /\ StoresAgree /\ JobEnd(w) /\ LinkEnd
      /\ link # None => link \in LinkType
      /\ j.pc # "save" /\ link = None => Existing = {}
  BY <1>w DEF Core, EndCore, TypeInv, JobsFit, StoresFit, StoreCore
<1>l. link # None => /\ inv # None /\ link.doc \in Existing
                     /\ \A d \in Existing : d = link.doc
  BY <1>j DEF StoresAgree, StoreCore
<1>d. j.pc \in DocPc => j.doc.id \in Existing
  BY <1>j DEF JobFits
<1> USE DEF Moved, Dropped, ForwardPc, ReversePc, HeldPc, DocPc
<1>1. CASE Reads(w)
  <2>1. UNCHANGED <<inv, docs, link>>
    BY <1>1, ReadsWriteNothing
  <2>2. LinkEnd'
    BY <1>j, <2>1 DEF LinkEnd
  <2>3. JobEnd(w)'
    <3>1. CASE TakeForward(w)
      <4>1. Moved(w, "link", Internal, inv, None, None) BY <3>1, ForwardMoves
      <4> QED BY <1>j, <2>1, <4>1 DEF JobEnd, LinkEnd
    <3>2. CASE ForwardLink(w)
      <4>1. Moved(w, AfterLink(j.inv), j.subject, j.inv, link, j.doc) BY <3>2, ForwardMoves
      <4>2. /\ AfterLink(j.inv) \in {"finish", "readToVoid", "find", "read"}
            /\ AfterLink(j.inv) = "readToVoid" => Over(j.inv)
            /\ AfterLink(j.inv) \in {"find", "read"} => ~Over(j.inv)
        BY DEF AfterLink, Over
      <4>3. j.pc = "link" BY <3>2 DEF ForwardLink
      <4> QED BY <1>j, <2>1, <4>1, <4>2, <4>3 DEF JobEnd
    <3>3. CASE ForwardRead(w)
      <4> DEFINE doc == Read(j.link.doc)
                 go  == Decide("internal", j.link, j.inv, doc)
      <4>1. Moved(w, IF go = "apply" THEN "push" ELSE go, j.subject, j.inv, j.link, doc)
        BY <3>3, ForwardMoves
      <4>2. j.pc = "read" /\ ~Over(j.inv)
        BY <1>j, <3>3 DEF ForwardRead, JobEnd
      <4>3. go \in {"apply", "save", "saveSkip", "mark", "finish"}
        BY DecideGoes
      <4> HIDE DEF doc, go
      <4> QED BY <1>j, <2>1, <4>1, <4>2, <4>3 DEF JobEnd
    <3>4. CASE ForwardFind(w)
      <4>1. j.pc = "find" /\ Existing = {} /\ link = None
        BY <1>j, <3>4 DEF ForwardFind, JobCore
      <4>2. Moved(w, "create", j.subject, j.inv, j.link, j.doc) BY <3>4, <4>1, ForwardMoves
      <4> QED BY <1>j, <2>1, <4>1, <4>2 DEF JobEnd
    <3>5. CASE ReadToVoid(w)
      <4>1. Moved(w, "void", j.subject, j.inv, j.link, Read(j.link.doc)) BY <3>5, ForwardMoves
      <4>2. j.pc = "readToVoid" BY <3>5 DEF ReadToVoid
      <4> QED BY <1>j, <2>1, <4>1, <4>2 DEF JobEnd
    <3>6. ASSUME NEW d \in Docs, TakeReverse(w, d) PROVE JobEnd(w)'
      <4> DEFINE doc == Read(d)
      <4>1. Moved(w, "linkByQbo", d, None, None, doc) BY <3>6, ReverseMoves
      <4>2. d \in Existing
        BY <1>j, <3>6, NamesDiffer DEF TakeReverse, StoresAgree, Known, Subjects
      <4>3. doc.voided = docs[d].voided
        BY <4>2, ReadShows
      <4> HIDE DEF doc
      <4> QED BY <1>j, <1>l, <2>1, <4>1, <4>2, <4>3 DEF JobEnd, LinkEnd
    <3>7. CASE ReverseLink(w)
      <4>1. Moved(w, AfterLinkByQbo(j.doc), j.subject, j.inv, link, j.doc) BY <3>7, ReverseMoves
      <4>2. /\ AfterLinkByQbo(j.doc) \in {"finish", "remove", "refetch"}
            /\ AfterLinkByQbo(j.doc) = "remove" => j.doc.voided
            /\ AfterLinkByQbo(j.doc) = "refetch" => ~j.doc.voided
        BY DEF AfterLinkByQbo
      <4>3. j.pc = "linkByQbo" BY <3>7 DEF ReverseLink
      <4> QED BY <1>j, <2>1, <4>1, <4>2, <4>3 DEF JobEnd
    <3>8. CASE ReverseRefetch(w)
      <4> DEFINE go == Decide("quickbooks", j.link, inv, j.doc)
      <4>1. Moved(w, go, j.subject, inv, j.link, j.doc) BY <3>8, ReverseMoves
      <4>2. j.pc = "refetch" /\ ~j.doc.voided BY <1>j, <3>8 DEF ReverseRefetch, JobEnd
      <4>3. j.link = link /\ link # None
        BY <1>j, <4>2 DEF JobCore, JobFits, LinkedPc, LinkPc
      <4>4. /\ go \in {"apply", "save", "saveSkip", "mark", "finish"}
            /\ go = "save" => CanonicalFromInternal(inv) = CanonicalFromQbo(j.doc)
        BY <1>j, <4>3, DecideMeans DEF StoreCore, Sources
      <4>5. go = "save" => ~Over(inv)
        BY <4>2, <4>4, CanonicalEnds
      <4> HIDE DEF go
      <4> QED BY <1>j, <2>1, <4>1, <4>2, <4>4, <4>5 DEF JobEnd
    <3>9. CASE Dropped(w)
      BY <3>9 DEF JobEnd
    <3> QED
      BY <1>1, <3>1, <3>2, <3>3, <3>4, <3>5, <3>6, <3>7, <3>8, <3>9, ForwardMoves, EndMoves DEF Reads
  <2> QED BY <1>w, <2>2, <2>3 DEF EndCore
<1>2. CASE (ForwardPush(w) \/ ForwardVoid(w)) /\ Current(j.doc)
  <2> DEFINE d == j.doc.id
  <2>1. j.pc \in {"push", "void"} BY <1>2 DEF ForwardPush, ForwardVoid
  <2>2. PICK a, v : /\ ShowsDoc(d, a, v) /\ (docs[d].voided => v)
                    /\ (ForwardVoid(w) => v)
                    /\ Moved(w, "save", j.subject, j.inv, j.link, Answered(j.doc))
                    /\ UNCHANGED <<inv, link>>
    <3>1. CASE ForwardVoid(w)
      BY <1>2, <3>1, VoidWrites
    <3>2. CASE ForwardPush(w) /\ ~ForwardVoid(w)
      BY <1>2, <3>2, PushWrites
    <3> QED BY <1>2, <3>1, <3>2
  <2>3. \A e \in Existing : docs[e].voided => docs'[e].voided
    BY <2>2 DEF ShowsDoc, Existing
  <2>4. LinkEnd' BY <1>j, <1>l, <2>2, <2>3 DEF LinkEnd
  <2>5. j.doc.id \in Existing /\ job'[w].doc.id = d
    BY <1>j, <1>d, <2>1, <2>2, AnsweredShows DEF JobFits
  <2>6. CASE ForwardPush(w)
    <3>1. j.pc = "push" BY <2>6 DEF ForwardPush
    <3>2. JobEnd(w)' BY <1>j, <2>2, <3>1 DEF JobEnd
    <3> QED BY <1>w, <2>4, <3>2 DEF EndCore
  <2>7. CASE ForwardVoid(w)
    <3>1. j.pc = "void" /\ docs'[d].voided BY <2>2, <2>7 DEF ForwardVoid, ShowsDoc
    <3>2. JobEnd(w)' BY <1>j, <2>2, <2>5, <3>1 DEF JobEnd
    <3> QED BY <1>w, <2>4, <3>2 DEF EndCore
  <2> QED BY <1>2, <2>6, <2>7
<1>3. CASE ForwardCreate(w)
  <2>1. j.pc = "create" /\ link = None /\ Existing = {}
    BY <1>j, <1>3 DEF ForwardCreate, JobCore
  <2>2. UNCHANGED <<inv, link>> /\ \E doc : Moved(w, "save", j.subject, j.inv, j.link, doc)
    BY <1>3, <2>1, CreateShows DEF ForwardCreate
  <2>3. LinkEnd' BY <2>1, <2>2 DEF LinkEnd
  <2>4. JobEnd(w)' BY <1>j, <2>1, <2>2 DEF JobEnd
  <2> QED BY <1>w, <2>3, <2>4 DEF EndCore
<1>4. CASE ReverseApply(w)
  <2>1. /\ UNCHANGED <<docs, link>> /\ inv'.status = "open"
        /\ Moved(w, "save", j.subject, inv', j.link, j.doc) /\ j.pc = "apply"
    BY <1>4, PullWrites DEF ShowsInv, ReverseApply, ReverseWrite
  <2>2. link # None => ~Over(link.snapshot) BY <1>j, <2>1 DEF JobEnd
  <2>3. LinkEnd' BY <2>1, <2>2 DEF LinkEnd
  <2>4. JobEnd(w)' BY <2>1 DEF JobEnd, Over
  <2> QED BY <1>w, <2>3, <2>4 DEF EndCore
<1>5. CASE ReverseRemove(w)
  <2>1. /\ UNCHANGED <<docs, link>> /\ inv'.status = "deleted"
        /\ Moved(w, "save", j.subject, inv', j.link, j.doc) /\ j.pc = "remove"
    BY <1>5, PullWrites DEF ShowsInv, ReverseRemove, ReverseWrite
  <2>2. docs[j.doc.id].voided BY <1>j, <2>1 DEF JobEnd, JobCore
  <2>3. LinkEnd' BY <1>j, <2>1 DEF LinkEnd, Over
  <2>4. JobEnd(w)' BY <2>1, <2>2 DEF JobEnd, Over
  <2> QED BY <1>w, <2>3, <2>4 DEF EndCore
<1>6. CASE Save(w) \/ SaveSkip(w) \/ Mark(w)
  <2>1. Moved(w, "finish", j.subject, j.inv, j.link, j.doc)
    BY <1>6, EndMoves
  <2>2. JobEnd(w)' BY <2>1 DEF JobEnd
  <2>3. LinkEnd'
    <3>1. CASE Save(w)
      <4>1. j.pc = "save" BY <3>1 DEF Save, WriteLink
      <4>2. /\ link'.doc = j.doc.id /\ link'.snapshot = CanonicalFromInternal(j.inv)
            /\ UNCHANGED <<inv, docs>>
        BY <3>1, LinkedAnew DEF books
      <4> QED BY <1>j, <4>1, <4>2, CanonicalEnds DEF LinkEnd, JobEnd
    <3>2. CASE SaveSkip(w) \/ Mark(w)
      <4>1. /\ link # None /\ link'.snapshot = link.snapshot /\ UNCHANGED <<inv, docs>>
            /\ link'.doc \in {link.doc, j.doc.id}
        BY <3>2, LinkPatched DEF books
      <4>2. SaveSkip(w) => j.doc.id = link.doc
        BY <1>d, <1>l, <4>1 DEF SaveSkip, WriteLink
      <4>3. link'.doc = link.doc
        BY <3>2, <4>1, <4>2, LinkPatched
      <4> QED BY <1>j, <4>1, <4>3 DEF LinkEnd
    <3> QED BY <1>6, <3>1, <3>2
  <2> QED BY <1>w, <2>2, <2>3 DEF EndCore
<1> QED
  BY <1>1, <1>2, <1>3, <1>4, <1>5, <1>6 DEF Worker, Forward, Reverse, Reads

LEMMA EndStep ==
  ASSUME Orderly, ~EditsDeleted, TypeInv, Core, EndCore, [Next]_vars, op'.pc = "idle"
  PROVE  EndCore'
<1>1. ASSUME UNCHANGED <<books, link, job>> PROVE EndCore'
  BY <1>1, EndFrame DEF books
<1> QED BY <1>1, OrderlyStep, EndPeople, EndWorker DEF Deliver, Lose
--------------------------------------------------------------------------------
(***************************************************************************)
(* Conflicts are real.  As long as people changed one side at most, the    *)
(* other side shows what the link records, and nobody comes to flag a      *)
(* conflict, let alone to resolve one.                                     *)
(***************************************************************************)
Unedited  == used["edit"] + used["delete"] = 0
Unchanged == used["qboEdit"] + used["void"] = 0

Saving == \E w \in Workers : At(w, "save")

LedgerKept ==
  /\ link # None /\ ~Saving => CanonicalFromInternal(inv) = link.snapshot
  /\ \A w \in Workers : job[w].pc \in ForwardPc \cup {"save"} =>
       CanonicalFromInternal(job[w].inv) = CanonicalFromInternal(inv)

QboKept ==
  /\ link # None /\ ~Saving /\ ~Over(link.snapshot) =>
       CanonicalFromQbo(docs[link.doc]) = link.snapshot
  /\ \A w \in Workers :
       LET j == job[w]
       IN  /\ j.pc \in ReversePc /\ link # None /\ ~j.doc.voided =>
                CanonicalFromQbo(j.doc) = link.snapshot
           /\ j.pc = "save" /\ ~Over(j.inv) =>
                CanonicalFromQbo(docs[j.doc.id]) = CanonicalFromInternal(j.inv)

InSync ==
  /\ link # None => link.status = "linked"
  /\ \A w \in Workers : ~At(w, "mark")

RealInv ==
  Unedited \/ Unchanged =>
    /\ Core /\ EndCore /\ InSync
    /\ Unedited => LedgerKept
    /\ Unchanged => QboKept

LEMMA RealInit == Orderly /\ Init => RealInv
  BY CoreInit, EndInit DEF Init, RealInv, InSync, LedgerKept, QboKept, At, IdleJob, ForwardPc,
     ReversePc

\* Changes are counted, and never uncounted.
LEMMA CountsGrow ==
  ASSUME TypeInv,
         \/ \A k \in Changes : used'[k] = used[k]
         \/ \E k : Counts(k)
  PROVE  /\ Unedited' => Unedited
         /\ Unchanged' => Unchanged
         /\ Counts("edit") \/ Counts("delete") => ~Unedited'
         /\ Counts("qboEdit") \/ Counts("void") => ~Unchanged'
<1>1. \A k \in Changes : used[k] \in Nat
  BY Bounds DEF TypeInv, StoresFit, Changes
<1>2. \A k \in Changes : used'[k] = used[k] \/ used'[k] = used[k] + 1
  BY DEF Counts
<1>3. {"edit", "delete", "qboEdit", "void"} = Changes
  BY DEF Changes
<1> QED BY <1>1, <1>2, <1>3 DEF Unedited, Unchanged, Counts

LEMMA SameCanonical ==
  /\ \A i, k : i.amount = k.amount /\ i.status = k.status =>
       CanonicalFromInternal(i) = CanonicalFromInternal(k)
  /\ \A p, q : p.amount = q.amount /\ p.voided = q.voided =>
       CanonicalFromQbo(p) = CanonicalFromQbo(q)
  /\ \A i, q : i.amount = q.amount /\ ~Over(i) /\ ~q.voided =>
       CanonicalFromInternal(i) = CanonicalFromQbo(q)
  BY DEF CanonicalFromInternal, CanonicalFromQbo, Over

LEMMA RealPeople ==
  ASSUME ~EditsDeleted, TypeInv, Core, InSync, LedgerStep \/ QboStep
  PROVE  /\ InSync'
         /\ (Unedited => LedgerKept) => (Unedited' => LedgerKept')
         /\ (Unchanged => QboKept) => (Unchanged' => QboKept')
<1>1. CASE LedgerStep
  <2>1. UNCHANGED <<docs, link, job>> BY <1>1 DEF LedgerStep
  <2>2. InSync' /\ (QboKept => QboKept') /\ (Saving' <=> Saving)
    BY <2>1 DEF InSync, QboKept, Saving, At
  <2>3. Unchanged' => Unchanged
    BY <1>1, CountsGrow DEF LedgerStep
  <2>4. ASSUME Unedited' PROVE /\ Unedited
                               /\ inv # None => CanonicalFromInternal(inv') = CanonicalFromInternal(inv)
    <3>1. Unedited BY <1>1, <2>4, CountsGrow DEF LedgerStep
    <3>2. ~Counts("edit") /\ ~Counts("delete") BY <2>4, CountsGrow
    <3>3. inv # None => inv'.amount = inv.amount /\ inv'.status = inv.status
      BY <1>1, <3>2 DEF LedgerStep, Editable
    <3> QED BY <3>1, <3>3, SameCanonical
  <2>5. ASSUME Unedited', LedgerKept PROVE LedgerKept'
    <3>1. link # None => inv # None
      BY DEF TypeInv, StoresAgree
    <3>2. \A w \in Workers : job[w].pc \in ForwardPc \cup {"save"} => inv # None
      BY DEF TypeInv, JobsFit, JobFits, InvPc, ForwardPc
    <3> QED BY <2>1, <2>2, <2>4, <2>5, <3>1, <3>2 DEF LedgerKept
  <2> QED BY <2>2, <2>3, <2>4, <2>5
<1>2. CASE QboStep
  <2>1. UNCHANGED <<inv, link, job>> BY <1>2 DEF QboStep
  <2>2. InSync' /\ (LedgerKept => LedgerKept') /\ (Saving' <=> Saving)
    BY <2>1 DEF InSync, LedgerKept, Saving, At
  <2>3. PICK d \in Existing, a \in Shown :
          \/ /\ ~docs[d].voided /\ docs[d].amount # a /\ ShowsDoc(d, a, FALSE)
             /\ Counts("qboEdit") /\ used["qboEdit"] < MaxQboEdits
          \/ ~docs[d].voided /\ ShowsDoc(d, Zero, TRUE) /\ Counts("void")
          \/ ShowsDoc(d, docs[d].amount, docs[d].voided) /\ Counts("touch") /\ MaxTouches # 0
    BY <1>2 DEF QboStep
  <2>4. Unedited' => Unedited
    BY <2>3, CountsGrow
  <2>5. ASSUME Unchanged'
        PROVE  Unchanged /\ \A e \in Existing : CanonicalFromQbo(docs'[e]) = CanonicalFromQbo(docs[e])
    <3>1. Unchanged /\ ~Counts("qboEdit") /\ ~Counts("void") BY <2>3, <2>5, CountsGrow
    <3>2. ShowsDoc(d, docs[d].amount, docs[d].voided) BY <2>3, <3>1
    <3>3. \A e \in Existing : docs'[e].amount = docs[e].amount /\ docs'[e].voided = docs[e].voided
      BY <3>2 DEF ShowsDoc, Existing
    <3> QED BY <3>1, <3>3, SameCanonical
  <2>6. ASSUME Unchanged', QboKept PROVE QboKept'
    <3>1. link # None => link.doc \in Existing
      BY DEF TypeInv, StoresAgree
    <3>2. \A w \in Workers : job[w].pc = "save" => job[w].doc.id \in Existing
      BY DEF TypeInv, JobsFit, JobFits, DocPc
    <3> QED BY <2>1, <2>2, <2>5, <2>6, <3>1, <3>2 DEF QboKept
  <2> QED BY <2>2, <2>4, <2>5, <2>6
<1> QED BY <1>1, <1>2

LEMMA RealWorker ==
  ASSUME Orderly, TypeInv, Core, EndCore, InSync, Unedited \/ Unchanged,
         Unedited => LedgerKept, Unchanged => QboKept, NEW w \in Workers, Worker(w)
  PROVE  InSync' /\ (Unedited => LedgerKept') /\ (Unchanged => QboKept')
<1> DEFINE j == job[w]
<1> USE DEF At
<1>w. Workers = {w}
  BY OneJob DEF Orderly
<1>j. /\ JobCore(w) /\ StoreCore /\ JobFits(j) /\ StoresAgree /\ JobEnd(w) /\ LinkEnd
      /\ link # None => link \in LinkType
      /\ j.pc # "save" /\ link = None => Existing = {}
  BY <1>w DEF Core, EndCore, TypeInv, JobsFit, StoresFit, StoreCore
<1>l. link # None => /\ inv # None /\ link.doc \in Existing
                     /\ \A d \in Existing : d = link.doc
  BY <1>j DEF StoresAgree, StoreCore
<1>d. j.pc \in DocPc => j.doc.id \in Existing
  BY <1>j DEF JobFits
<1>v. Saving <=> j.pc = "save"
  BY <1>w DEF Saving
<1>v2. Saving' <=> job'[w].pc = "save"
  BY <1>w DEF Saving
<1>i. /\ link # None => link.status = "linked"
      /\ j.pc # "mark"
  BY DEF InSync
\* What the worker still holds of the link and of either side shows no change.
<1>a. /\ Unedited => /\ link # None /\ j.pc # "save" => CanonicalFromInternal(inv) = link.snapshot
                     /\ j.pc \in ForwardPc \cup {"save"} =>
                          CanonicalFromInternal(j.inv) = CanonicalFromInternal(inv)
      /\ Unchanged =>
           /\ link # None /\ j.pc # "save" /\ ~Over(link.snapshot) =>
                CanonicalFromQbo(docs[link.doc]) = link.snapshot
           /\ j.pc \in ReversePc /\ link # None /\ ~j.doc.voided =>
                CanonicalFromQbo(j.doc) = link.snapshot
           /\ j.pc = "save" /\ ~Over(j.inv) =>
                CanonicalFromQbo(docs[j.doc.id]) = CanonicalFromInternal(j.inv)
  BY <1>v DEF LedgerKept, QboKept
<1> USE DEF Moved, Dropped, ForwardPc, ReversePc, HeldPc, DocPc
<1>1. CASE Reads(w)
  <2>1. UNCHANGED <<inv, docs, link>> /\ j.pc # "save"
    BY <1>1, ReadsWriteNothing
  \* What is left to show of a read.
  <2>r. ASSUME job'[w].pc # "mark",
               Unedited /\ job'[w].pc \in ForwardPc \cup {"save"} =>
                 CanonicalFromInternal(job'[w].inv) = CanonicalFromInternal(inv),
               Unchanged =>
                 /\ job'[w].pc \in ReversePc /\ link # None /\ ~job'[w].doc.voided =>
                      CanonicalFromQbo(job'[w].doc) = link.snapshot
                 /\ job'[w].pc = "save" /\ ~Over(job'[w].inv) =>
                      CanonicalFromQbo(docs[job'[w].doc.id]) = CanonicalFromInternal(job'[w].inv)
        PROVE  InSync' /\ (Unedited => LedgerKept') /\ (Unchanged => QboKept')
    BY <1>w, <1>i, <1>a, <1>v2, <2>1, <2>r DEF InSync, LedgerKept, QboKept
  <2>2. CASE TakeForward(w)
    <3>1. Moved(w, "link", Internal, inv, None, None) BY <2>2, ForwardMoves
    <3> QED BY <2>r, <3>1
  <2>3. CASE ForwardLink(w)
    <3>1. Moved(w, AfterLink(j.inv), j.subject, j.inv, link, j.doc) BY <2>3, ForwardMoves
    <3>2. AfterLink(j.inv) \in {"finish", "readToVoid", "find", "read"} BY DEF AfterLink
    <3>3. j.pc = "link" BY <2>3 DEF ForwardLink
    <3> QED BY <1>a, <2>r, <3>1, <3>2, <3>3
  <2>4. CASE ForwardRead(w)
    <3> DEFINE doc == Read(j.link.doc)
               go  == Decide("internal", j.link, j.inv, doc)
    <3>1. Moved(w, IF go = "apply" THEN "push" ELSE go, j.subject, j.inv, j.link, doc)
      BY <2>4, ForwardMoves
    <3>2. j.pc = "read" /\ j.link = link /\ link # None
      BY <1>j, <2>4 DEF ForwardRead, JobCore, JobFits, LinkPc
    <3>3. doc.id = link.doc /\ CanonicalFromQbo(doc) = CanonicalFromQbo(docs[link.doc])
      BY <1>l, <3>2, ReadShows
    <3>4. /\ go \in {"apply", "save", "saveSkip", "mark", "finish"}
          /\ go = "save" => CanonicalFromInternal(j.inv) = CanonicalFromQbo(doc)
          /\ go = "mark" => CanonicalFromInternal(j.inv) # link.snapshot
                            /\ CanonicalFromQbo(doc) # link.snapshot
      BY <1>j, <3>2, DecideMeans DEF StoreCore, Sources
    <3>5. ~Over(link.snapshot)
      BY <1>j, <3>2 DEF JobEnd
    <3> HIDE DEF doc, go
    <3>6. go # "mark"
      BY <1>a, <3>2, <3>3, <3>4, <3>5
    <3> QED BY <1>a, <2>r, <3>1, <3>2, <3>3, <3>4, <3>6
  <2>5. CASE ForwardFind(w)
    <3>1. j.pc = "find" /\ Existing = {}
      BY <1>j, <2>5 DEF ForwardFind, JobCore
    <3>2. Moved(w, "create", j.subject, j.inv, j.link, j.doc) BY <2>5, <3>1, ForwardMoves
    <3> QED BY <1>a, <2>r, <3>1, <3>2
  <2>6. CASE ReadToVoid(w)
    <3>1. Moved(w, "void", j.subject, j.inv, j.link, Read(j.link.doc)) BY <2>6, ForwardMoves
    <3>2. j.pc = "readToVoid" BY <2>6 DEF ReadToVoid
    <3> QED BY <1>a, <2>r, <3>1, <3>2
  <2>7. ASSUME NEW d \in Docs, TakeReverse(w, d)
        PROVE  InSync' /\ (Unedited => LedgerKept') /\ (Unchanged => QboKept')
    <3> DEFINE doc == Read(d)
    <3>1. Moved(w, "linkByQbo", d, None, None, doc) BY <2>7, ReverseMoves
    <3>2. d \in Existing
      BY <1>j, <2>7, NamesDiffer DEF TakeReverse, StoresAgree, Known, Subjects
    <3>3. doc.voided = docs[d].voided /\ CanonicalFromQbo(doc) = CanonicalFromQbo(docs[d])
      BY <3>2, ReadShows
    <3>4. link # None => d = link.doc /\ (Over(link.snapshot) => docs[d].voided)
      BY <1>j, <1>l, <3>2 DEF LinkEnd
    <3> HIDE DEF doc
    <3> QED BY <1>a, <2>1, <2>r, <3>1, <3>3, <3>4
  <2>8. CASE ReverseLink(w)
    <3>1. Moved(w, AfterLinkByQbo(j.doc), j.subject, j.inv, link, j.doc) BY <2>8, ReverseMoves
    <3>2. AfterLinkByQbo(j.doc) \in {"finish", "remove", "refetch"} BY DEF AfterLinkByQbo
    <3>3. j.pc = "linkByQbo" BY <2>8 DEF ReverseLink
    <3> QED BY <1>a, <2>r, <3>1, <3>2, <3>3
  <2>9. CASE ReverseRefetch(w)
    <3> DEFINE go == Decide("quickbooks", j.link, inv, j.doc)
    <3>1. Moved(w, go, j.subject, inv, j.link, j.doc) BY <2>9, ReverseMoves
    <3>2. j.pc = "refetch" /\ ~j.doc.voided BY <1>j, <2>9 DEF ReverseRefetch, JobEnd
    <3>3. j.link = link /\ link # None
      BY <1>j, <3>2 DEF JobCore, JobFits, LinkedPc, LinkPc
    <3>4. /\ go \in {"apply", "save", "saveSkip", "mark", "finish"}
          /\ go = "save" => CanonicalFromInternal(inv) = CanonicalFromQbo(j.doc)
          /\ go = "mark" => CanonicalFromInternal(inv) # link.snapshot
                            /\ CanonicalFromQbo(j.doc) # link.snapshot
      BY <1>j, <3>3, DecideMeans DEF StoreCore, Sources
    <3>5. ~Over(link.snapshot) /\ j.doc.id = link.doc
      BY <1>j, <1>l, <1>d, <3>2, <3>3 DEF JobEnd
    <3> HIDE DEF go
    <3>6. go # "mark"
      BY <1>a, <3>2, <3>3, <3>4
    <3> QED BY <1>a, <2>r, <3>1, <3>2, <3>3, <3>4, <3>5, <3>6
  <2>10. CASE Dropped(w)
    BY <2>10, <2>r
  <2> QED
    BY <1>1, <2>2, <2>3, <2>4, <2>5, <2>6, <2>7, <2>8, <2>9, <2>10, ForwardMoves, EndMoves DEF Reads
\* A write of either side takes the worker to the write of the link.
<1>s. ASSUME job'[w].pc = "save", UNCHANGED link,
             Unedited => CanonicalFromInternal(job'[w].inv) = CanonicalFromInternal(inv'),
             Unchanged /\ ~Over(job'[w].inv) =>
               CanonicalFromQbo(docs'[job'[w].doc.id]) = CanonicalFromInternal(job'[w].inv)
      PROVE  InSync' /\ (Unedited => LedgerKept') /\ (Unchanged => QboKept')
  BY <1>w, <1>i, <1>v2, <1>s DEF InSync, LedgerKept, QboKept
<1>2. CASE ForwardPush(w) /\ Current(j.doc)
  <2> DEFINE d == j.doc.id
             doc == Answered(j.doc)
  <2>1. j.pc = "push" /\ docs[d].token = j.doc.token BY <1>2 DEF ForwardPush, Current
  <2>2. /\ docs'[d].amount = j.inv.amount /\ docs'[d].voided = docs[d].voided
        /\ Moved(w, "save", j.subject, j.inv, j.link, doc)
        /\ UNCHANGED <<inv, link>>
    BY <1>2, PushWrites DEF ShowsDoc
  <2>3. doc.id = d BY <1>j, <2>1, AnsweredShows DEF JobFits
  <2>4. /\ CanonicalFromQbo(j.doc) = link.snapshot /\ link # None /\ ~Over(j.inv)
        /\ docs[d].voided = j.doc.voided
    BY <1>j, <1>d, <2>1 DEF JobCore, JobEnd
  <2>5. ~Over(link.snapshot) BY <1>j, <2>1, <2>4 DEF JobEnd
  <2>6. ~docs'[d].voided BY <2>2, <2>4, <2>5, CanonicalEnds
  <2> HIDE DEF doc
  <2> QED BY <1>a, <1>s, <2>1, <2>2, <2>3, <2>4, <2>6, SameCanonical
<1>3. CASE ForwardVoid(w) /\ Current(j.doc)
  <2>1. j.pc = "void" /\ Over(j.inv) BY <1>j, <1>3 DEF ForwardVoid, JobEnd
  <2>2. /\ Moved(w, "save", j.subject, j.inv, j.link, Answered(j.doc))
        /\ UNCHANGED <<inv, link>>
    BY <1>3, VoidWrites
  <2> QED BY <1>a, <1>s, <2>1, <2>2
<1>4. CASE ForwardCreate(w)
  <2>1. j.pc = "create" /\ Existing = {} /\ ~Over(j.inv)
    BY <1>j, <1>4 DEF ForwardCreate, JobCore, JobEnd
  <2>2. PICK d \in Docs, doc \in ReadType :
           /\ UNCHANGED inv /\ docs'[d].amount = j.inv.amount /\ docs'[d].voided = FALSE
           /\ doc.id = d /\ Moved(w, "save", j.subject, j.inv, j.link, doc)
    BY <1>4, <2>1, CreateShows
  <2>3. UNCHANGED link BY <1>4 DEF ForwardCreate
  <2> QED BY <1>a, <1>s, <2>1, <2>2, <2>3, SameCanonical
<1>5. CASE ReverseApply(w)
  <2>1. /\ UNCHANGED <<docs, link>> /\ inv'.amount = j.doc.amount /\ inv'.status = "open"
        /\ Moved(w, "save", j.subject, inv', j.link, j.doc) /\ j.pc = "apply"
    BY <1>5, PullWrites DEF ShowsInv, ReverseApply, ReverseWrite
  <2>2. link # None /\ j.doc.id = link.doc /\ ~j.doc.voided /\ ~Over(link.snapshot)
    BY <1>j, <1>l, <1>d, <2>1 DEF JobFits, LinkedPc, JobEnd
  <2>3. CanonicalFromInternal(inv') = CanonicalFromQbo(j.doc)
    BY <2>1, <2>2, SameCanonical DEF Over
  <2> QED BY <1>a, <1>s, <2>1, <2>2, <2>3
<1>6. CASE ReverseRemove(w)
  <2>1. /\ UNCHANGED <<docs, link>> /\ inv'.status = "deleted"
        /\ Moved(w, "save", j.subject, inv', j.link, j.doc)
    BY <1>6, PullWrites DEF ShowsInv
  <2> QED BY <1>s, <2>1 DEF Over
<1>7. CASE Save(w) \/ SaveSkip(w)
  <2>1. Moved(w, "finish", j.subject, j.inv, j.link, j.doc)
    BY <1>7, EndMoves
  <2>2. CASE Save(w)
    <3>1. j.pc = "save" BY <2>2 DEF Save, WriteLink
    <3>2. /\ link'.doc = j.doc.id /\ link'.snapshot = CanonicalFromInternal(j.inv)
          /\ link'.status = "linked" /\ UNCHANGED <<inv, docs>>
      BY <2>2, LinkedAnew DEF books
    <3> QED BY <1>w, <1>a, <1>v2, <2>1, <3>1, <3>2, CanonicalEnds DEF InSync, LedgerKept, QboKept
  <2>3. CASE SaveSkip(w)
    <3>1. j.pc = "saveSkip" BY <2>3 DEF SaveSkip, WriteLink
    <3>2. /\ link # None /\ link'.snapshot = link.snapshot /\ UNCHANGED <<inv, docs>>
          /\ link'.doc = j.doc.id /\ link'.status = "linked"
      BY <2>3, LinkPatched DEF books
    <3>3. link'.doc = link.doc BY <1>d, <1>l, <3>1, <3>2
    <3> QED BY <1>w, <1>a, <1>v2, <2>1, <3>1, <3>2, <3>3 DEF InSync, LedgerKept, QboKept
  <2> QED BY <1>7, <2>2, <2>3
<1>8. ~Mark(w)
  BY <1>i DEF Mark, WriteLink
<1> QED
  BY <1>1, <1>2, <1>3, <1>4, <1>5, <1>6, <1>7, <1>8 DEF Worker, Forward, Reverse, Reads

LEMMA RealStep ==
  ASSUME Orderly, ~EditsDeleted, TypeInv, RealInv, [Next]_vars
  PROVE  RealInv'
<1> SUFFICES ASSUME Unedited' \/ Unchanged'
             PROVE  /\ Core' /\ EndCore' /\ InSync'
                    /\ Unedited' => LedgerKept'
                    /\ Unchanged' => QboKept'
  BY DEF RealInv
\* People's changes are counted, so one side was unchanged before too.
<1>1. (Unedited' => Unedited) /\ (Unchanged' => Unchanged)
  <2>1. \A k \in Changes : used[k] \in Nat /\ used'[k] \in Nat /\ used'[k] >= used[k]
    <3>1. used \in [DOMAIN Limit -> Nat] /\ Changes \subseteq DOMAIN Limit
      BY Bounds DEF TypeInv, StoresFit, Changes
    <3>2. \A k \in DOMAIN Limit : Spend(k) =>
            \A c \in Changes : used'[c] = used[c] \/ used'[c] = used[c] + 1
      BY SpendCounts DEF Counts
    <3>3. UNCHANGED used \/ \E k \in DOMAIN Limit : Spend(k)
      BY Bounds DEF Next, People, CreateInvoice, EditInternal, RenameCustomer, RecordPayment,
         DeleteInternal, QboEdit, QboEnter, QboVoid, QboTouch, Deliver, Lose, Worker, Interrupt,
         Forward, Reverse, TakeForward, ForwardLink, ForwardRead, ForwardFind, ForwardPush,
         ForwardCreate, ReadToVoid, ForwardVoid, TakeReverse, ReverseLink, ReverseRefetch,
         ReverseApply, ReverseRemove, ReverseWrite, Save, SaveSkip, Mark, WriteLink, Finish,
         Reconciler, RecFails, RecStart, RecHasLink, RecPending, RecList, RecFilter, RecMatch,
         RecLinks, RecDrift, RecRead, RecRefetch, ResolveStart, Resolve, ResolveRefetch,
         ResolveRead, InternalWins, QuickbooksWins, ResolveSave, ResolveFails, vars
    <3> QED BY <3>1, <3>2, <3>3
  <2>2. {"edit", "delete", "qboEdit", "void"} = Changes BY DEF Changes
  <2> QED BY <2>1, <2>2 DEF Unedited, Unchanged
<1>2. /\ Core /\ EndCore /\ InSync /\ (Unedited \/ Unchanged)
      /\ Unedited => LedgerKept
      /\ Unchanged => QboKept
  BY <1>1 DEF RealInv
<1>3. op'.pc = "idle"
  <2>1. ~ResolveStart BY <1>2 DEF InSync, ResolveStart
  <2> QED BY <1>2, <2>1, NobodyResolves
<1>4. Core' /\ EndCore'
  BY <1>2, <1>3, CoreStep, EndStep
<1>5. InSync' /\ (Unedited' => LedgerKept') /\ (Unchanged' => QboKept')
  <2>1. CASE LedgerStep \/ QboStep
    BY <1>2, <2>1, RealPeople
  <2>2. ASSUME NEW w \in Workers, Worker(w)
        PROVE  InSync' /\ (Unedited' => LedgerKept') /\ (Unchanged' => QboKept')
    BY <1>1, <1>2, <2>2, RealWorker
  <2>3. CASE UNCHANGED <<books, link, job>>
    <3>1. Saving' <=> Saving BY <2>3 DEF Saving, At
    <3> QED BY <1>1, <1>2, <2>3, <3>1 DEF InSync, LedgerKept, QboKept, At, books
  <2> QED BY <1>2, <1>3, <2>1, <2>2, <2>3, OrderlyStep DEF Deliver, Lose
<1> QED BY <1>4, <1>5

\* A link is in conflict only after people changed both sides: for one worker when nothing
\* fails, the reconciler keeps out of its way, nobody enters an invoice under our DocNumber
\* and nobody edits one after its deletion; whatever webhooks are lost and whatever else is
\* changed on either side.
THEOREM FlagsAreReal == Orderly /\ ~EditsDeleted => (Spec => []ConflictsAreReal)
<1> SUFFICES ASSUME Orderly, ~EditsDeleted PROVE Spec => []ConflictsAreReal
  OBVIOUS
<1>1. Init => RealInv
  BY RealInit
<1>2. TypeInv /\ RealInv /\ [Next]_vars => RealInv'
  BY RealStep
<1>3. TypeInv /\ RealInv => ConflictsAreReal
  <2> SUFFICES ASSUME TypeInv, RealInv, link # None, link.status = "conflict"
               PROVE  used["edit"] + used["delete"] > 0 /\ used["qboEdit"] + used["void"] > 0
    BY DEF ConflictsAreReal
  <2>1. ~Unedited /\ ~Unchanged
    BY DEF RealInv, InSync
  <2>2. /\ used["edit"] \in Nat /\ used["delete"] \in Nat
        /\ used["qboEdit"] \in Nat /\ used["void"] \in Nat
    BY Bounds DEF TypeInv, StoresFit
  <2> QED BY <2>1, <2>2 DEF Unedited, Unchanged
<1> QED BY <1>1, <1>2, <1>3, TypeInvInit, TypeInvStep, PTL DEF Spec
--------------------------------------------------------------------------------
(***************************************************************************)
(* Versions.  The QuickBooks version in the link never claims of a later   *)
(* state of the invoice that the bridge has seen it: at the version on     *)
(* record the invoice shows what the link says was last in step.           *)
(***************************************************************************)
Same(q, i) == (q.voided <=> Over(i)) /\ (~q.voided => q.amount = i.amount)

LinkVersion ==
  link # None =>
    LET q == docs[link.doc]
    IN  /\ link.qver <= q.token
        /\ link.qver = q.token => Same(q, link.snapshot)

JobVersion(w) ==
  LET j == job[w]
      q == docs[j.doc.id]
  IN  /\ j.pc = "save" /\ j.doc.token = q.token => Same(q, j.inv)
      /\ j.pc = "saveSkip" /\ j.subject # Internal /\ j.doc.token = q.token =>
           Same(q, link.snapshot)

VersionCore == LinkVersion /\ \A w \in Workers : JobVersion(w)

LEMMA VersionInit == Init => VersionCore
  BY DEF Init, VersionCore, LinkVersion, JobVersion, IdleJob, DocPc

LEMMA VersionFrame ==
  ASSUME VersionCore, UNCHANGED <<docs, link, job>>
  PROVE  VersionCore'
<1>1. LinkVersion'
  BY DEF VersionCore, LinkVersion
<1>2. ASSUME NEW w \in Workers PROVE JobVersion(w)'
  BY DEF VersionCore, JobVersion
<1> QED BY <1>1, <1>2 DEF VersionCore

LEMMA VersionPeople ==
  ASSUME TypeInv, Core, VersionCore, LedgerStep \/ QboStep
  PROVE  VersionCore'
<1>1. CASE LedgerStep
  BY <1>1, VersionFrame DEF LedgerStep
<1>2. CASE QboStep
  <2>1. PICK d \in Existing, a \in Shown :
          \/ /\ ~docs[d].voided /\ docs[d].amount # a /\ ShowsDoc(d, a, FALSE)
             /\ Counts("qboEdit") /\ used["qboEdit"] < MaxQboEdits
          \/ ~docs[d].voided /\ ShowsDoc(d, Zero, TRUE) /\ Counts("void")
          \/ ShowsDoc(d, docs[d].amount, docs[d].voided) /\ Counts("touch") /\ MaxTouches # 0
    BY <1>2 DEF QboStep
  <2>2. UNCHANGED <<link, job>> /\ docs'[d].token = docs[d].token + 1 /\ docs[d].token \in Nat
    BY <1>2, <2>1, ReadFits DEF QboStep, ShowsDoc, TypeInv, DocType
  <2>3. \A e \in Existing : e = d
    BY DEF Core, StoreCore
  <2>4. LinkVersion'
    <3> SUFFICES ASSUME link # None PROVE LinkVersion'
      BY <2>2 DEF LinkVersion
    <3>1. link.doc = d /\ link.qver \in Nat
      BY <2>3 DEF TypeInv, StoresFit, StoresAgree, LinkType
    <3>2. link.qver < docs'[d].token
      BY <2>2, <3>1 DEF VersionCore, LinkVersion
    <3> QED BY <2>2, <3>1, <3>2 DEF LinkVersion
  <2>5. ASSUME NEW w \in Workers PROVE JobVersion(w)'
    <3> DEFINE j == job[w]
    <3> SUFFICES ASSUME j.pc \in DocPc PROVE j.doc.token # docs'[j.doc.id].token
      BY <2>2 DEF JobVersion, DocPc
    <3>1. j.doc.id = d /\ j.doc.token \in Nat
      BY <2>3 DEF TypeInv, JobsFit, JobFits, ReadType
    <3>2. j.doc.token <= docs[d].token
      BY <3>1 DEF Core, JobCore
    <3> QED BY <2>2, <3>1, <3>2
  <2> QED BY <2>4, <2>5 DEF VersionCore
<1> QED BY <1>1, <1>2

LEMMA VersionWorker ==
  ASSUME Orderly, TypeInv, Core, EndCore, VersionCore, NEW w \in Workers, Worker(w)
  PROVE  VersionCore'
<1> DEFINE j == job[w]
<1> USE DEF At
<1>w. Workers = {w}
  BY OneJob DEF Orderly
<1>j. /\ JobCore(w) /\ StoreCore /\ JobFits(j) /\ StoresAgree /\ JobEnd(w) /\ LinkEnd
      /\ JobVersion(w) /\ LinkVersion
      /\ link # None => link \in LinkType /\ link.qver \in Nat
      /\ j.pc # "save" /\ link = None => Existing = {}
  BY <1>w DEF Core, EndCore, VersionCore, TypeInv, JobsFit, StoresFit, StoreCore, LinkType
<1>l. link # None => /\ inv # None /\ link.doc \in Existing
                     /\ \A d \in Existing : d = link.doc
  BY <1>j DEF StoresAgree, StoreCore
<1>t. \A d \in Existing : docs[d] \in DocType /\ docs[d].token \in Nat
  BY ReadFits DEF TypeInv, DocType
<1>d. j.pc \in DocPc => /\ j.doc \in ReadType /\ j.doc.id \in Existing /\ j.doc.token \in Nat
  BY <1>j DEF JobFits, ReadType
<1> USE DEF Moved, Dropped, ForwardPc, ReversePc, HeldPc, DocPc
<1>1. CASE Reads(w)
  <2>1. UNCHANGED <<inv, docs, link, used>> /\ j.pc # "save"
    BY <1>1, ReadsWriteNothing
  <2>2. LinkVersion'
    BY <1>j, <2>1 DEF LinkVersion
  <2>3. JobVersion(w)'
    <3>1. CASE TakeForward(w)
      <4>1. Moved(w, "link", Internal, inv, None, None) BY <3>1, ForwardMoves
      <4> QED BY <4>1 DEF JobVersion
    <3>2. CASE ForwardLink(w)
      <4>1. Moved(w, AfterLink(j.inv), j.subject, j.inv, link, j.doc) BY <3>2, ForwardMoves
      <4>2. AfterLink(j.inv) \in {"finish", "readToVoid", "find", "read"} BY DEF AfterLink
      <4> QED BY <4>1, <4>2 DEF JobVersion
    <3>3. CASE ForwardRead(w)
      <4> DEFINE doc == Read(j.link.doc)
                 go  == Decide("internal", j.link, j.inv, doc)
      <4>1. Moved(w, IF go = "apply" THEN "push" ELSE go, j.subject, j.inv, j.link, doc)
        BY <3>3, ForwardMoves
      <4>2. j.pc = "read" /\ j.subject = Internal /\ j.link = link /\ link # None
        BY <1>j, <3>3 DEF ForwardRead, JobCore, JobFits, LinkPc
      <4>3. /\ doc.id \in Existing /\ doc.amount = docs[doc.id].amount
            /\ doc.voided = docs[doc.id].voided /\ doc.token = docs[doc.id].token
        BY <1>l, <4>2, ReadShows
      <4>4. /\ go \in {"apply", "save", "saveSkip", "mark", "finish"}
            /\ go = "save" => CanonicalFromInternal(j.inv) = CanonicalFromQbo(doc)
        BY <1>j, <4>2, DecideMeans DEF StoreCore, Sources
      <4>5. go = "save" => j.inv.amount = doc.amount /\ (Over(j.inv) <=> doc.voided)
        BY <4>4, CanonicalEnds
      <4> HIDE DEF doc, go
      <4> QED BY <2>1, <4>1, <4>2, <4>3, <4>4, <4>5 DEF JobVersion, Same
    <3>4. CASE ForwardFind(w)
      <4>1. j.pc = "find" /\ Existing = {}
        BY <1>j, <3>4 DEF ForwardFind, JobCore
      <4>2. Moved(w, "create", j.subject, j.inv, j.link, j.doc) BY <3>4, <4>1, ForwardMoves
      <4> QED BY <4>2 DEF JobVersion
    <3>5. CASE ReadToVoid(w)
      <4>1. Moved(w, "void", j.subject, j.inv, j.link, Read(j.link.doc)) BY <3>5, ForwardMoves
      <4> QED BY <4>1 DEF JobVersion
    <3>6. ASSUME NEW d \in Docs, TakeReverse(w, d) PROVE JobVersion(w)'
      <4>1. Moved(w, "linkByQbo", d, None, None, Read(d)) BY <3>6, ReverseMoves
      <4> QED BY <4>1 DEF JobVersion
    <3>7. CASE ReverseLink(w)
      <4>1. Moved(w, AfterLinkByQbo(j.doc), j.subject, j.inv, link, j.doc) BY <3>7, ReverseMoves
      <4>2. AfterLinkByQbo(j.doc) \in {"finish", "remove", "refetch"}
        BY DEF AfterLinkByQbo
      <4> QED BY <4>1, <4>2 DEF JobVersion
    <3>8. CASE ReverseRefetch(w)
      <4> DEFINE go == Decide("quickbooks", j.link, inv, j.doc)
      <4>1. Moved(w, go, j.subject, inv, j.link, j.doc) BY <3>8, ReverseMoves
      <4>2. j.pc = "refetch" /\ ~j.doc.voided BY <1>j, <3>8 DEF ReverseRefetch, JobEnd
      <4>3. j.link = link /\ link # None
        BY <1>j, <4>2 DEF JobCore, JobFits, LinkedPc, LinkPc
      <4>4. /\ go \in {"apply", "save", "saveSkip", "mark", "finish"}
            /\ go = "save" => CanonicalFromInternal(inv) = CanonicalFromQbo(j.doc)
            /\ go = "saveSkip" => CanonicalFromQbo(j.doc) = link.snapshot
        BY <1>j, <4>3, DecideMeans DEF StoreCore, Sources
      <4>5. go = "save" => inv.amount = j.doc.amount /\ (Over(inv) <=> j.doc.voided)
        BY <4>4, CanonicalEnds
      <4>6. go = "saveSkip" =>
              j.doc.amount = link.snapshot.amount /\ (Over(link.snapshot) <=> j.doc.voided)
        BY <4>4, CanonicalEnds DEF CanonicalFromQbo
      <4>7. j.doc.token = docs[j.doc.id].token =>
              j.doc.amount = docs[j.doc.id].amount /\ j.doc.voided = docs[j.doc.id].voided
        BY <1>j, <4>2 DEF JobCore
      <4> HIDE DEF go
      <4> QED BY <2>1, <4>1, <4>4, <4>5, <4>6, <4>7 DEF JobVersion, Same
    <3>9. CASE Dropped(w)
      BY <3>9 DEF JobVersion
    <3> QED
      BY <1>1, <3>1, <3>2, <3>3, <3>4, <3>5, <3>6, <3>7, <3>8, <3>9, ForwardMoves, EndMoves DEF Reads
  <2> QED BY <1>w, <2>2, <2>3 DEF VersionCore
\* A write of QuickBooks' side takes the invoice past every version on record.
<1>2. CASE (ForwardPush(w) \/ ForwardVoid(w)) /\ Current(j.doc)
  <2> DEFINE d   == j.doc.id
             doc == Answered(j.doc)
  <2>1. j.pc \in {"push", "void"} /\ docs[d].token = j.doc.token
    BY <1>2 DEF ForwardPush, ForwardVoid, Current
  <2>2. PICK a, v : /\ ShowsDoc(d, a, v)
                    /\ \/ ForwardPush(w) /\ a = j.inv.amount /\ v = docs[d].voided
                       \/ ForwardVoid(w) /\ v = TRUE
                    /\ Moved(w, "save", j.subject, j.inv, j.link, doc)
                    /\ UNCHANGED <<inv, link, used>>
    <3>1. CASE ForwardVoid(w)
      BY <1>2, <3>1, VoidWrites
    <3>2. CASE ForwardPush(w)
      BY <1>2, <3>2, PushWrites
    <3> QED BY <1>2, <3>1, <3>2
  <2>3. doc.id = d /\ doc.token = docs[d].token + 1
    BY <1>d, <2>1, AnsweredShows
  <2>4. docs'[d].token = docs[d].token + 1 /\ docs'[d].voided = v /\ docs'[d].amount = a
    BY <2>2 DEF ShowsDoc
  <2>5. (v <=> Over(j.inv)) /\ (~v => a = j.inv.amount)
    <3>1. CASE ForwardVoid(w)
      <4>1. j.pc = "void" BY <3>1 DEF ForwardVoid
      <4>2. v = TRUE BY <2>2, <3>1, <4>1 DEF ForwardPush
      <4> QED BY <1>j, <4>1, <4>2 DEF JobEnd
    <3>2. CASE ForwardPush(w)
      <4>1. j.pc = "push" BY <3>2 DEF ForwardPush
      <4>2. a = j.inv.amount /\ v = docs[d].voided BY <2>2, <3>2, <4>1 DEF ForwardVoid
      <4>3. /\ CanonicalFromQbo(j.doc) = link.snapshot /\ link # None /\ ~Over(j.inv)
            /\ docs[d].voided = j.doc.voided
        BY <1>j, <1>d, <2>1, <4>1 DEF JobCore, JobEnd
      <4>4. ~Over(link.snapshot) BY <1>j, <4>1, <4>3 DEF JobEnd
      <4>5. ~v BY <4>2, <4>3, <4>4, CanonicalEnds
      <4> QED BY <4>2, <4>3, <4>5
    <3> QED BY <1>2, <3>1, <3>2
  <2> HIDE DEF doc
  <2>6. JobVersion(w)'
    BY <1>t, <1>d, <2>1, <2>2, <2>3, <2>4, <2>5 DEF JobVersion, Same
  <2>7. LinkVersion'
    <3> SUFFICES ASSUME link # None PROVE LinkVersion'
      BY <2>2 DEF LinkVersion
    <3>1. link.doc = d BY <1>d, <1>l, <2>1
    <3>2. link.qver < docs'[d].token
      BY <1>j, <1>d, <1>t, <2>1, <2>4, <3>1 DEF LinkVersion
    <3> QED BY <1>j, <1>d, <1>t, <2>1, <2>2, <2>4, <3>1, <3>2 DEF LinkVersion
  <2> QED BY <1>w, <2>6, <2>7 DEF VersionCore
<1>3. CASE ForwardCreate(w)
  <2>1. j.pc = "create" /\ Existing = {} /\ link = None /\ ~Over(j.inv)
    BY <1>j, <1>3 DEF ForwardCreate, JobCore, JobEnd
  <2>2. PICK d \in Docs, doc \in ReadType :
           /\ docs'[d].amount = j.inv.amount /\ docs'[d].voided = FALSE /\ docs'[d].token = 0
           /\ doc.id = d /\ doc.token = 0
           /\ Moved(w, "save", j.subject, j.inv, j.link, doc)
    BY <1>3, <2>1, CreateShows
  <2>3. UNCHANGED link BY <1>3 DEF ForwardCreate
  <2>4. LinkVersion' BY <2>1, <2>3 DEF LinkVersion
  <2>5. JobVersion(w)' BY <2>1, <2>2 DEF JobVersion, Same
  <2> QED BY <1>w, <2>4, <2>5 DEF VersionCore
<1>4. CASE ReverseApply(w) \/ ReverseRemove(w)
  <2>1. /\ UNCHANGED <<docs, link, used>> /\ j.pc \in {"apply", "remove"}
        /\ Moved(w, "save", j.subject, inv', j.link, j.doc)
        /\ \/ j.pc = "apply" /\ inv'.amount = j.doc.amount /\ inv'.status = "open"
           \/ j.pc = "remove" /\ inv'.status = "deleted"
    BY <1>4, PullWrites DEF ShowsInv, ReverseApply, ReverseRemove, ReverseWrite
  <2>2. LinkVersion' BY <1>j, <2>1 DEF LinkVersion
  <2>3. /\ j.doc.voided => docs[j.doc.id].voided
        /\ j.doc.token = docs[j.doc.id].token =>
             j.doc.amount = docs[j.doc.id].amount /\ j.doc.voided = docs[j.doc.id].voided
        /\ j.pc = "remove" => j.doc.voided
        /\ j.pc = "apply" => ~j.doc.voided
    BY <1>j, <2>1 DEF JobCore, JobEnd
  <2>4. JobVersion(w)'
    BY <2>1, <2>3 DEF JobVersion, Same, Over
  <2> QED BY <1>w, <2>2, <2>4 DEF VersionCore
<1>5. CASE Save(w)
  <2>1. j.pc = "save" /\ j.inv \in InvoiceType
    BY <1>5, <1>j DEF Save, WriteLink, JobFits, InvPc
  <2>2. /\ link' # None /\ link'.doc = j.doc.id /\ link'.qver = j.doc.token
        /\ link'.snapshot = CanonicalFromInternal(j.inv) /\ UNCHANGED docs
    BY <1>5, LinkedAnew DEF books
  <2>3. Moved(w, "finish", j.subject, j.inv, j.link, j.doc)
    BY <1>5, EndMoves
  <2>4. link'.snapshot.amount = j.inv.amount /\ (Over(link'.snapshot) <=> Over(j.inv))
    BY <2>2, CanonicalEnds DEF CanonicalFromInternal
  <2>5. LinkVersion'
    BY <1>j, <2>1, <2>2, <2>4 DEF LinkVersion, JobVersion, JobCore, Same
  <2>6. JobVersion(w)' BY <2>3 DEF JobVersion
  <2> QED BY <1>w, <2>5, <2>6 DEF VersionCore
<1>6. CASE SaveSkip(w) \/ Mark(w)
  <2>1. Moved(w, "finish", j.subject, j.inv, j.link, j.doc) /\ j.pc \in {"saveSkip", "mark"}
    BY <1>6, EndMoves DEF SaveSkip, Mark, WriteLink
  <2>2. /\ link # None /\ link' # None /\ link'.snapshot = link.snapshot
        /\ UNCHANGED docs
    BY <1>6, LinkPatched DEF books
  <2>3. /\ link'.doc = link.doc
        /\ \/ link'.qver = link.qver
           \/ SaveSkip(w) /\ j.subject # Internal /\ link'.qver = j.doc.token /\ j.doc.id = link.doc
    BY <1>6, <1>d, <1>l, <2>2, LinkPatched DEF SaveSkip, WriteLink
  <2>4. LinkVersion'
    <3>1. CASE link'.qver = link.qver
      BY <1>j, <2>2, <2>3, <3>1 DEF LinkVersion
    <3>2. CASE SaveSkip(w) /\ j.subject # Internal /\ link'.qver = j.doc.token /\ j.doc.id = link.doc
      <4>1. j.pc = "saveSkip" BY <3>2 DEF SaveSkip, WriteLink
      <4> QED BY <1>j, <2>2, <2>3, <3>2, <4>1 DEF LinkVersion, JobVersion, JobCore
    <3> QED BY <2>3, <3>1, <3>2
  <2>5. JobVersion(w)' BY <2>1 DEF JobVersion
  <2> QED BY <1>w, <2>4, <2>5 DEF VersionCore
<1> QED
  BY <1>1, <1>2, <1>3, <1>4, <1>5, <1>6 DEF Worker, Forward, Reverse, Reads

LEMMA VersionStep ==
  ASSUME Orderly, TypeInv, Core, EndCore, VersionCore, [Next]_vars, op'.pc = "idle"
  PROVE  VersionCore'
<1>1. ASSUME UNCHANGED <<books, link, job>> PROVE VersionCore'
  BY <1>1, VersionFrame DEF books
<1> QED BY <1>1, OrderlyStep, VersionPeople, VersionWorker DEF Deliver, Lose

\* With nothing under way, two linked sides that differ are held as a conflict or seen by
\* the reconciler, or a skip of the reverse handler has taken the change over: for one
\* worker when nothing fails, the reconciler keeps out of its way, and nobody enters an
\* invoice under our DocNumber, edits one after its deletion or resolves a conflict; for
\* any number of changes on either side, lasting or not, and of lost webhooks.
THEOREM DivergenceShows ==
  Orderly /\ ~EditsDeleted /\ MaxResolves = 0 => (Spec => []DivergenceIsVisible)
<1> SUFFICES ASSUME Orderly, ~EditsDeleted, MaxResolves = 0 PROVE Spec => []DivergenceIsVisible
  OBVIOUS
<1> DEFINE Kept == Core /\ EndCore /\ VersionCore
<1>1. Init => Kept
  BY CoreInit, EndInit, VersionInit
<1>2. TypeInv /\ Kept /\ [Next]_vars => Kept'
  <2> SUFFICES ASSUME TypeInv, Kept, [Next]_vars PROVE Kept'
    OBVIOUS
  <2>1. op'.pc = "idle" BY NobodyResolves, NoneToSpend
  <2> QED BY <2>1, CoreStep, EndStep, VersionStep
<1>3. TypeInv /\ Kept => DivergenceIsVisible
  <2> SUFFICES ASSUME TypeInv, Kept, link # None,
                      ~(docs[link.doc].token > link.qver), Hash(inv) = link.hash, ~Skipped
               PROVE  InStep
    BY DEF DivergenceIsVisible
  <2> DEFINE q == docs[link.doc]
  <2>1. inv \in InvoiceType /\ q.token \in Nat /\ link.qver \in Nat
    BY ReadFits DEF TypeInv, StoresFit, StoresAgree, DocType, LinkType
  <2>2. Same(q, link.snapshot)
    BY <2>1 DEF VersionCore, LinkVersion
  <2>3. link.snapshot = CanonicalFromInternal(inv)
    BY DEF Skipped
  <2>4. link.snapshot.amount = inv.amount /\ (Over(link.snapshot) <=> Over(inv))
    BY <2>3, CanonicalEnds DEF CanonicalFromInternal
  <2> QED BY <2>1, <2>2, <2>4 DEF InStep, Same, Over, InvoiceType
<1> QED BY <1>1, <1>2, <1>3, TypeInvInit, TypeInvStep, PTL DEF Spec
--------------------------------------------------------------------------------
(***************************************************************************)
(* Echoes.  The bridge writes QuickBooks' side only for a change of the    *)
(* internal invoice that its link does not show yet, and the internal side *)
(* only for a version of QuickBooks that the link has not seen: each of    *)
(* people's writes pays for itself and for one of these.                   *)
(***************************************************************************)
QboWrites ==
  IF Existing = {} THEN 0 ELSE docs[CHOOSE d \in Existing : TRUE].token + 1

\* Whether the link misses what i shows, and whether i and k show different things.
Gap(lnk, i) == IF lnk # None /\ lnk.snapshot = CanonicalFromInternal(i) THEN 0 ELSE 1
Apart(i, k) == IF CanonicalFromInternal(i) = CanonicalFromInternal(k) THEN 0 ELSE 1

\* How many of QuickBooks' writes the link has on record, or will have.
Seen(w) ==
  IF At(w, "save") THEN job[w].doc.token + 1 ELSE IF link = None THEN 0 ELSE link.qver + 1

\* How many writes of QuickBooks' side the internal changes may yet set off.
Owed(w) ==
  IF At(w, "save") THEN Apart(job[w].inv, inv)
  ELSE IF job[w].pc \in ForwardPc THEN Gap(link, job[w].inv) + Apart(job[w].inv, inv)
  ELSE Gap(link, inv)

EchoJob(w) ==
  LET j == job[w]
  IN  /\ Seen(w) <= QboWrites
      /\ inv.version + QboWrites - Seen(w) <= PeoplesWrites
      /\ QboWrites + Owed(w) <= PeoplesWrites
      /\ j.pc \in {"create", "push", "readToVoid", "void"} => Gap(link, j.inv) = 1
      /\ j.pc \in {"refetch", "apply", "remove"} => j.doc.token > link.qver
      /\ j.pc = "saveSkip" /\ j.subject # Internal => j.doc.token > link.qver
      /\ j.pc \in {"saveSkip", "mark"} => ~Over(link.snapshot)
      /\ j.pc \in ForwardPc \cup {"save"} /\ Over(j.inv) => Hash(j.inv) = Hash(inv)
      /\ link # None /\ j.pc # "save" /\ Over(link.snapshot) =>
           link.status = "linked" /\ link.hash = Hash(inv)

EchoCore == inv # None => \A w \in Workers : EchoJob(w)

LEMMA EchoInit == Init => EchoCore
  BY DEF Init, EchoCore

LEMMA Distances ==
  ASSUME NEW lnk, NEW i, NEW k
  PROVE  /\ Gap(lnk, i) \in 0..1 /\ Apart(i, k) \in 0..1 /\ Apart(i, i) = 0
         /\ Gap(lnk, k) <= Gap(lnk, i) + Apart(i, k)
         /\ lnk = None => Gap(lnk, i) = 1
         /\ lnk # None => (Gap(lnk, i) = 1 <=> lnk.snapshot # CanonicalFromInternal(i))
         /\ lnk # None /\ lnk.snapshot = CanonicalFromInternal(i) => Gap(lnk, k) = Apart(i, k)
  BY DEF Gap, Apart

LEMMA QboWritesAre ==
  ASSUME TypeInv, Core
  PROVE  /\ QboWrites \in Nat
         /\ Existing = {} => QboWrites = 0
         /\ \A d \in Existing : docs[d].token \in Nat /\ QboWrites = docs[d].token + 1
<1>1. ASSUME NEW d \in Existing PROVE docs[d].token \in Nat /\ QboWrites = docs[d].token + 1
  <2>1. docs[d].token \in Nat BY ReadFits DEF TypeInv, DocType
  <2>2. (CHOOSE e \in Existing : TRUE) = d BY DEF Core, StoreCore
  <2> QED BY <2>1, <2>2 DEF QboWrites
<1> QED BY <1>1 DEF QboWrites

\* What the sum of the versions is when there is one invoice at most.
LEMMA NoWrites == MapThenSumSet(LAMBDA d : docs[d].token + 1, {}) = 0
<1> DEFINE any(s) == CHOOSE x \in s : TRUE
           sum(h) == [s \in SUBSET {} |->
                        IF s = {} THEN 0 ELSE (docs[any(s)].token + 1) + h[s \ {any(s)}]]
           iter   == CHOOSE h : h = sum(h)
           zero   == [s \in SUBSET {} |-> 0]
<1>1. MapThenSumSet(LAMBDA d : docs[d].token + 1, {}) = iter[{}]
  BY DEF MapThenSumSet, MapThenFoldSet
<1>2. zero = sum(zero)
  OBVIOUS
<1>3. iter = sum(iter)
  BY <1>2
<1> HIDE DEF iter
<1> QED BY <1>1, <1>3

LEMMA OnesWrites ==
  ASSUME NEW q, docs[q].token \in Nat
  PROVE  MapThenSumSet(LAMBDA d : docs[d].token + 1, {q}) = docs[q].token + 1
<1> DEFINE any(s) == CHOOSE x \in s : TRUE
           sum(h) == [s \in SUBSET {q} |->
                        IF s = {} THEN 0 ELSE (docs[any(s)].token + 1) + h[s \ {any(s)}]]
           iter   == CHOOSE h : h = sum(h)
           once   == [s \in SUBSET {q} |-> IF s = {} THEN 0 ELSE docs[q].token + 1]
<1>1. MapThenSumSet(LAMBDA d : docs[d].token + 1, {q}) = iter[{q}]
  BY DEF MapThenSumSet, MapThenFoldSet
<1>2. \A s \in SUBSET {q} : s # {} => any(s) = q /\ s \ {any(s)} = {}
  OBVIOUS
<1>3. once = sum(once)
  <2>1. ASSUME NEW s \in SUBSET {q} PROVE once[s] = sum(once)[s]
    <3>1. once[{}] = 0 OBVIOUS
    <3> HIDE DEF any
    <3>2. CASE s = {} BY <3>2
    <3>3. CASE s # {}
      <4>1. sum(once)[s] = (docs[any(s)].token + 1) + once[s \ {any(s)}] BY <3>3
      <4> QED BY <1>2, <3>1, <3>3, <4>1
    <3> QED BY <3>2, <3>3
  <2> QED BY <2>1
<1>4. iter = sum(iter)
  BY <1>3
<1> HIDE DEF iter, any
<1>5. iter[{}] = 0
  BY <1>4
<1>6. iter[{q}] = (docs[any({q})].token + 1) + iter[{q} \ {any({q})}]
  BY <1>4
<1>7. any({q}) = q /\ {q} \ {any({q})} = {}
  BY <1>2
<1>8. iter[{q}] = docs[q].token + 1
  BY <1>5, <1>6, <1>7
<1> QED BY <1>1, <1>8

LEMMA WritesAre == ASSUME TypeInv, Core PROVE Writes = inv.version + QboWrites
<1>1. CASE Existing = {}
  BY <1>1, NoWrites, QboWritesAre DEF Writes
<1>2. ASSUME NEW q \in Existing PROVE Writes = inv.version + QboWrites
  <2>1. Existing = {q} BY DEF Core, StoreCore
  <2> QED BY <2>1, OnesWrites, QboWritesAre DEF Writes
<1> QED BY <1>1, <1>2
--------------------------------------------------------------------------------
\* People's writes are counted, each as one.
LEMMA WritesCount ==
  ASSUME TypeInv
  PROVE  /\ PeoplesWrites \in Nat /\ PeoplesWrites >= 1
         /\ UNCHANGED used => PeoplesWrites' = PeoplesWrites
         /\ \A k \in {"edit", "delete", "qboEdit", "void", "entry", "other", "touch"} :
              Spend(k) => PeoplesWrites' = PeoplesWrites + 1
         /\ Spend("drop") => PeoplesWrites' = PeoplesWrites
<1> DEFINE Kinds == {"edit", "delete", "qboEdit", "void", "entry", "other", "touch"}
<1>1. used \in [DOMAIN Limit -> Nat] /\ Kinds \cup {"drop"} \subseteq DOMAIN Limit
  BY Bounds DEF TypeInv, StoresFit
<1>2. \A k \in Kinds : used[k] \in Nat
  BY <1>1
<1>3. ASSUME NEW k \in Kinds \cup {"drop"}, Spend(k)
      PROVE  \A c \in Kinds : used'[c] = IF c = k THEN used[c] + 1 ELSE used[c]
  <2>1. used' = [used EXCEPT ![k] = @ + 1] BY <1>3 DEF Spend
  <2> QED BY <1>1, <2>1
<1> HIDE DEF Kinds
<1>4. {"edit", "delete", "qboEdit", "void", "entry", "other", "touch"} = Kinds /\ "drop" \notin Kinds
  BY DEF Kinds
<1>5. PeoplesWrites \in Nat /\ PeoplesWrites >= 1
  BY <1>2, <1>4 DEF PeoplesWrites
<1>6. ASSUME NEW k \in Kinds, Spend(k) PROVE PeoplesWrites' = PeoplesWrites + 1
  <2>1. \A c \in Kinds : used'[c] = IF c = k THEN used[c] + 1 ELSE used[c]
    BY <1>3, <1>6
  <2> QED BY <1>2, <1>4, <1>6, <2>1 DEF PeoplesWrites
<1>7. ASSUME Spend("drop") PROVE PeoplesWrites' = PeoplesWrites
  <2>1. \A c \in Kinds : used'[c] = used[c] BY <1>3, <1>4, <1>7
  <2> QED BY <1>4, <2>1 DEF PeoplesWrites
<1> QED BY <1>4, <1>5, <1>6, <1>7 DEF PeoplesWrites

\* The first write of the internal invoice, a later one, one of QuickBooks' side.
Entered ==
  /\ UNCHANGED <<docs, link, job>>
  /\ inv = None /\ inv'.version = 1 /\ PeoplesWrites' = PeoplesWrites
Recorded ==
  /\ UNCHANGED <<docs, link, job>>
  /\ inv # None /\ inv' # None /\ inv'.version = inv.version + 1
  /\ PeoplesWrites' = PeoplesWrites + 1
  /\ Over(inv) => Hash(inv') = Hash(inv)
QboRecorded ==
  /\ UNCHANGED <<inv, link, job>> /\ UNCHANGED Existing
  /\ PeoplesWrites' = PeoplesWrites + 1
  /\ \E d \in Existing : docs'[d].token = docs[d].token + 1

LEMMA VersionsGoUp ==
  ASSUME TypeInv, inv # None, NEW a \in Shown
  PROVE  /\ WithAmount(a).version = inv.version + 1
         /\ Deleted.version = inv.version + 1
         /\ Over(inv) => Hash(Deleted) = Hash(inv)
<1>1. inv \in InvoiceType BY DEF TypeInv, StoresFit
<1>2. inv.version + 1 \in Nat BY <1>1 DEF InvoiceType
<1>3. /\ Deleted.version = inv.version + 1 /\ Deleted.status = "deleted"
      /\ Deleted.amount = inv.amount /\ Deleted.name = inv.name /\ Deleted.paid = inv.paid
  BY <1>1, <1>2 DEF Deleted, InvoiceType
<1>4. WithAmount(a).version = inv.version + 1
  BY <1>1, <1>2 DEF WithAmount, InvoiceType
<1> QED BY <1>3, <1>4 DEF Hash, Over

LEMMA PeopleRecord ==
  ASSUME TypeInv, ~EditsDeleted, MaxEntries = 0, People
  PROVE  Entered \/ Recorded \/ QboRecorded
<1>a. Amounts \subseteq Shown
  BY DEF Shown
<1>1. ASSUME NEW a \in Amounts, CreateInvoice(a) PROVE Entered
  <2> DEFINE new == [amount |-> a, name |-> 0, paid |-> 0, status |-> "open", version |-> 1]
  <2>1. inv' = new BY <1>1 DEF CreateInvoice, WriteInternal
  <2>2. inv'.version = 1 BY <2>1
  <2> QED BY <1>1, <2>2, WritesCount DEF CreateInvoice, WriteInternal, Entered
<1>2. ASSUME NEW a \in Amounts, EditInternal(a) PROVE Recorded
  <2>1. inv' = WithAmount(a) /\ inv # None /\ ~Over(inv) /\ a \in Shown
    BY <1>2, <1>a DEF EditInternal, Editable, WriteInternal, Over
  <2>2. inv' # None BY <1>2, <2>1, AmountShows DEF EditInternal, ShowsInv
  <2> QED BY <1>2, <2>1, <2>2, VersionsGoUp, WritesCount DEF EditInternal, WriteInternal, Recorded
<1>3. CASE RenameCustomer
  <2> DEFINE i == WithAmount(inv.amount)
  <2>1. inv \in InvoiceType /\ inv.amount \in Shown /\ inv # None /\ ~Over(inv)
    BY <1>3 DEF RenameCustomer, Editable, TypeInv, StoresFit, InvoiceType, Over
  <2>2. i \in InvoiceType /\ i.version = inv.version + 1
    BY <2>1, WrittenFits, VersionsGoUp DEF TypeInv
  <2> DEFINE new == [i EXCEPT !.name = 1 - @]
  <2>3. inv' = new
    BY <1>3 DEF RenameCustomer, WriteInternal
  <2> HIDE DEF i
  <2>4. 1 - i.name \in 0..1 BY <2>2 DEF InvoiceType
  <2>5. new \in InvoiceType /\ new.version = inv.version + 1
    BY <2>2, <2>4 DEF InvoiceType
  <2> HIDE DEF new
  <2>6. inv' # None /\ inv'.version = inv.version + 1
    BY <2>3, <2>5, NoneIsNoRecord
  <2> QED BY <1>3, <2>1, <2>6, WritesCount DEF RenameCustomer, WriteInternal, Recorded
<1>4. CASE RecordPayment
  <2>1. inv \in InvoiceType /\ inv.paid + 1 \in Nat /\ inv.version + 1 \in Nat
        /\ inv # None /\ ~Over(inv)
    BY <1>4 DEF RecordPayment, TypeInv, StoresFit, InvoiceType, Over
  <2>2. inv' = [inv EXCEPT !.paid = @ + 1, !.version = @ + 1]
    BY <1>4 DEF RecordPayment
  <2>3. inv' \in InvoiceType /\ inv'.version = inv.version + 1
    BY <2>1, <2>2 DEF InvoiceType
  <2>4. inv' # None BY <2>3, NoneIsNoRecord
  <2> QED BY <1>4, <2>1, <2>3, <2>4, WritesCount DEF RecordPayment, Recorded
<1>5. CASE DeleteInternal
  <2>1. inv' = Deleted /\ inv # None
    BY <1>5 DEF DeleteInternal, WriteInternal
  <2>2. inv' # None BY <1>5, DeleteShows DEF DeleteInternal, ShowsInv
  <2>3. Zero \in Shown BY DEF Shown
  <2> QED BY <1>5, <2>1, <2>2, <2>3, VersionsGoUp, WritesCount
          DEF DeleteInternal, WriteInternal, Recorded
<1>6. ASSUME NEW d \in Docs, NEW a \in Amounts, QboEdit(d, a) PROVE QboRecorded
  <2>1. ShowsDoc(d, a, docs[d].voided) BY <1>6, <1>a, PushShows DEF QboEdit
  <2> QED BY <1>6, <2>1, WritesCount DEF QboEdit, WriteQbo, QboRecorded, ShowsDoc
<1>7. ASSUME NEW d \in Docs, NEW a \in Amounts PROVE ~QboEnter(d, a)
  BY Unspent, Bounds DEF QboEnter, Limit
<1>8. ASSUME NEW d \in Docs, QboVoid(d) PROVE QboRecorded
  <2>1. ShowsDoc(d, Zero, TRUE) BY <1>8, VoidShows DEF QboVoid
  <2> QED BY <1>8, <2>1, WritesCount DEF QboVoid, WriteQbo, QboRecorded, ShowsDoc
<1>9. ASSUME NEW d \in Docs, QboTouch(d) PROVE QboRecorded
  <2>1. ShowsDoc(d, docs[d].amount, docs[d].voided) BY <1>9, TouchShows DEF QboTouch
  <2> QED BY <1>9, <2>1, WritesCount DEF QboTouch, WriteQbo, QboRecorded, ShowsDoc
<1> QED
  BY <1>1, <1>2, <1>3, <1>4, <1>5, <1>6, <1>7, <1>8, <1>9 DEF People

\* The step's effect on what is counted, when it is not a person's nor the worker's.
LEMMA EchoFrame ==
  ASSUME EchoCore, UNCHANGED <<inv, docs, link, job>>, PeoplesWrites' = PeoplesWrites
  PROVE  EchoCore'
<1>1. QboWrites' = QboWrites
  BY DEF QboWrites, Existing
<1>2. ASSUME NEW w \in Workers PROVE Seen(w)' = Seen(w) /\ Owed(w)' = Owed(w)
  BY DEF Seen, Owed, At
<1>3. ASSUME inv # None, NEW w \in Workers PROVE EchoJob(w)'
  BY <1>1, <1>2, <1>3 DEF EchoCore, EchoJob, At
<1> QED BY <1>3 DEF EchoCore

\* Nothing can be under way before the invoice is there.
LEMMA NothingYet ==
  ASSUME TypeInv, Core, inv = None
  PROVE  /\ Existing = {} /\ link = None
         /\ \A w \in Workers : At(w, "idle") /\ \A v \in Workers : ~Worker(v)
<1>1. link = None BY DEF TypeInv, StoresAgree
<1>2. Existing = {}
  BY <1>1 DEF Core, StoreCore, TypeInv, JobsFit, JobFits, InvPc, At
<1>3. Known = {} BY <1>2 DEF Known
<1>4. \A w \in Workers : At(w, "idle")
  BY <1>3 DEF TypeInv, JobsFit, JobFits, At
<1>5. \A s \in Subjects : ~(queue[s] > 0)
  BY <1>3 DEF TypeInv, StoresAgree
<1>6. Internal \in Subjects /\ Docs \subseteq Subjects
  BY DEF Subjects
<1>7. ASSUME NEW w \in Workers PROVE ~Worker(w)
  BY <1>4, <1>5, <1>6 DEF At, Worker, Forward, Reverse, TakeForward, ForwardLink, ForwardRead,
     ForwardFind, ForwardPush, ForwardCreate, ReadToVoid, ForwardVoid, TakeReverse, ReverseLink,
     ReverseRefetch, ReverseApply, ReverseRemove, ReverseWrite, Save, SaveSkip, Mark, WriteLink,
     Finish
<1> QED BY <1>1, <1>2, <1>4, <1>7

LEMMA QboWritesNow ==
  ASSUME NEW d, Existing' = {d} PROVE QboWrites' = docs'[d].token + 1
  BY DEF QboWrites

LEMMA EchoPeople ==
  ASSUME TypeInv, Core, EndCore, EchoCore, Entered \/ Recorded \/ QboRecorded
  PROVE  EchoCore'
<1>q. /\ QboWrites \in Nat /\ PeoplesWrites \in Nat /\ PeoplesWrites >= 1
      /\ inv # None => inv.version \in Nat
  BY QboWritesAre, WritesCount DEF TypeInv, StoresFit, InvoiceType
<1> USE DEF At
<1>1. CASE Entered
  <2>1. /\ Existing = {} /\ Existing' = {} /\ link = None /\ link' = None
        /\ \A w \in Workers : job'[w].pc = "idle"
    BY <1>1, NothingYet DEF Entered, Existing
  <2>2. QboWrites' = 0 BY <2>1 DEF QboWrites
  <2>3. ASSUME NEW w \in Workers PROVE EchoJob(w)'
    <3>1. Seen(w)' = 0 /\ Owed(w)' \in 0..1
      BY <2>1, Distances DEF Seen, Owed, ForwardPc
    <3> QED BY <1>q, <1>1, <2>1, <2>2, <3>1 DEF EchoJob, Entered, ForwardPc
  <2> QED BY <2>3 DEF EchoCore
<1>2. CASE Recorded
  <2>1. QboWrites' = QboWrites BY <1>2 DEF Recorded, QboWrites, Existing
  <2>2. ASSUME NEW w \in Workers PROVE EchoJob(w)'
    <3> DEFINE j == job[w]
    <3>1. EchoJob(w) /\ JobEnd(w) /\ LinkEnd
      BY <1>2 DEF EchoCore, Recorded, EndCore
    <3>2. Seen(w)' = Seen(w)
      BY <1>2 DEF Recorded, Seen
    <3>3. Owed(w)' <= Owed(w) + 1 /\ Owed(w) \in Int /\ Owed(w)' \in Int
      BY <1>2, Distances DEF Recorded, Owed
    <3>4. Seen(w) \in Int
      BY DEF Seen, TypeInv, JobsFit, JobFits, DocPc, ReadType, StoresFit, LinkType
    <3>5. /\ j.pc \in ForwardPc \cup {"save"} /\ Over(j.inv) => Hash(j.inv) = Hash(inv')
          /\ link # None /\ j.pc # "save" /\ Over(link.snapshot) =>
               link.status = "linked" /\ link.hash = Hash(inv')
      BY <1>2, <3>1 DEF EchoJob, JobEnd, LinkEnd, Recorded
    <3> QED BY <1>2, <1>q, <2>1, <3>1, <3>2, <3>3, <3>4, <3>5 DEF EchoJob, Recorded
  <2> QED BY <2>2 DEF EchoCore
<1>3. CASE QboRecorded
  <2>1. PICK d \in Existing : docs'[d].token = docs[d].token + 1
    BY <1>3 DEF QboRecorded
  <2>2. QboWrites' = QboWrites + 1
    <3>1. Existing' = {d} BY <1>3 DEF QboRecorded, Core, StoreCore
    <3> QED BY <2>1, <3>1, QboWritesNow, QboWritesAre
  <2>3. ASSUME inv # None, NEW w \in Workers PROVE EchoJob(w)'
    <3>1. EchoJob(w) BY <2>3 DEF EchoCore
    <3>2. Seen(w)' = Seen(w) /\ Owed(w)' = Owed(w)
      BY <1>3 DEF QboRecorded, Seen, Owed
    <3>3. Owed(w) \in Int BY Distances DEF Owed
    <3>4. Seen(w) \in Int
      BY DEF Seen, TypeInv, JobsFit, JobFits, DocPc, ReadType, StoresFit, LinkType
    <3> QED BY <1>3, <1>q, <2>2, <2>3, <3>1, <3>2, <3>3, <3>4 DEF EchoJob, QboRecorded
  <2> QED BY <1>3, <2>3 DEF EchoCore, QboRecorded
<1> QED BY <1>1, <1>2, <1>3

LEMMA EchoWorker ==
  ASSUME Orderly, TypeInv, Core, EndCore, EchoCore, NEW w \in Workers, Worker(w)
  PROVE  EchoCore'
<1> DEFINE j == job[w]
           P == PeoplesWrites
           Q == QboWrites
<1> USE DEF At
<1>w. Workers = {w}
  BY OneJob DEF Orderly
<1>n. inv # None
  BY NothingYet
<1>j. /\ JobCore(w) /\ StoreCore /\ JobFits(j) /\ StoresAgree /\ JobEnd(w) /\ LinkEnd
      /\ EchoJob(w)
      /\ link # None => link \in LinkType /\ link.qver \in Nat
      /\ j.pc # "save" /\ link = None => Existing = {}
  BY <1>w, <1>n DEF Core, EndCore, EchoCore, TypeInv, JobsFit, StoresFit, StoreCore, LinkType
<1>l. link # None => /\ link.doc \in Existing
                     /\ \A d \in Existing : d = link.doc
  BY <1>j DEF StoresAgree, StoreCore
<1>q. /\ Q \in Nat /\ P \in Nat /\ inv.version \in Nat /\ P' = P
      /\ Existing = {} => Q = 0
      /\ \A d \in Existing : docs[d].token \in Nat /\ Q = docs[d].token + 1
  <2>1. UNCHANGED used
    BY DEF Worker, Forward, Reverse, TakeForward, ForwardLink, ForwardRead, ForwardFind,
       ForwardPush, ForwardCreate, ReadToVoid, ForwardVoid, TakeReverse, ReverseLink,
       ReverseRefetch, ReverseApply, ReverseRemove, ReverseWrite, Save, SaveSkip, Mark,
       WriteLink, Finish
  <2> QED BY <1>n, <2>1, QboWritesAre, WritesCount DEF TypeInv, StoresFit, InvoiceType
<1>d. j.pc \in DocPc => /\ j.doc \in ReadType /\ j.doc.id \in Existing /\ j.doc.token \in Nat
                        /\ j.doc.token <= docs[j.doc.id].token
  BY <1>j DEF JobFits, ReadType, JobCore
<1>s. /\ Seen(w) \in Nat /\ Owed(w) \in Int
      /\ Seen(w) <= Q /\ inv.version + Q - Seen(w) <= P /\ Q + Owed(w) <= P
  <2>1. Seen(w) \in Nat
    <3>1. link # None => link.qver + 1 \in Nat BY <1>j
    <3>2. j.pc = "save" => j.doc.token + 1 \in Nat BY <1>d DEF DocPc
    <3> QED BY <3>1, <3>2 DEF Seen
  <2>2. Owed(w) \in Int BY Distances DEF Owed
  <2> QED BY <1>j, <2>1, <2>2 DEF EchoJob
<1>v. inv.version <= P
  BY <1>q, <1>s
<1> HIDE DEF P, Q
<1> USE DEF Moved, Dropped, ForwardPc, ReversePc, HeldPc, DocPc
\* What is left to show of a step.
<1>x. ASSUME inv'.version \in Nat, P' \in Nat, Q' \in Nat, EchoJob(w)' PROVE EchoCore'
  BY <1>w, <1>x DEF EchoCore
<1>1. CASE Reads(w)
  <2>1. UNCHANGED <<inv, docs, link>> /\ j.pc # "save" /\ Q' = Q
    <3>1. UNCHANGED <<inv, docs, link>> /\ j.pc # "save" BY <1>1, ReadsWriteNothing
    <3> QED BY <3>1 DEF Q, QboWrites, Existing
  \* How much is owed, and what else is left to show, wherever the handler goes.
  <2>o. \/ j.pc \in ForwardPc /\ Owed(w) = Gap(link, j.inv) + Apart(j.inv, inv)
        \/ j.pc \notin ForwardPc /\ Owed(w) = Gap(link, inv)
    BY <2>1 DEF Owed
  <2>g. /\ Gap(link, inv) <= Owed(w) /\ Gap(link, inv) \in 0..1 /\ Apart(inv, inv) = 0
        /\ j.pc \in ForwardPc => /\ Gap(link, j.inv) \in 0..1 /\ Apart(j.inv, inv) \in 0..1
                                 /\ Apart(j.inv, inv) <= Owed(w)
    BY <2>o, Distances
  <2>r. ASSUME job'[w].pc \in {"create", "push", "readToVoid", "void"} =>
                 Gap(link, job'[w].inv) = 1,
               job'[w].pc \in ForwardPc \cup {"save"} =>
                 \/ job'[w].inv = inv
                 \/ j.pc \in ForwardPc /\ job'[w].inv = j.inv,
               job'[w].pc = "save" => job'[w].doc.token + 1 \in Seen(w)..Q,
               job'[w].pc \in {"refetch", "apply", "remove"} => job'[w].doc.token > link.qver,
               job'[w].pc = "saveSkip" /\ job'[w].subject # Internal
                 => job'[w].doc.token > link.qver,
               job'[w].pc \in {"saveSkip", "mark"} => ~Over(link.snapshot)
        PROVE  EchoCore'
    <3> DEFINE k == job'[w]
    <3>1. Seen(w)' \in Seen(w)..Q
      <4>1. CASE k.pc = "save" BY <2>r, <4>1 DEF Seen
      <4>2. CASE k.pc # "save" BY <1>s, <1>q, <2>1, <4>2 DEF Seen
      <4> QED BY <4>1, <4>2
    <3>2. Owed(w)' \in Int /\ Owed(w)' <= Owed(w)
      <4>1. CASE k.pc = "save"
        <5>1. Owed(w)' = Apart(k.inv, inv) BY <2>1, <4>1 DEF Owed
        <5> QED BY <2>g, <2>r, <4>1, <5>1, <1>s
      <4>2. CASE k.pc \in ForwardPc
        <5>1. Owed(w)' = Gap(link, k.inv) + Apart(k.inv, inv) BY <2>1, <4>2 DEF Owed
        <5> QED BY <2>o, <2>g, <2>r, <4>2, <5>1, <1>s
      <4>3. CASE k.pc \notin ForwardPc \cup {"save"}
        <5>1. Owed(w)' = Gap(link, inv) BY <2>1, <4>3 DEF Owed
        <5> QED BY <2>g, <5>1, <1>s
      <4> QED BY <4>1, <4>2, <4>3
    <3>3. Seen(w)' <= Q' /\ inv'.version + Q' - Seen(w)' <= P' /\ Q' + Owed(w)' <= P'
      <4>1. Seen(w)' \in Int /\ Seen(w) <= Seen(w)' /\ Seen(w)' <= Q BY <1>q, <1>s, <3>1
      <4>2. Q' = Q /\ P' = P /\ inv' = inv BY <1>q, <2>1
      <4>3. inv.version + Q - Seen(w)' <= P /\ Q + Owed(w)' <= P
        BY <1>q, <1>s, <3>2, <4>1
      <4> QED BY <4>1, <4>2, <4>3
    <3>4. /\ k.pc \in ForwardPc \cup {"save"} /\ Over(k.inv) => Hash(k.inv) = Hash(inv)
          /\ link # None /\ Over(link.snapshot) => link.status = "linked" /\ link.hash = Hash(inv)
      BY <1>j, <2>1, <2>r DEF EchoJob
    <3> QED BY <1>w, <2>1, <2>r, <3>3, <3>4 DEF EchoCore, EchoJob, P, Q
  <2>2. CASE TakeForward(w)
    <3>1. Moved(w, "link", Internal, inv, None, None) BY <2>2, ForwardMoves
    <3> QED BY <2>r, <3>1
  <2>3. CASE ForwardLink(w)
    <3>1. Moved(w, AfterLink(j.inv), j.subject, j.inv, link, j.doc) /\ j.pc = "link"
      BY <2>3, ForwardMoves DEF ForwardLink
    <3>2. AfterLink(j.inv) \in {"finish", "readToVoid", "find", "read"}
      BY DEF AfterLink
    <3>3. AfterLink(j.inv) = "readToVoid" => Gap(link, j.inv) = 1
      <4> SUFFICES ASSUME AfterLink(j.inv) = "readToVoid", Gap(link, j.inv) # 1 PROVE FALSE
        OBVIOUS
      <4>1. /\ link # None /\ Over(j.inv)
            /\ ~(link.status = "linked" /\ link.hash = Hash(j.inv))
        BY DEF AfterLink, Over
      <4>2. link.snapshot = CanonicalFromInternal(j.inv)
        BY <4>1 DEF Gap
      <4>3. Over(link.snapshot) BY <4>1, <4>2, CanonicalEnds
      <4> QED BY <1>j, <3>1, <4>1, <4>3 DEF EchoJob
    <3> QED BY <2>r, <3>1, <3>2, <3>3
  <2>4. CASE ForwardRead(w)
    <3> DEFINE doc == Read(j.link.doc)
               go  == Decide("internal", j.link, j.inv, doc)
    <3>1. Moved(w, IF go = "apply" THEN "push" ELSE go, j.subject, j.inv, j.link, doc)
      BY <2>4, ForwardMoves
    <3>2. j.pc = "read" /\ j.subject = Internal /\ j.link = link /\ link # None
      BY <1>j, <2>4 DEF ForwardRead, JobCore, JobFits, LinkPc
    <3>3. doc.token + 1 = Q
      BY <1>l, <1>q, <3>2, ReadShows
    <3>4. /\ go \in {"apply", "save", "saveSkip", "mark", "finish"}
          /\ go = "apply" => CanonicalFromInternal(j.inv) # link.snapshot
      BY <1>j, <3>2, DecideMeans DEF StoreCore, Sources
    <3>5. go = "apply" => Gap(link, j.inv) = 1
      BY <3>4 DEF Gap
    <3>6. ~Over(link.snapshot)
      BY <1>j, <3>2 DEF JobEnd
    <3>7. Q \in Seen(w)..Q
      BY <1>q, <1>s
    <3> HIDE DEF doc, go
    <3> QED BY <2>r, <3>1, <3>2, <3>3, <3>4, <3>5, <3>6, <3>7
  <2>5. CASE ForwardFind(w)
    <3>1. j.pc = "find" /\ Existing = {} /\ link = None
      BY <1>j, <2>5 DEF ForwardFind, JobCore
    <3>2. Moved(w, "create", j.subject, j.inv, j.link, j.doc) BY <2>5, <3>1, ForwardMoves
    <3>3. Gap(link, j.inv) = 1 BY <3>1, Distances
    <3> QED BY <2>r, <3>1, <3>2, <3>3
  <2>6. CASE ReadToVoid(w)
    <3>1. Moved(w, "void", j.subject, j.inv, j.link, Read(j.link.doc)) /\ j.pc = "readToVoid"
      BY <2>6, ForwardMoves DEF ReadToVoid
    <3> QED BY <1>j, <2>r, <3>1 DEF EchoJob
  <2>7. ASSUME NEW d \in Docs, TakeReverse(w, d) PROVE EchoCore'
    <3>1. Moved(w, "linkByQbo", d, None, None, Read(d)) BY <2>7, ReverseMoves
    <3> QED BY <2>r, <3>1
  <2>8. CASE ReverseLink(w)
    <3>1. Moved(w, AfterLinkByQbo(j.doc), j.subject, j.inv, link, j.doc) /\ j.pc = "linkByQbo"
      BY <2>8, ReverseMoves DEF ReverseLink
    <3>2. /\ AfterLinkByQbo(j.doc) \in {"finish", "remove", "refetch"}
          /\ AfterLinkByQbo(j.doc) # "finish" => link # None /\ ~(j.doc.token <= link.qver)
      BY DEF AfterLinkByQbo
    <3>3. AfterLinkByQbo(j.doc) # "finish" => j.doc.token > link.qver
      BY <1>j, <1>d, <3>1, <3>2
    <3> QED BY <2>r, <3>1, <3>2, <3>3
  <2>9. CASE ReverseRefetch(w)
    <3> DEFINE go == Decide("quickbooks", j.link, inv, j.doc)
    <3>1. Moved(w, go, j.subject, inv, j.link, j.doc) BY <2>9, ReverseMoves
    <3>2. j.pc = "refetch" /\ ~j.doc.voided BY <1>j, <2>9 DEF ReverseRefetch, JobEnd
    <3>3. link # None /\ ~Over(link.snapshot) /\ j.doc.token > link.qver
      BY <1>j, <3>2 DEF JobCore, JobFits, LinkedPc, LinkPc, JobEnd, EchoJob
    <3>4. go \in {"apply", "save", "saveSkip", "mark", "finish"} BY DecideGoes
    <3>5. j.doc.token + 1 \in Seen(w)..Q
      <4>1. Seen(w) = link.qver + 1 BY <3>2, <3>3 DEF Seen
      <4> QED BY <1>d, <1>j, <1>q, <3>2, <3>3, <4>1
    <3> HIDE DEF go
    <3> QED BY <2>r, <3>1, <3>2, <3>3, <3>4, <3>5
  <2>10. CASE Dropped(w)
    <3>1. job'[w].pc = "idle" BY <2>10 DEF IdleJob
    <3> QED BY <2>r, <3>1
  <2> QED
    BY <1>1, <2>2, <2>3, <2>4, <2>5, <2>6, <2>7, <2>8, <2>9, <2>10, ForwardMoves, EndMoves DEF Reads
<1>2. CASE (ForwardPush(w) \/ ForwardVoid(w)) /\ Current(j.doc)
  <2> DEFINE d   == j.doc.id
             doc == Answered(j.doc)
  <2>1. j.pc \in {"push", "void"} /\ docs[d].token = j.doc.token
    BY <1>2 DEF ForwardPush, ForwardVoid, Current
  <2>2. PICK a, v : /\ ShowsDoc(d, a, v)
                    /\ Moved(w, "save", j.subject, j.inv, j.link, doc)
                    /\ UNCHANGED <<inv, link>>
    BY <1>2, PushWrites, VoidWrites
  <2>3. doc.token = docs[d].token + 1
    BY <1>d, <2>1, AnsweredShows
  <2>4. Q = docs[d].token + 1 /\ Q' = Q + 1 /\ docs[d].token \in Nat
    <3>1. Existing' = {d} BY <1>d, <1>j, <2>1, <2>2 DEF ShowsDoc, StoreCore
    <3>2. docs'[d].token = docs[d].token + 1 BY <2>2 DEF ShowsDoc
    <3> QED BY <1>d, <1>q, <2>1, <3>1, <3>2, QboWritesNow DEF Q
  <2>5. Owed(w) = 1 + Apart(j.inv, inv) /\ Apart(j.inv, inv) \in 0..1
    BY <1>j, <2>1, Distances DEF Owed, EchoJob
  <2> HIDE DEF doc
  <2>6. Seen(w)' = Q' /\ Owed(w)' = Apart(j.inv, inv)
    <3>1. job'[w].pc = "save" /\ job'[w].doc = doc /\ job'[w].inv = j.inv BY <2>2
    <3>2. Seen(w)' = doc.token + 1 BY <3>1 DEF Seen
    <3> QED BY <2>2, <2>3, <2>4, <3>1, <3>2 DEF Owed
  <2>7. Seen(w)' <= Q' /\ inv'.version + Q' - Seen(w)' <= P' /\ Q' + Owed(w)' <= P'
    <3>1. inv'.version = inv.version BY <2>2
    <3>2. Q \in Nat /\ P \in Nat /\ inv.version \in Nat /\ P' = P BY <1>q
    <3>3. Q + 1 + Apart(j.inv, inv) <= P BY <1>s, <2>5, <3>2
    <3> QED BY <1>v, <2>4, <2>5, <2>6, <3>1, <3>2, <3>3
  <2>8. Over(j.inv) => Hash(j.inv) = Hash(inv)
    BY <1>j, <2>1 DEF EchoJob
  <2> QED BY <1>w, <2>2, <2>7, <2>8 DEF EchoCore, EchoJob, P, Q
<1>3. CASE ForwardCreate(w)
  <2>1. j.pc = "create" /\ Existing = {} /\ link = None /\ ~Over(j.inv)
    BY <1>j, <1>3 DEF ForwardCreate, JobCore, JobEnd
  <2>2. PICK d \in Docs, doc \in ReadType :
           /\ Existing' = {d} /\ UNCHANGED inv /\ docs'[d].token = 0
           /\ doc.id = d /\ doc.token = 0
           /\ Moved(w, "save", j.subject, j.inv, j.link, doc)
    BY <1>3, <2>1, CreateShows
  <2>3. Q = 0 /\ Q' = 1 BY <1>q, <2>1, <2>2, QboWritesNow DEF Q
  <2>4. Owed(w) = 1 + Apart(j.inv, inv) /\ Apart(j.inv, inv) \in 0..1
    BY <1>j, <2>1, Distances DEF Owed, EchoJob
  <2>5. Seen(w)' = 1 /\ Owed(w)' = Apart(j.inv, inv)
    BY <2>2 DEF Seen, Owed
  <2>6. Seen(w)' <= Q' /\ inv'.version + Q' - Seen(w)' <= P' /\ Q' + Owed(w)' <= P'
    BY <1>q, <1>s, <1>v, <2>2, <2>3, <2>4, <2>5
  <2> QED BY <1>w, <2>1, <2>2, <2>6 DEF EchoCore, EchoJob, P, Q
<1>4. CASE ReverseApply(w) \/ ReverseRemove(w)
  <2>1. /\ UNCHANGED <<docs, link>> /\ j.pc \in {"apply", "remove"}
        /\ Moved(w, "save", j.subject, inv', j.link, j.doc)
    BY <1>4, PullWrites DEF ReverseApply, ReverseRemove, ReverseWrite
  <2>2. inv'.version = inv.version + 1
    <3>1. inv' = WithAmount(j.doc.amount) \/ inv' = Deleted
      BY <1>4 DEF ReverseApply, ReverseRemove, ReverseWrite, WriteInternal
    <3>2. j.doc.amount \in Shown BY <1>d, <2>1 DEF ReadType
    <3> QED BY <1>n, <3>1, <3>2, VersionsGoUp
  <2>3. Q' = Q BY <2>1 DEF Q, QboWrites, Existing
  <2>4. /\ Seen(w) = link.qver + 1 /\ j.doc.token > link.qver /\ link.qver \in Nat
        /\ j.doc.token \in Nat /\ j.doc.token + 1 <= Q
    <3>1. link # None /\ j.doc.token > link.qver
      BY <1>j, <2>1 DEF JobFits, LinkedPc, LinkPc, EchoJob, JobCore
    <3> QED BY <1>d, <1>j, <1>q, <2>1, <3>1 DEF Seen
  <2>5. Seen(w)' = j.doc.token + 1 /\ Owed(w)' = 0
    BY <2>1, Distances DEF Seen, Owed
  <2>6. Owed(w) >= 0
    BY <1>j, <2>1, Distances DEF Owed
  <2>7. Seen(w)' <= Q' /\ inv'.version + Q' - Seen(w)' <= P' /\ Q' + Owed(w)' <= P'
    BY <1>q, <1>s, <2>2, <2>3, <2>4, <2>5, <2>6
  <2> QED BY <1>w, <2>1, <2>7 DEF EchoCore, EchoJob, P, Q
<1>5. CASE Save(w)
  <2>1. j.pc = "save" BY <1>5 DEF Save, WriteLink
  <2>2. /\ link' # None /\ link'.doc = j.doc.id /\ link'.qver = j.doc.token
        /\ link'.status = "linked" /\ link'.hash = Hash(j.inv)
        /\ link'.snapshot = CanonicalFromInternal(j.inv)
        /\ UNCHANGED <<inv, docs>>
    BY <1>5, LinkedAnew DEF books
  <2>3. Moved(w, "finish", j.subject, j.inv, j.link, j.doc)
    BY <1>5, EndMoves
  <2>4. Q' = Q BY <2>2 DEF Q, QboWrites, Existing
  <2>5. Seen(w)' = Seen(w) /\ Owed(w)' = Owed(w)
    BY <2>1, <2>2, <2>3, Distances DEF Seen, Owed
  <2>6. Over(link'.snapshot) => link'.hash = Hash(inv)
    BY <1>j, <2>1, <2>2, CanonicalEnds DEF EchoJob
  <2> QED BY <1>w, <1>q, <1>s, <2>2, <2>3, <2>4, <2>5, <2>6 DEF EchoCore, EchoJob, P, Q
<1>6. CASE SaveSkip(w) \/ Mark(w)
  <2>1. Moved(w, "finish", j.subject, j.inv, j.link, j.doc) /\ j.pc \in {"saveSkip", "mark"}
    BY <1>6, EndMoves DEF SaveSkip, Mark, WriteLink
  <2>2. /\ link # None /\ link' # None /\ link'.snapshot = link.snapshot
        /\ UNCHANGED <<inv, docs>>
    BY <1>6, LinkPatched DEF books
  <2>3. ~Over(link.snapshot) BY <1>j, <2>1 DEF EchoJob
  <2>4. Q' = Q BY <2>2 DEF Q, QboWrites, Existing
  <2>5. link'.qver \in link.qver..(Q - 1)
    <3>0. link.qver \in Nat /\ link.qver + 1 <= Q
      BY <1>j, <1>s, <2>1, <2>2 DEF Seen
    <3>1. CASE Mark(w)
      BY <1>q, <3>0, <3>1, LinkPatched
    <3>2. CASE SaveSkip(w)
      <4>1. j.pc = "saveSkip" BY <3>2 DEF SaveSkip, WriteLink
      <4>2. link'.qver = IF j.subject = Internal THEN link.qver ELSE j.doc.token
        BY <3>2, LinkPatched
      <4>3. j.subject # Internal => j.doc.token > link.qver
        BY <1>j, <4>1 DEF EchoJob
      <4>4. j.doc.token \in Nat /\ j.doc.token + 1 <= Q
        BY <1>d, <1>q, <4>1
      <4> QED BY <1>q, <3>0, <4>2, <4>3, <4>4
    <3> QED BY <1>6, <3>1, <3>2
  <2>6. Owed(w) = Gap(link, inv) /\ Owed(w)' = Gap(link, inv)
    BY <2>1, <2>2 DEF Owed, Gap
  <2>7. Seen(w) = link.qver + 1 /\ Seen(w)' = link'.qver + 1
    BY <2>1, <2>2 DEF Seen
  <2>8. Seen(w)' <= Q' /\ inv'.version + Q' - Seen(w)' <= P' /\ Q' + Owed(w)' <= P'
    BY <1>j, <1>q, <1>s, <2>2, <2>4, <2>5, <2>6, <2>7
  <2> QED BY <1>w, <2>1, <2>2, <2>3, <2>8 DEF EchoCore, EchoJob, P, Q
<1> QED
  BY <1>1, <1>2, <1>3, <1>4, <1>5, <1>6 DEF Worker, Forward, Reverse, Reads

\* When neither people nor the worker act, nothing that is counted moves.
LEMMA OrderlyQuiet ==
  ASSUME Orderly, TypeInv, Core, [Next]_vars, op'.pc = "idle", ~People,
         ~\E w \in Workers : Worker(w)
  PROVE  UNCHANGED <<books, link, job>> /\ PeoplesWrites' = PeoplesWrites
<1>1. CASE \E s \in Subjects : Deliver(s) \/ Lose(s)
  <2>1. ASSUME NEW s \in Subjects, Deliver(s) \/ Lose(s)
        PROVE  UNCHANGED <<books, link, job>> /\ (UNCHANGED used \/ Spend("drop"))
    BY <2>1 DEF Deliver, Lose
  <2> QED BY <1>1, <2>1, WritesCount
<1>2. ASSUME NEW k, k = "fault" PROVE ~Spend(k)
  BY <1>2, Unspent, Bounds DEF Orderly, Limit
<1>3. CASE RecFails \/ ResolveFails \/ \E w \in Workers : Interrupt(w)
  BY <1>2, <1>3 DEF RecFails, ResolveFails, Interrupt
<1>4. CASE Reconciler
  <2>1. RecMatch => UNCHANGED link
    <3> SUFFICES ASSUME RecMatch PROVE UNCHANGED link
      OBVIOUS
    <3>1. rec.found = {} BY DEF RecMatch, Core, ScanCore
    <3> QED BY <3>1 DEF RecMatch
  <2>2. UNCHANGED <<books, link, job, used>>
    BY <1>4, <2>1 DEF Reconciler, RecStart, RecHasLink, RecPending, RecList, RecFilter,
       RecMatch, RecLinks, RecDrift, RecRead, RecRefetch
  <2> QED BY <2>2, WritesCount
<1>5. CASE ResolveStart \/ Resolve
  <2>1. op.pc = "idle" /\ ~Resolve
    BY DEF Core, StoreCore, Resolve, ResolveRefetch, ResolveRead, InternalWins, QuickbooksWins,
       ResolveSave
  <2>2. ResolveStart => op'.pc = "refetch"
    BY DEF TypeInv, OpFits, ResolveStart
  <2> QED BY <1>5, <2>1, <2>2
<1>6. CASE UNCHANGED vars
  BY <1>6, WritesCount DEF vars, outbox, books
<1> QED BY <1>1, <1>3, <1>4, <1>5, <1>6 DEF Next

LEMMA EchoStep ==
  ASSUME Orderly, ~EditsDeleted, TypeInv, Core, EndCore, EchoCore, [Next]_vars, op'.pc = "idle"
  PROVE  EchoCore'
<1>1. CASE People
  BY <1>1, PeopleRecord, EchoPeople DEF Orderly
<1>2. ASSUME NEW w \in Workers, Worker(w) PROVE EchoCore'
  BY <1>2, EchoWorker
<1>3. CASE ~People /\ ~\E w \in Workers : Worker(w)
  BY <1>3, OrderlyQuiet, EchoFrame DEF books
<1> QED BY <1>1, <1>2, <1>3

\* The bridge's own writes die out: each side's versions together grow at most twice as often
\* as people write, so no echo of the bridge's writing sets off another without end.  For one
\* worker when nothing fails, the reconciler keeps out of its way, and nobody enters an
\* invoice under our DocNumber, edits one after its deletion or resolves a conflict; for any
\* number of changes on either side and of lost webhooks.
THEOREM EchoesAreBounded ==
  Orderly /\ Workers # {} /\ ~EditsDeleted /\ MaxResolves = 0 => (Spec => []EchoesDieOut)
<1> SUFFICES ASSUME Orderly, Workers # {}, ~EditsDeleted, MaxResolves = 0
             PROVE  Spec => []EchoesDieOut
  OBVIOUS
<1> DEFINE Kept == Core /\ EndCore /\ EchoCore
<1>1. Init => Kept
  BY CoreInit, EndInit, EchoInit
<1>2. TypeInv /\ Kept /\ [Next]_vars => Kept'
  <2> SUFFICES ASSUME TypeInv, Kept, [Next]_vars PROVE Kept'
    OBVIOUS
  <2>1. op'.pc = "idle" BY NobodyResolves, NoneToSpend
  <2> QED BY <2>1, CoreStep, EndStep, EchoStep
<1>3. TypeInv /\ Kept => EchoesDieOut
  <2> SUFFICES ASSUME TypeInv, Kept, inv # None
               PROVE  Writes <= 2 * PeoplesWrites + used["fault"] + used["resolve"]
    BY DEF EchoesDieOut
  <2>1. PICK w : Workers = {w}
    BY DEF Orderly, Alone
  <2>2. /\ Seen(w) <= QboWrites /\ inv.version + QboWrites - Seen(w) <= PeoplesWrites
        /\ QboWrites + Owed(w) <= PeoplesWrites
    BY <2>1 DEF EchoCore, EchoJob
  <2>3. Owed(w) \in Int /\ Owed(w) >= 0
    BY Distances DEF Owed
  <2>4. Seen(w) \in Int
    BY <2>1 DEF Seen, At, TypeInv, JobsFit, JobFits, DocPc, ReadType, StoresFit, LinkType
  <2>5. /\ QboWrites \in Nat /\ PeoplesWrites \in Nat /\ inv.version \in Nat
        /\ used["fault"] \in Nat /\ used["resolve"] \in Nat
    BY QboWritesAre, WritesCount, Bounds DEF TypeInv, StoresFit, InvoiceType
  <2>6. Writes = inv.version + QboWrites
    BY WritesAre
  <2> QED BY <2>2, <2>3, <2>4, <2>5, <2>6
<1> QED BY <1>1, <1>2, <1>3, TypeInvInit, TypeInvStep, PTL DEF Spec
--------------------------------------------------------------------------------
(***************************************************************************)
(* Conflicts.  Whatever fails and whoever resolves, the one worker gets to *)
(* a write of an amount only from a link it has read as none or as linked; *)
(* and while no worker starts between the reconciler's reads and its write *)
(* and nobody enters an invoice under our DocNumber, the link is still so. *)
(***************************************************************************)
Calm == ~Reconciling \/ (~Overlap /\ used["entry"] = 0)

Free == link # None => link.status = "linked"

HoldStore ==
  /\ ~Reconciling => rec.pc = "idle"
  /\ op.pc # "idle" => link # None
  /\ used["entry"] = 0 => \A d, e \in Existing : d = e

\* The reconciler's candidate is there only while the invoice has no link, and no handler of
\* the internal invoice is under way.
HoldScan ==
  Calm => /\ rec.pc \in ScanPc => \A w \in Workers : job[w].subject # Internal
          /\ rec.pc = "match" /\ rec.found # {} => link = None

HoldJob(w) ==
  LET j == job[w]
  IN  /\ j.pc \in ForwardPc => j.subject = Internal
      /\ j.pc \in ReversePc => j.subject # Internal
      /\ j.pc = "save" /\ j.subject # Internal => link # None
      /\ j.pc = "create" /\ used["entry"] = 0 => Existing = {}
      /\ j.pc = "find" => j.link = None
      /\ j.pc = "push" => j.link = None \/ j.link.status = "linked"
      /\ j.pc = "apply" => j.link.status = "linked"
      /\ Calm /\ j.pc \in {"find", "push", "apply"} => Free
      /\ Calm /\ j.pc \in {"read", "refetch"} /\ j.link.status = "linked" => Free

Hold == HoldStore /\ HoldScan /\ \A w \in Workers : HoldJob(w)

LEMMA HoldInit == Init => Hold
  BY DEF Init, Hold, HoldStore, HoldScan, HoldJob, IdleOp, IdleRec, IdleJob, Existing,
     ForwardPc, ReversePc, ScanPc

LEMMA DecideHolds ==
  ASSUME NEW source \in {"internal", "quickbooks"}, NEW lnk \in LinkType, NEW i, NEW doc,
         Decide(source, lnk, i, doc) = "apply"
  PROVE  lnk.status = "linked"
<1> SUFFICES ASSUME lnk.status = "conflict" PROVE FALSE
  BY DEF LinkType
<1>1. Decide(source, lnk, i, doc) \in {"save", "finish"}
  BY DEF Decide
<1> QED BY <1>1

\* An invoice somebody enters ends the calm, if the reconciler runs; nothing else does.
LEMMA HoldFrame ==
  ASSUME Hold, UNCHANGED <<link, job, rec, op>>,
         \/ UNCHANGED Existing /\ used'["entry"] = used["entry"]
         \/ used'["entry"] # 0
  PROVE  Hold'
<1>1. (Calm' => Calm) /\ (Free' <=> Free)
  BY DEF Calm, Free
<1>2. HoldStore' BY DEF Hold, HoldStore
<1>3. HoldScan' BY <1>1 DEF Hold, HoldScan
<1>4. ASSUME NEW w \in Workers PROVE HoldJob(w)'
  BY <1>1 DEF Hold, HoldJob
<1> QED BY <1>2, <1>3, <1>4 DEF Hold

LEMMA EntriesStay ==
  ASSUME TypeInv, NEW k \in DOMAIN Limit, Spend(k)
  PROVE  /\ k # "entry" => used'["entry"] = used["entry"]
         /\ k = "entry" => used'["entry"] # 0
<1>1. /\ used' = [used EXCEPT ![k] = @ + 1] /\ used \in [DOMAIN Limit -> Nat]
      /\ "entry" \in DOMAIN Limit
  BY Bounds DEF Spend, TypeInv, StoresFit
<1> QED BY <1>1

LEMMA HoldPeople ==
  ASSUME TypeInv, Hold, People \/ \E s \in Subjects : Deliver(s) \/ Lose(s)
  PROVE  Hold'
<1> DEFINE still == UNCHANGED Existing /\ used'["entry"] = used["entry"]
<1>1. ASSUME NEW d \in Docs, NEW a \in Amounts, QboEdit(d, a) PROVE still
  <2>1. UNCHANGED Existing
    BY <1>1, PushShows DEF QboEdit, ShowsDoc, Shown
  <2> QED BY <1>1, <2>1, EntriesStay, Bounds DEF QboEdit
<1>2. ASSUME NEW d \in Docs, QboVoid(d) PROVE still
  <2>1. UNCHANGED Existing
    BY <1>2, VoidShows DEF QboVoid, ShowsDoc
  <2> QED BY <1>2, <2>1, EntriesStay, Bounds DEF QboVoid
<1>3. ASSUME NEW d \in Docs, QboTouch(d) PROVE still
  <2>1. UNCHANGED Existing
    BY <1>3, TouchShows DEF QboTouch, ShowsDoc
  <2> QED BY <1>3, <2>1, EntriesStay, Bounds DEF QboTouch
<1>4. ASSUME NEW d \in Docs, NEW a \in Amounts, QboEnter(d, a) PROVE used'["entry"] # 0
  BY <1>4, EntriesStay, Bounds DEF QboEnter
<1>5. ASSUME \/ RenameCustomer \/ RecordPayment \/ DeleteInternal
             \/ \E a \in Amounts : CreateInvoice(a) \/ EditInternal(a)
      PROVE  still
  <2>1. UNCHANGED docs
    BY <1>5 DEF RenameCustomer, RecordPayment, DeleteInternal, CreateInvoice, EditInternal,
       WriteInternal
  <2>2. UNCHANGED used \/ Spend("other") \/ Spend("delete") \/ Spend("edit")
    BY <1>5 DEF RenameCustomer, RecordPayment, DeleteInternal, CreateInvoice, EditInternal
  <2> QED BY <2>1, <2>2, EntriesStay, Bounds DEF Existing
<1>6. ASSUME NEW s \in Subjects, Deliver(s) \/ Lose(s) PROVE still
  <2>1. UNCHANGED docs /\ (UNCHANGED used \/ Spend("drop"))
    BY <1>6 DEF Deliver, Lose, books
  <2> QED BY <2>1, EntriesStay, Bounds DEF Existing
<1>7. UNCHANGED <<link, job, rec, op>>
  BY DEF People, CreateInvoice, EditInternal, RenameCustomer, RecordPayment, DeleteInternal,
     QboEdit, QboEnter, QboVoid, QboTouch, Deliver, Lose
<1>8. still \/ used'["entry"] # 0
  BY <1>1, <1>2, <1>3, <1>4, <1>5, <1>6 DEF People
<1> QED BY <1>7, <1>8, HoldFrame

\* The operator writes the link as linked, and only where there is one.
LEMMA HoldOp ==
  ASSUME TypeInv, Hold, ResolveStart \/ Resolve \/ ResolveFails
  PROVE  Hold'
<1>1. UNCHANGED <<job, rec>> /\ used'["entry"] = used["entry"]
  <2>1. UNCHANGED used \/ Spend("resolve") \/ Spend("fault")
    BY DEF ResolveStart, Resolve, ResolveFails, ResolveRefetch, ResolveRead, InternalWins,
       QuickbooksWins, ResolveSave
  <2>2. used'["entry"] = used["entry"]
    BY <2>1, EntriesStay, Bounds
  <2> QED
    BY <2>2 DEF ResolveStart, Resolve, ResolveFails, ResolveRefetch, ResolveRead, InternalWins,
       QuickbooksWins, ResolveSave
<1>2. UNCHANGED Existing
  <2>1. CASE InternalWins
    <3>1. op.doc.id \in Existing /\ op.inv.amount \in Shown
      BY <2>1 DEF InternalWins, TypeInv, OpFits, InvoiceType
    <3>2. UNCHANGED docs \/ WriteQbo(op.doc.id, Pushed(op.doc.id, op.inv.amount))
      BY <2>1 DEF InternalWins, books
    <3>3. CASE UNCHANGED docs BY <3>3 DEF Existing
    <3> QED BY <3>1, <3>2, <3>3, PushShows DEF ShowsDoc
  <2>2. CASE UNCHANGED docs BY <2>2 DEF Existing
  <2> QED
    BY <2>1, <2>2 DEF ResolveStart, Resolve, ResolveFails, ResolveRefetch, ResolveRead,
       QuickbooksWins, WriteInternal, ResolveSave, books
<1>3. op'.pc # "idle" => link # None
  BY DEF Hold, HoldStore, TypeInv, OpFits, ResolveStart, Resolve, ResolveFails, ResolveRefetch,
     ResolveRead, InternalWins, QuickbooksWins, ResolveSave, IdleOp
<1>4. link' = link \/ (link # None /\ link' # None /\ link'.status = "linked")
  <2>1. CASE ResolveSave
    <3>1. /\ op.link.doc \in Docs /\ op.inv \in InvoiceType /\ op.doc.token \in Nat
          /\ link # None
      BY <2>1 DEF ResolveSave, TypeInv, OpFits, Hold, HoldStore, LinkType, ReadType
    <3>2. link' = SyncedLink(op.link.doc, op.inv, op.doc.token)
      BY <2>1 DEF ResolveSave
    <3>3. link' \in LinkType BY <3>1, <3>2, SyncedFits
    <3>4. link' # None BY <3>3, NoneIsNoRecord
    <3> QED BY <3>1, <3>2, <3>4 DEF SyncedLink
  <2> QED
    BY <2>1 DEF ResolveStart, Resolve, ResolveFails, ResolveRefetch, ResolveRead, InternalWins,
       QuickbooksWins
<1>5. (Calm' <=> Calm) /\ (Free => Free') /\ (link # None => link' # None)
      /\ (link' # link => Free')
  BY <1>1, <1>4 DEF Calm, Free
<1>6. HoldStore' BY <1>1, <1>2, <1>3, <1>5 DEF Hold, HoldStore
<1>7. HoldScan' BY <1>1, <1>4, <1>5 DEF Hold, HoldScan
<1>8. ASSUME NEW w \in Workers PROVE HoldJob(w)'
  BY <1>1, <1>2, <1>5 DEF Hold, HoldJob
<1> QED BY <1>6, <1>7, <1>8 DEF Hold

\* What the reconciler writes of the one candidate it has.
LEMMA LinkedByRec ==
  ASSUME TypeInv, RecMatch, link' # link
  PROVE  /\ \E m \in rec.found : rec.found = {m} /\ link'.doc = m.id
         /\ link' # None /\ link'.hash = Hash(rec.inv)
         /\ link = None => link'.snapshot \in {CanonicalFromInternal(rec.inv), None}
<1>1. PICK m \in rec.found :
        /\ rec.found = {m}
        /\ link' = LET new == SyncedLink(m.id, rec.inv, m.token)
                   IN  IF m.amount = rec.inv.amount THEN new
                       ELSE [new EXCEPT !.status = "conflict",
                               !.snapshot = IF link = None THEN None ELSE link.snapshot]
  BY DEF RecMatch
<1> DEFINE new == SyncedLink(m.id, rec.inv, m.token)
           snapshot == IF link = None THEN None ELSE link.snapshot
           held == [new EXCEPT !.status = "conflict", !.snapshot = snapshot]
<1>2. m \in ReadType /\ m.id \in Docs /\ rec.inv \in InvoiceType /\ m.token \in Nat
  BY DEF RecMatch, TypeInv, RecFits, UnlinkedPc, ReadType
<1>3. /\ new \in LinkType /\ new.doc = m.id /\ new.hash = Hash(rec.inv)
      /\ new.snapshot = CanonicalFromInternal(rec.inv)
  BY <1>2, SyncedFits DEF SyncedLink
<1>4. link' = new \/ link' = held
  BY <1>1
<1> HIDE DEF new
<1>5. snapshot \in CanonicalType \cup {None}
  BY DEF TypeInv, StoresFit, LinkType
<1> HIDE DEF snapshot
<1>6. held \in LinkType /\ held.doc = m.id /\ held.hash = Hash(rec.inv) /\ held.snapshot = snapshot
  BY <1>3, <1>5 DEF LinkType
<1> HIDE DEF held
<1>7. new # None /\ held # None
  BY <1>3, <1>6, NoneIsNoRecord
<1> QED BY <1>1, <1>3, <1>4, <1>6, <1>7 DEF snapshot

LEMMA HoldReconciler ==
  ASSUME TypeInv, Hold, Reconciler \/ RecFails
  PROVE  Hold'
<1>1. UNCHANGED <<docs, job, op>> /\ UNCHANGED Existing
  BY DEF Reconciler, RecFails, RecStart, RecHasLink, RecPending, RecList, RecFilter, RecMatch,
     RecLinks, RecDrift, RecRead, RecRefetch, books, Existing
<1>2. used'["entry"] = used["entry"]
  <2>1. UNCHANGED used \/ Spend("fault")
    BY DEF Reconciler, RecFails, RecStart, RecHasLink, RecPending, RecList, RecFilter, RecMatch,
       RecLinks, RecDrift, RecRead, RecRefetch
  <2> QED BY <2>1, EntriesStay, Bounds
<1>3. Reconciling
  BY DEF Hold, HoldStore, Reconciler, RecFails, RecStart, RecHasLink, RecPending, RecList,
     RecFilter, RecMatch, RecLinks, RecDrift, RecRead, RecRefetch
<1>4. Calm' <=> Calm
  BY <1>2 DEF Calm
<1>5. link' # link => RecMatch
  BY DEF Reconciler, RecFails, RecStart, RecHasLink, RecPending, RecList, RecFilter, RecMatch,
     RecLinks, RecDrift, RecRead, RecRefetch
<1>6. link # None => link' # None
  BY <1>5, LinkedByRec
<1>7. Calm /\ link' # link => link = None /\ \A w \in Workers : job[w].subject # Internal
  BY <1>5, LinkedByRec DEF RecMatch, Hold, HoldScan, ScanPc
<1>8. HoldStore' BY <1>1, <1>2, <1>3, <1>6 DEF Hold, HoldStore
<1>9. ASSUME NEW w \in Workers PROVE HoldJob(w)'
  <2>1. HoldJob(w) /\ JobFits(job[w])
    BY DEF Hold, TypeInv, JobsFit
  <2>2. CASE UNCHANGED link
    BY <1>1, <1>2, <1>4, <2>1, <2>2 DEF HoldJob, Free
  <2>3. CASE Calm /\ link' # link
    <3>1. job[w].pc \notin ForwardPc \cup {"refetch", "apply"}
      BY <1>7, <2>1, <2>3 DEF HoldJob, JobFits, LinkedPc, LinkPc
    <3> QED BY <1>1, <1>2, <1>6, <2>1, <3>1 DEF HoldJob, ForwardPc
  <2>4. CASE ~Calm
    BY <1>1, <1>2, <1>4, <1>6, <2>1, <2>4 DEF HoldJob
  <2> QED BY <2>2, <2>3, <2>4
<1>10. HoldScan'
  <2> DEFINE free == \A w \in Workers : job[w].subject # Internal
  <2> SUFFICES ASSUME Calm PROVE HoldScan'
    BY <1>4 DEF HoldScan
  <2>1. /\ rec.pc \in ScanPc => free
        /\ \A d, e \in Existing : d = e
    BY <1>3 DEF Hold, HoldScan, HoldStore, Calm
  <2>2. CASE RecPending
    <3>1. rec' = [rec EXCEPT !.pc = IF Pending(Internal) THEN "links" ELSE "list"]
      BY <2>2 DEF RecPending, RecGoto
    <3>2. rec'.pc = IF Pending(Internal) THEN "links" ELSE "list"
      BY <3>1 DEF TypeInv, RecFits
    <3>3. ~Pending(Internal) => free
      BY DEF Pending
    <3> QED BY <1>1, <3>2, <3>3 DEF HoldScan, ScanPc
  <2>3. CASE RecList
    <3>1. rec'.pc = "filter" /\ free
      BY <2>1, <2>3 DEF RecList, TypeInv, RecFits, ScanPc
    <3> QED BY <1>1, <3>1 DEF HoldScan
  <2>4. CASE RecFilter
    <3>1. /\ rec'.pc = "match" /\ free /\ UNCHANGED link
          /\ rec'.found = {m \in rec.found : link = None \/ link.doc # m.id}
      BY <2>1, <2>4 DEF RecFilter, TypeInv, RecFits, ScanPc
    <3>2. link # None => \A m \in rec.found : link.doc = m.id
      BY <2>1 DEF TypeInv, RecFits, StoresAgree
    <3>3. rec'.found # {} => link = None
      BY <3>1, <3>2
    <3> QED BY <1>1, <3>1, <3>3 DEF HoldScan
  <2>5. CASE ~(RecPending \/ RecList \/ RecFilter)
    <3>n. ASSUME rec'.pc \notin ScanPc PROVE HoldScan'
      BY <3>n DEF HoldScan, ScanPc
    <3>1. CASE RecStart
      <4>1. rec' = [IdleRec EXCEPT !.inv = inv,
                      !.pc = IF inv.status = "deleted" THEN "links" ELSE "hasLink"]
        BY <3>1 DEF RecStart
      <4> QED BY <3>n, <4>1 DEF IdleRec, ScanPc
    <3>2. CASE RecLinks
      <4>1. rec' = IF link # None /\ link.status = "linked"
                   THEN [IdleRec EXCEPT !.link = link, !.pc = "drift"] ELSE IdleRec
        BY <3>2 DEF RecLinks
      <4>2. rec'.pc \in {"drift", "idle"}
        BY <4>1 DEF IdleRec
      <4> QED BY <3>n, <4>2 DEF ScanPc
    <3>3. ASSUME NEW pc \in {"links", "pending", "refetch", "read"}, RecGoto(pc) PROVE HoldScan'
      <4>1. rec'.pc = pc
        BY <3>3 DEF RecGoto, TypeInv, RecFits
      <4> QED BY <3>n, <4>1 DEF ScanPc
    <3>4. ASSUME rec' = IdleRec PROVE HoldScan'
      BY <3>n, <3>4 DEF IdleRec, ScanPc
    <3>5. CASE RecHasLink \/ RecMatch
      BY <3>3, <3>5 DEF RecHasLink, RecMatch
    <3>6. CASE RecDrift
      BY <3>3, <3>4, <3>6 DEF RecDrift
    <3>7. CASE RecRead \/ RecRefetch \/ RecFails
      BY <3>3, <3>4, <3>7 DEF RecRead, RecRefetch, RecFails
    <3> QED BY <2>5, <3>1, <3>2, <3>5, <3>6, <3>7 DEF Reconciler
  <2> QED BY <2>2, <2>3, <2>4, <2>5
<1> QED BY <1>8, <1>9, <1>10 DEF Hold

LEMMA HoldWorker ==
  ASSUME Alone, TypeInv, Hold, NEW w \in Workers, Worker(w) \/ Interrupt(w)
  PROVE  Hold'
<1> DEFINE j == job[w]
<1> USE DEF At
<1>w. Workers = {w}
  BY OneJob
<1>j. /\ HoldJob(w) /\ HoldStore /\ HoldScan /\ JobFits(j)
      /\ used["entry"] \in Nat /\ link \in LinkType \cup {None}
  BY Bounds DEF Hold, TypeInv, JobsFit, StoresFit
<1>c. /\ UNCHANGED <<rec, op>> /\ used'["entry"] = used["entry"]
      /\ Calm' <=> Calm
  <2>1. UNCHANGED <<rec, op>> /\ (UNCHANGED used \/ Spend("fault"))
    BY DEF Worker, Interrupt, Forward, Reverse, TakeForward, ForwardLink, ForwardRead,
       ForwardFind, ForwardPush, ForwardCreate, ReadToVoid, ForwardVoid, TakeReverse, ReverseLink,
       ReverseRefetch, ReverseApply, ReverseRemove, ReverseWrite, Save, SaveSkip, Mark, WriteLink,
       Finish
  <2> QED BY <2>1, EntriesStay, Bounds DEF Calm
<1> USE DEF Moved, Dropped
\* The stores and the scan, when no invoice is created.
<1>s. ASSUME UNCHANGED Existing, link # None => link' # None PROVE HoldStore'
  BY <1>j, <1>c, <1>s DEF HoldStore
<1>n. ASSUME job'[w].subject \in {j.subject, None} \/ Undisturbed,
             link' = link \/ link # None
      PROVE  HoldScan'
  <2> SUFFICES ASSUME Calm PROVE HoldScan'
    BY <1>c DEF HoldScan
  <2>1. rec.pc \in ScanPc => ~Undisturbed
    BY <1>j DEF Calm, HoldStore, ScanPc, Undisturbed
  <2> QED BY <1>w, <1>j, <1>c, <1>n, <2>1, NamesDiffer DEF HoldScan, ScanPc
<1> USE DEF ForwardPc, ReversePc
<1>1. CASE Reads(w) \/ Interrupt(w)
  <2>1. UNCHANGED <<docs, link>> /\ UNCHANGED Existing
    BY <1>1, ReadsWriteNothing DEF Interrupt, books, Existing
  <2>f. Free' <=> Free BY <2>1 DEF Free
  <2>2. HoldJob(w)' /\ (job'[w].subject \in {j.subject, None} \/ Undisturbed)
    <3>1. CASE TakeForward(w)
      <4>1. Moved(w, "link", Internal, inv, None, None) BY <3>1, ForwardMoves
      <4> QED BY <3>1, <4>1 DEF TakeForward, HoldJob
    <3>2. CASE ForwardLink(w)
      <4>1. Moved(w, AfterLink(j.inv), j.subject, j.inv, link, j.doc) BY <3>2, ForwardMoves
      <4>2. AfterLink(j.inv) \in {"finish", "readToVoid", "find", "read"}
            /\ (AfterLink(j.inv) = "find" => link = None)
        BY DEF AfterLink
      <4>3. j.pc = "link" /\ j.subject = Internal BY <1>j, <3>2 DEF ForwardLink, HoldJob
      <4> QED BY <1>c, <2>1, <2>f, <4>1, <4>2, <4>3 DEF HoldJob, Free
    <3>3. CASE ForwardRead(w)
      <4> DEFINE doc == Read(j.link.doc)
                 go  == Decide("internal", j.link, j.inv, doc)
      <4>1. Moved(w, IF go = "apply" THEN "push" ELSE go, j.subject, j.inv, j.link, doc)
        BY <3>3, ForwardMoves
      <4>2. j.pc = "read" /\ j.subject = Internal /\ j.link \in LinkType
        BY <1>j, <3>3 DEF ForwardRead, HoldJob, JobFits, LinkPc
      <4>3. go \in {"apply", "save", "saveSkip", "mark", "finish"}
        BY DecideGoes
      <4>4. go = "apply" => j.link.status = "linked"
        BY <4>2, DecideHolds
      <4> HIDE DEF doc, go
      <4> QED BY <1>j, <1>c, <2>1, <2>f, <4>1, <4>2, <4>3, <4>4 DEF HoldJob
    <3>4. CASE ForwardFind(w)
      <4>1. j.pc = "find" /\ j.subject = Internal /\ j.link = None
        BY <1>j, <3>4 DEF ForwardFind, HoldJob
      <4>2. \/ \E d \in Existing : Moved(w, "push", j.subject, j.inv, j.link, Read(d))
            \/ Existing = {} /\ Moved(w, "create", j.subject, j.inv, j.link, j.doc)
        BY <3>4, ForwardMoves
      <4> QED BY <1>j, <1>c, <2>1, <2>f, <4>1, <4>2 DEF HoldJob
    <3>5. CASE ReadToVoid(w)
      <4>1. Moved(w, "void", j.subject, j.inv, j.link, Read(j.link.doc)) BY <3>5, ForwardMoves
      <4>2. j.subject = Internal BY <1>j, <3>5 DEF ReadToVoid, HoldJob
      <4> QED BY <4>1, <4>2 DEF HoldJob
    <3>6. ASSUME NEW d \in Docs, TakeReverse(w, d)
          PROVE  HoldJob(w)' /\ (job'[w].subject \in {j.subject, None} \/ Undisturbed)
      <4>1. Moved(w, "linkByQbo", d, None, None, Read(d)) BY <3>6, ReverseMoves
      <4> QED BY <3>6, <4>1, NamesDiffer DEF HoldJob, TakeReverse
    <3>7. CASE ReverseLink(w)
      <4>1. Moved(w, AfterLinkByQbo(j.doc), j.subject, j.inv, link, j.doc) BY <3>7, ReverseMoves
      <4>2. AfterLinkByQbo(j.doc) \in {"finish", "remove", "refetch"} BY DEF AfterLinkByQbo
      <4>3. j.subject # Internal BY <1>j, <3>7 DEF ReverseLink, HoldJob
      <4> QED BY <1>c, <2>1, <2>f, <4>1, <4>2, <4>3 DEF HoldJob, Free
    <3>8. CASE ReverseRefetch(w)
      <4> DEFINE go == Decide("quickbooks", j.link, inv, j.doc)
      <4>1. Moved(w, go, j.subject, inv, j.link, j.doc) BY <3>8, ReverseMoves
      <4>2. j.pc = "refetch" /\ j.subject # Internal /\ j.link \in LinkType /\ link # None
        BY <1>j, <3>8 DEF ReverseRefetch, HoldJob, JobFits, LinkPc, LinkedPc
      <4>3. go \in {"apply", "save", "saveSkip", "mark", "finish"} BY DecideGoes
      <4>4. go = "apply" => j.link.status = "linked"
        BY <4>2, DecideHolds
      <4> HIDE DEF go
      <4> QED BY <1>j, <1>c, <2>1, <2>f, <4>1, <4>2, <4>3, <4>4 DEF HoldJob
    <3>9. CASE Dropped(w)
      BY <3>9 DEF HoldJob
    <3> QED
      BY <1>1, <3>1, <3>2, <3>3, <3>4, <3>5, <3>6, <3>7, <3>8, <3>9, ForwardMoves, EndMoves DEF Reads
  <2> QED BY <1>w, <1>s, <1>n, <2>1, <2>2 DEF Hold
\* The writes lead to the link write, and that to the end.
<1>o. ASSUME job'[w].pc = "save", link # None \/ j.subject = Internal, UNCHANGED link,
             job'[w].subject = j.subject
      PROVE  HoldJob(w)' /\ HoldScan'
  BY <1>o, <1>n DEF HoldJob
<1>2. CASE (ForwardPush(w) \/ ForwardVoid(w)) /\ Current(j.doc)
  <2>1. /\ j.pc \in {"push", "void"} /\ j.doc.id \in Existing
        /\ j.pc = "push" => j.inv.amount \in Shown
    BY <1>2, <1>j DEF ForwardPush, ForwardVoid, JobFits, DocPc, InvPc, InvoiceType
  <2>2. UNCHANGED Existing /\ UNCHANGED link
        /\ Moved(w, "save", j.subject, j.inv, j.link, Answered(j.doc))
    BY <1>2, PushWrites, VoidWrites DEF ShowsDoc
  <2>3. j.subject = Internal BY <1>j, <2>1 DEF HoldJob
  <2> QED BY <1>w, <1>s, <1>o, <2>2, <2>3 DEF Hold
<1>3. CASE ForwardCreate(w)
  <2>1. j.pc = "create" /\ j.subject = Internal /\ UNCHANGED link
    BY <1>j, <1>3 DEF ForwardCreate, HoldJob
  <2>2. \E doc : Moved(w, "save", j.subject, j.inv, j.link, doc)
    BY <1>3, ForwardMoves
  <2>3. used["entry"] = 0 => \A d, e \in Existing' : d = e
    BY <1>j, <1>3, <2>1, CreateShows DEF HoldJob
  <2>4. HoldStore' BY <1>j, <1>c, <2>1, <2>3 DEF HoldStore
  <2> QED BY <1>w, <1>o, <2>1, <2>2, <2>4 DEF Hold
<1>4. CASE ReverseApply(w) \/ ReverseRemove(w)
  <2>1. /\ UNCHANGED <<docs, link>> /\ UNCHANGED Existing /\ j.pc \in {"apply", "remove"}
        /\ Moved(w, "save", j.subject, inv', j.link, j.doc)
    BY <1>4, PullWrites DEF ReverseApply, ReverseRemove, ReverseWrite, Existing
  <2>2. link # None BY <1>j, <2>1 DEF JobFits, LinkedPc
  <2> QED BY <1>w, <1>s, <1>o, <2>1, <2>2 DEF Hold
<1>5. CASE Save(w) \/ SaveSkip(w) \/ Mark(w)
  <2>1. Moved(w, "finish", j.subject, j.inv, j.link, j.doc)
    BY <1>5, EndMoves
  <2>2. UNCHANGED Existing /\ link' # None
    BY <1>5, LinkedAnew, LinkPatched DEF books, Existing
  <2>3. HoldJob(w)' BY <2>1 DEF HoldJob
  <2>4. HoldScan'
    <3>1. CASE link # None
      BY <1>n, <2>1, <3>1
    <3>2. CASE link = None
      <4>1. j.pc = "save" /\ j.subject = Internal
        BY <1>j, <1>5, <3>2, LinkPatched DEF Save, WriteLink, HoldJob
      <4>2. Calm => rec.pc \notin ScanPc
        BY <1>j, <4>1 DEF HoldScan
      <4> QED BY <1>c, <4>2 DEF HoldScan, ScanPc
    <3> QED BY <3>1, <3>2
  <2> QED BY <1>w, <1>s, <2>2, <2>3, <2>4 DEF Hold
<1> QED
  BY <1>1, <1>2, <1>3, <1>4, <1>5 DEF Worker, Forward, Reverse, Reads

LEMMA HoldStep == Alone /\ TypeInv /\ Hold /\ [Next]_vars => Hold'
<1> SUFFICES ASSUME Alone, TypeInv, Hold, [Next]_vars PROVE Hold'
  OBVIOUS
<1>1. CASE UNCHANGED vars
  BY <1>1, HoldFrame DEF vars, books, Existing
<1> QED BY <1>1, HoldPeople, HoldOp, HoldReconciler, HoldWorker DEF Next

\* While a link is in conflict one worker writes no amount on either side, whatever people
\* change, fails or is resolved meanwhile and whoever found the conflict; unless the
\* reconciler, which went between a handler's reads or met an invoice somebody entered, has
\* written the link since that handler read it.
THEOREM ConflictsAreHeld == Alone => (Spec => HeldConflictIsHeld)
<1> SUFFICES ASSUME Alone PROVE Spec => HeldConflictIsHeld
  OBVIOUS
<1>1. TypeInv /\ Hold /\ [Next]_vars => Hold'
  BY HoldStep
<1>2. TypeInv /\ Hold /\ [Next]_vars =>
        [link # None /\ link.status = "conflict" =>
           \A w \in Workers :
             (At(w, "push") \/ At(w, "apply")) /\ job'[w].pc = "save" => RelinkedMeanwhile(w)]_vars
  <2> SUFFICES ASSUME TypeInv, Hold, link # None, link.status = "conflict", NEW w \in Workers,
                      At(w, "push") \/ At(w, "apply")
               PROVE  RelinkedMeanwhile(w)
    OBVIOUS
  <2>1. HoldJob(w) /\ used["entry"] \in Nat
    BY Bounds DEF Hold, TypeInv, StoresFit
  <2>2. ~Calm
    BY <2>1 DEF HoldJob, At, Free
  <2>3. job[w].link # link
    BY <2>1 DEF HoldJob, At
  <2>4. Reconciling /\ (Overlap \/ used["entry"] > 0)
    BY <2>1, <2>2 DEF Calm
  <2> QED BY <2>3, <2>4 DEF RelinkedMeanwhile
<1> QED BY <1>1, <1>2, HoldInit, TypeInvInit, TypeInvStep, PTL DEF Spec, HeldConflictIsHeld
--------------------------------------------------------------------------------
(***************************************************************************)
(* Deletions.  While a deleted invoice is open in QuickBooks, the event    *)
(* that voids it is on its way, or is being handled, or is dead, or the    *)
(* bridge has lost sight of it in one of the two ways the property names.  *)
(* Calls may fail and processes die at any step.                           *)
(***************************************************************************)
Coming == sent[Internal] > 0 \/ queue[Internal] > 0

Voiding(w) == job[w].pc \in {"link", "readToVoid", "void"} /\ Over(job[w].inv)

\* The handler goes by an earlier state of the invoice.
Outdated(w) == job[w].pc \in InvPc /\ Hash(job[w].inv) # Hash(inv)

GoneStore ==
  /\ used["entry"] = 0 /\ op.pc = "idle"
  /\ link # None /\ link.snapshot # None /\ Over(link.snapshot) => docs[link.doc].voided
  /\ link = None /\ Existing # {} =>
       used["fault"] > 0 \/ \E w \in Workers : At(w, "save") /\ job[w].subject = Internal
  /\ rec.pc \in UnlinkedPc => ~Over(rec.inv)

\* What was void when it was read is void, and a handler records an end only of an
\* invoice that is void.
GoneJob(w) ==
  LET j == job[w]
  IN  /\ j.pc \in {"find", "create", "read", "push"} => ~Over(j.inv)
      /\ j.pc \in {"linkByQbo", "remove"} => (j.doc.voided => docs[j.doc.id].voided)
      /\ j.pc = "remove" => j.doc.voided
      /\ j.pc = "refetch" => ~j.doc.voided
      /\ j.pc = "save" /\ Over(j.inv) => docs[j.doc.id].voided

Ended == \A d \in Existing : docs[d].voided

GoneMain ==
  used["drop"] = 0 /\ inv # None /\ Over(inv) =>
    /\ \/ Ended \/ Coming \/ dead # {} \/ Skipped \/ LinkWasLost
       \/ \E w \in Workers : Voiding(w)
    /\ \A w \in Workers : Outdated(w) => Coming

Gone == GoneStore /\ GoneMain /\ \A w \in Workers : GoneJob(w)

\* One worker, the reconciler not between its reads, and nobody who enters an invoice under
\* our DocNumber or resolves a conflict.
Reaching == Alone /\ MaxEntries = 0 /\ MaxResolves = 0 /\ (~Reconciling \/ ~Overlap)

LEMMA GoneInit == Init => Gone
<1> SUFFICES ASSUME Init PROVE Gone
  OBVIOUS
<1>1. GoneStore
  BY Bounds DEF Init, GoneStore, IdleOp, IdleRec, Existing, UnlinkedPc
<1>2. GoneMain
  BY DEF Init, GoneMain
<1>3. ASSUME NEW w \in Workers PROVE GoneJob(w)
  BY DEF Init, GoneJob, IdleJob
<1> QED BY <1>1, <1>2, <1>3 DEF Gone

LEMMA HashTells == ASSUME NEW i, NEW k, Hash(i) = Hash(k) PROVE Over(i) <=> Over(k)
  BY DEF Hash, Over

\* What a handler saves without a write of its own shows the same on both sides.
LEMMA DecideSaves ==
  ASSUME NEW source \in Sources, NEW lnk \in LinkType, NEW i, NEW doc,
         Decide(source, lnk, i, doc) = "save"
  PROVE  CanonicalFromInternal(i) = CanonicalFromQbo(doc)
<1>1. CASE lnk.snapshot # None
  BY <1>1, DecideMeans
<1>2. CASE lnk.snapshot = None
  <2>1. Analyze(lnk.snapshot, CanonicalFromInternal(i), CanonicalFromQbo(doc)) = "no-basis"
    BY <1>2 DEF Analyze
  <2>2. Decide(source, lnk, i, doc) \in {"finish", "apply"}
    BY <2>1 DEF Decide, ActionFor
  <2> QED BY <2>2
<1> QED BY <1>1, <1>2

\* Voided invoices stay void, whoever writes; a person's change of the internal invoice is
\* announced, unless it is a payment.
LEMMA GonePeople ==
  ASSUME Reaching, TypeInv, Hold, Gone, People
  PROVE  Gone'
<1>u. used'["drop"] = used["drop"] /\ used'["fault"] = used["fault"] /\ used'["entry"] = 0
  <2>1. \/ UNCHANGED used
        \/ \E k \in {"edit", "other", "delete", "qboEdit", "void", "touch"} : Spend(k)
        \/ Spend("entry")
    BY DEF People, CreateInvoice, EditInternal, RenameCustomer, RecordPayment, DeleteInternal,
       QboEdit, QboEnter, QboVoid, QboTouch
  <2>2. ~Spend("entry") BY Unspent, Bounds DEF Reaching, Limit
  <2>3. used["entry"] = 0 /\ used \in [DOMAIN Limit -> Nat]
    BY DEF Gone, GoneStore, TypeInv, StoresFit
  <2> QED BY <2>1, <2>2, <2>3, Bounds DEF Spend
<1>1. CASE LedgerStep
  <2>1. UNCHANGED <<docs, link, queue, dead, job, rec, op>> /\ UNCHANGED Existing
    BY <1>1 DEF LedgerStep, Existing
  <2>2. Over(inv') => Coming'
    BY <1>1 DEF LedgerStep, Over, Coming
  <2>3. GoneStore' BY <1>u, <2>1 DEF Gone, GoneStore, At
  <2>4. GoneMain' BY <2>2 DEF GoneMain
  <2>5. ASSUME NEW w \in Workers PROVE GoneJob(w)' BY <2>1 DEF Gone, GoneJob
  <2> QED BY <2>3, <2>4, <2>5 DEF Gone
<1>2. CASE QboStep
  <2>1. /\ UNCHANGED <<inv, link, queue, dead, job, rec, op>>
        /\ sent'[Internal] = sent[Internal]
    BY <1>2 DEF QboStep
  <2>2. PICK d \in Existing, a \in Shown :
          \/ /\ ~docs[d].voided /\ docs[d].amount # a /\ ShowsDoc(d, a, FALSE)
             /\ Counts("qboEdit") /\ used["qboEdit"] < MaxQboEdits
          \/ ~docs[d].voided /\ ShowsDoc(d, Zero, TRUE) /\ Counts("void")
          \/ ShowsDoc(d, docs[d].amount, docs[d].voided) /\ Counts("touch") /\ MaxTouches # 0
    BY <1>2 DEF QboStep
  <2>3. UNCHANGED Existing /\ \A e \in Existing : docs[e].voided => docs'[e].voided
    BY <2>2 DEF ShowsDoc, Existing
  <2>4. GoneStore'
    <3>1. link # None => link.doc \in Existing
      BY DEF TypeInv, StoresAgree
    <3> QED BY <1>u, <2>1, <2>3, <3>1 DEF Gone, GoneStore, At
  <2>5. GoneMain'
    <3>1. /\ (Coming' <=> Coming) /\ (Skipped' <=> Skipped) /\ (LinkWasLost' <=> LinkWasLost)
          /\ \A w \in Workers : (Voiding(w)' <=> Voiding(w)) /\ (Outdated(w)' <=> Outdated(w))
      BY <1>u, <2>1 DEF Coming, Skipped, LinkWasLost, Voiding, Outdated
    <3>2. Ended => Ended' BY <2>3 DEF Ended
    <3> QED BY <1>u, <2>1, <3>1, <3>2 DEF Gone, GoneMain
  <2>6. ASSUME NEW w \in Workers PROVE GoneJob(w)'
    <3>1. job[w].pc \in {"linkByQbo", "remove", "save"} => job[w].doc.id \in Existing
      BY DEF TypeInv, JobsFit, JobFits, DocPc
    <3> QED BY <2>1, <2>3, <3>1 DEF Gone, GoneJob
  <2> QED BY <2>4, <2>5, <2>6 DEF Gone
<1> QED BY <1>1, <1>2, PeopleShow DEF Reaching

\* A webhook that arrives is still to be handled, and one that is lost is not spoken of.
LEMMA GoneWebhooks ==
  ASSUME TypeInv, Gone, NEW s \in Subjects, Deliver(s) \/ Lose(s)
  PROVE  Gone'
<1>1. UNCHANGED <<inv, docs, link, dead, job, rec, op>> /\ UNCHANGED Existing
  BY DEF Deliver, Lose, books, Existing
<1>2. /\ used'["entry"] = used["entry"] /\ used'["fault"] = used["fault"]
      /\ \/ Deliver(s) /\ used'["drop"] = used["drop"]
         \/ used'["drop"] # 0
  <2>1. used \in [DOMAIN Limit -> Nat] BY DEF TypeInv, StoresFit
  <2>2. CASE Deliver(s) BY <2>2 DEF Deliver
  <2>3. CASE Lose(s)
    <3>1. used' = [used EXCEPT !["drop"] = @ + 1] BY <2>3 DEF Lose, Spend
    <3> QED BY <2>1, <3>1, Bounds
  <2> QED BY <2>2, <2>3
<1>3. Deliver(s) => (Coming => Coming')
  <2>1. Internal \in Subjects /\ sent \in [Subjects -> Nat] /\ queue \in [Subjects -> Nat]
    BY DEF Subjects, TypeInv, StoresFit
  <2> QED BY <2>1 DEF Deliver, Coming
<1>4. GoneStore' BY <1>1, <1>2 DEF Gone, GoneStore, At
<1>5. GoneMain'
  <2> SUFFICES ASSUME used'["drop"] = 0 PROVE GoneMain'
    BY DEF GoneMain
  <2>1. used["drop"] = 0 /\ (Coming => Coming')
    BY <1>2, <1>3
  <2>2. /\ (Skipped' <=> Skipped) /\ (LinkWasLost' <=> LinkWasLost) /\ (Ended' <=> Ended)
        /\ \A w \in Workers : (Voiding(w)' <=> Voiding(w)) /\ (Outdated(w)' <=> Outdated(w))
    BY <1>1, <1>2 DEF Skipped, LinkWasLost, Ended, Voiding, Outdated
  <2> QED BY <1>1, <2>1, <2>2 DEF Gone, GoneMain
<1>6. ASSUME NEW w \in Workers PROVE GoneJob(w)' BY <1>1 DEF Gone, GoneJob
<1> QED BY <1>4, <1>5, <1>6 DEF Gone

LEMMA GoneReconciler ==
  ASSUME Reaching, TypeInv, TypeInv', Hold, Gone, Reconciler \/ RecFails
  PROVE  Gone'
<1>1. UNCHANGED <<inv, docs, job, op, dead>> /\ UNCHANGED Existing
  <2>1. UNCHANGED outbox \/ \E s, v : Resync(s, v)
    BY DEF Reconciler, RecFails, RecStart, RecHasLink, RecPending, RecList, RecFilter, RecMatch,
       RecLinks, RecDrift, RecRead, RecRefetch
  <2> QED
    BY <2>1 DEF Reconciler, RecFails, RecStart, RecHasLink, RecPending, RecList, RecFilter,
       RecMatch, RecLinks, RecDrift, RecRead, RecRefetch, books, Existing, outbox, Resync
<1>2. Coming => Coming'
  <2>1. ASSUME NEW s, NEW v, Resync(s, v) PROVE Coming => Coming'
    <3>1. /\ queue' = queue \/ queue' = [queue EXCEPT ![s] = @ + 1]
          /\ UNCHANGED sent
      BY <2>1 DEF Resync
    <3>2. queue[Internal] > 0 => queue'[Internal] > 0
      BY <3>1 DEF TypeInv, StoresFit, Subjects
    <3> QED BY <3>1, <3>2 DEF Coming
  <2>2. UNCHANGED outbox \/ \E s, v : Resync(s, v)
    BY DEF Reconciler, RecFails, RecStart, RecHasLink, RecPending, RecList, RecFilter, RecMatch,
       RecLinks, RecDrift, RecRead, RecRefetch
  <2> QED BY <2>1, <2>2 DEF outbox, Coming
<1>3. /\ used'["entry"] = used["entry"] /\ used'["drop"] = used["drop"]
      /\ used["fault"] > 0 => used'["fault"] > 0
  <2>1. UNCHANGED used \/ Spend("fault")
    BY DEF Reconciler, RecFails, RecStart, RecHasLink, RecPending, RecList, RecFilter, RecMatch,
       RecLinks, RecDrift, RecRead, RecRefetch
  <2> QED BY <2>1, Bounds DEF Spend, TypeInv, StoresFit
<1>4. /\ used["entry"] = 0 /\ Calm /\ Reconciling
      /\ link # None => link' # None
  <2>1. used["entry"] = 0 /\ Calm
    BY DEF Gone, GoneStore, Reaching, Calm
  <2>2. Reconciling
    BY DEF Hold, HoldStore, Reconciler, RecFails, RecStart, RecHasLink, RecPending, RecList,
       RecFilter, RecMatch, RecLinks, RecDrift, RecRead, RecRefetch
  <2>3. link # None => link' # None
    BY LinkedByRec DEF Reconciler, RecFails, RecStart, RecHasLink, RecPending, RecList,
       RecFilter, RecMatch, RecLinks, RecDrift, RecRead, RecRefetch
  <2> QED BY <2>1, <2>2, <2>3
\* It links an invoice whose own link was lost, as it was when it was open.
<1>5. ASSUME link' # link
      PROVE  /\ used["fault"] > 0 /\ link' # None /\ \E i \in InvoiceType :
                  /\ ~Over(i) /\ link'.hash = Hash(i)
                  /\ link'.snapshot \in {CanonicalFromInternal(i), None}
  <2>1. RecMatch
    BY <1>5 DEF Reconciler, RecFails, RecStart, RecHasLink, RecPending, RecList,
       RecFilter, RecMatch, RecLinks, RecDrift, RecRead, RecRefetch
  <2>2. /\ link' # None /\ link'.hash = Hash(rec.inv) /\ rec.found # {} /\ rec.pc = "match"
        /\ link = None => link'.snapshot \in {CanonicalFromInternal(rec.inv), None}
    BY <1>5, <2>1, LinkedByRec DEF RecMatch
  <2>3. link = None /\ \A w \in Workers : job[w].subject # Internal
    BY <1>4, <2>2 DEF Hold, HoldScan, ScanPc
  <2>4. Existing # {} /\ rec.inv \in InvoiceType
    BY <2>2 DEF TypeInv, RecFits, UnlinkedPc
  <2>5. ~Over(rec.inv) /\ used["fault"] > 0
    BY <2>2, <2>3, <2>4 DEF Gone, GoneStore, UnlinkedPc
  <2> QED BY <2>2, <2>3, <2>4, <2>5
<1>6. rec'.pc \in UnlinkedPc => ~Over(rec'.inv)
  <2>1. CASE RecStart
    <3>1. rec' = [IdleRec EXCEPT !.inv = inv,
                    !.pc = IF inv.status = "deleted" THEN "links" ELSE "hasLink"]
      BY <2>1 DEF RecStart
    <3> QED BY <3>1 DEF IdleRec, UnlinkedPc, Over
  <2>2. CASE RecLinks
    <3>1. rec' = IF link # None /\ link.status = "linked"
                 THEN [IdleRec EXCEPT !.link = link, !.pc = "drift"] ELSE IdleRec
      BY <2>2 DEF RecLinks
    <3>2. rec'.pc \in {"drift", "idle"}
      BY <3>1 DEF IdleRec
    <3> QED BY <3>2 DEF UnlinkedPc
  <2>3. ASSUME NEW pc, RecGoto(pc), pc \in {"refetch", "read", "links"} \/ rec.pc \in UnlinkedPc
        PROVE  rec'.pc \in UnlinkedPc => ~Over(rec'.inv)
    <3>1. rec'.pc = pc /\ rec'.inv = rec.inv
      BY <2>3 DEF RecGoto, TypeInv, RecFits
    <3> QED BY <2>3, <3>1 DEF Gone, GoneStore, UnlinkedPc
  <2>4. CASE RecList \/ RecFilter
    <3>1. rec'.inv = rec.inv /\ rec.pc \in UnlinkedPc
      BY <2>4 DEF RecList, RecFilter, TypeInv, RecFits, UnlinkedPc
    <3> QED BY <3>1 DEF Gone, GoneStore
  <2>5. CASE rec' = IdleRec
    BY <2>5 DEF IdleRec, UnlinkedPc
  <2>6. CASE RecHasLink \/ RecPending \/ RecMatch
    BY <2>3, <2>6 DEF RecHasLink, RecPending, RecMatch, UnlinkedPc
  <2>7. CASE RecDrift \/ RecRead
    BY <2>3, <2>5, <2>7 DEF RecDrift, RecRead
  <2> QED
    BY <2>1, <2>2, <2>4, <2>5, <2>6, <2>7 DEF Reconciler, RecFails, RecRefetch
<1>7. GoneStore'
  <2>1. link' # None /\ link'.snapshot # None /\ Over(link'.snapshot) => docs[link'.doc].voided
    <3>1. CASE link' = link BY <3>1 DEF Gone, GoneStore
    <3>2. CASE link' # link BY <1>5, <3>2, CanonicalEnds
    <3> QED BY <3>1, <3>2
  <2> QED BY <1>1, <1>3, <1>4, <1>6, <2>1 DEF Gone, GoneStore, At
<1>8. GoneMain'
  <2> SUFFICES ASSUME used["drop"] = 0, inv # None, Over(inv) PROVE GoneMain'
    BY <1>1, <1>3 DEF GoneMain
  <2>1. \A w \in Workers : (Voiding(w)' <=> Voiding(w)) /\ (Outdated(w)' <=> Outdated(w))
    BY <1>1 DEF Voiding, Outdated
  <2>2. Ended' <=> Ended
    BY <1>1 DEF Ended
  <2>3. CASE link' = link
    <3>1. (Skipped' <=> Skipped) /\ (LinkWasLost => LinkWasLost')
      BY <1>1, <1>3, <2>3 DEF Skipped, LinkWasLost
    <3> QED BY <1>1, <1>2, <2>1, <2>2, <3>1 DEF Gone, GoneMain
  <2>4. CASE link' # link
    <3>1. LinkWasLost'
      BY <1>1, <1>3, <1>4, <1>5, <2>4, HashTells DEF LinkWasLost
    <3> QED BY <1>2, <2>1, <3>1 DEF Gone, GoneMain
  <2> QED BY <2>3, <2>4
<1>9. ASSUME NEW w \in Workers PROVE GoneJob(w)'
  BY <1>1 DEF Gone, GoneJob
<1> QED BY <1>7, <1>8, <1>9 DEF Gone

\* A handler that is interrupted leaves its event to be tried again, or dead.
LEMMA GoneInterrupt ==
  ASSUME Reaching, TypeInv, Hold, Gone, NEW w \in Workers, Interrupt(w)
  PROVE  Gone'
<1> DEFINE j == job[w]
<1>1. Dropped(w) /\ Workers = {w}
  BY EndMoves, OneJob DEF Reaching
<1>2. /\ UNCHANGED <<inv, docs, link, sent, rec, op>> /\ UNCHANGED Existing
      /\ j.subject \in Subjects
  BY DEF Interrupt, books, Existing, At, TypeInv, JobsFit, JobFits, Known, Subjects
<1>3. /\ used'["entry"] = used["entry"] /\ used'["drop"] = used["drop"] /\ used'["fault"] > 0
  BY Bounds DEF Interrupt, Spend, TypeInv, StoresFit
<1>4. \/ queue' = [queue EXCEPT ![j.subject] = @ + 1] /\ UNCHANGED dead
      \/ dead' # {} /\ UNCHANGED queue
  BY DEF Interrupt
<1>5. /\ Coming => Coming'
      /\ dead # {} => dead' # {}
      /\ j.subject = Internal => Coming' \/ dead' # {}
  <2>1. queue \in [Subjects -> Nat] /\ Internal \in Subjects
    BY DEF TypeInv, StoresFit, Subjects
  <2> QED BY <1>2, <1>4, <2>1 DEF Coming
<1>6. GoneStore' BY <1>2, <1>3 DEF Gone, GoneStore
<1>7. GoneMain'
  <2>1. ~Outdated(w)' BY <1>1 DEF Outdated, Moved, Dropped, InvPc
  <2>2. Voiding(w) => j.subject = Internal
    BY DEF Voiding, Hold, HoldJob, ForwardPc
  <2>3. (Skipped' <=> Skipped) /\ (LinkWasLost => LinkWasLost') /\ (Ended' <=> Ended)
    BY <1>2, <1>3 DEF Skipped, LinkWasLost, Ended
  <2> QED BY <1>1, <1>2, <1>3, <1>5, <2>1, <2>2, <2>3 DEF Gone, GoneMain
<1>8. GoneJob(w)' BY <1>1 DEF GoneJob, Moved, Dropped
<1> QED BY <1>1, <1>6, <1>7, <1>8 DEF Gone

LEMMA GoneWorker ==
  ASSUME Reaching, TypeInv, Hold, Gone, NEW w \in Workers, Worker(w)
  PROVE  Gone'
<1> DEFINE j == job[w]
<1> USE DEF At
<1>w. Workers = {w}
  BY OneJob DEF Reaching
<1>j. /\ HoldJob(w) /\ JobFits(j) /\ StoresAgree /\ GoneJob(w) /\ GoneStore
      /\ link # None => link \in LinkType
  BY <1>w DEF Hold, Gone, TypeInv, JobsFit, StoresFit
<1>l. /\ \A d, e \in Existing : d = e
      /\ link # None => link.doc \in Existing /\ \A d \in Existing : d = link.doc
  BY <1>j DEF GoneStore, Hold, HoldStore, StoresAgree
<1>d. j.pc \in DocPc => j.doc \in ReadType /\ j.doc.id \in Existing
  BY <1>j DEF JobFits
<1>u. UNCHANGED <<rec, op, used>>
  BY DEF Worker, Forward, Reverse, TakeForward, ForwardLink, ForwardRead, ForwardFind, ForwardPush,
     ForwardCreate, ReadToVoid, ForwardVoid, TakeReverse, ReverseLink, ReverseRefetch,
     ReverseApply, ReverseRemove, ReverseWrite, Save, SaveSkip, Mark, WriteLink, Finish
<1> USE DEF Moved, Dropped, DocPc
\* An end on record at a link that says it is the invoice's is an end in QuickBooks.
<1>e. ASSUME link # None, link.snapshot = CanonicalFromInternal(inv), Over(inv) PROVE Ended
  <2>1. inv \in InvoiceType BY <1>e, <1>j DEF TypeInv, StoresFit, StoresAgree
  <2>2. CanonicalFromInternal(inv) # None
    BY <2>1, NoneIsNoRecord DEF CanonicalFromInternal, CanonicalType, InvoiceType
  <2>3. Over(link.snapshot) BY <1>e, CanonicalEnds
  <2> QED BY <1>e, <1>j, <1>l, <2>2, <2>3 DEF GoneStore, Ended
\* The stores, when no link is written and no invoice created.
<1>s. ASSUME UNCHANGED link, UNCHANGED Existing, j.pc # "save",
             \A d \in Existing : docs[d].voided => docs'[d].voided
      PROVE  GoneStore'
  BY <1>w, <1>j, <1>l, <1>u, <1>s DEF GoneStore
\* The event is still to come, or was when the handler read an earlier state.
<1>c. ASSUME Coming' PROVE GoneMain'
  BY <1>c DEF GoneMain
<1>o. ASSUME used["drop"] = 0, inv # None, Over(inv), j.pc \in InvPc, Hash(j.inv) # Hash(inv)
      PROVE  Coming
  BY <1>o DEF Gone, GoneMain, Outdated
<1>1. CASE Reads(w)
  <2>1. UNCHANGED <<inv, docs, link, sent>> /\ UNCHANGED Existing /\ j.pc # "save"
    BY <1>1, ReadsWriteNothing DEF Existing
  <2>2. GoneStore' BY <1>s, <2>1
  <2>3. GoneJob(w)'
    <3>1. CASE TakeForward(w)
      <4>1. Moved(w, "link", Internal, inv, None, None) BY <3>1, ForwardMoves
      <4> QED BY <4>1 DEF GoneJob
    <3>2. CASE ForwardLink(w)
      <4>1. Moved(w, AfterLink(j.inv), j.subject, j.inv, link, j.doc) BY <3>2, ForwardMoves
      <4>2. /\ AfterLink(j.inv) \in {"finish", "readToVoid", "find", "read"}
            /\ AfterLink(j.inv) \in {"find", "read"} => ~Over(j.inv)
        BY DEF AfterLink, Over
      <4> QED BY <4>1, <4>2 DEF GoneJob
    <3>3. CASE ForwardRead(w)
      <4> DEFINE doc == Read(j.link.doc)
                 go  == Decide("internal", j.link, j.inv, doc)
      <4>1. Moved(w, IF go = "apply" THEN "push" ELSE go, j.subject, j.inv, j.link, doc)
        BY <3>3, ForwardMoves
      <4>2. ~Over(j.inv) BY <1>j, <3>3 DEF ForwardRead, GoneJob
      <4>3. go \in {"apply", "save", "saveSkip", "mark", "finish"} BY DecideGoes
      <4> HIDE DEF doc, go
      <4> QED BY <4>1, <4>2, <4>3 DEF GoneJob
    <3>4. CASE ForwardFind(w)
      <4>1. ~Over(j.inv) BY <1>j, <3>4 DEF ForwardFind, GoneJob
      <4>2. job'[w].pc \in {"push", "create"} /\ job'[w].inv = j.inv BY <3>4, ForwardMoves
      <4> QED BY <4>1, <4>2 DEF GoneJob
    <3>5. CASE ReadToVoid(w)
      <4>1. Moved(w, "void", j.subject, j.inv, j.link, Read(j.link.doc)) BY <3>5, ForwardMoves
      <4> QED BY <4>1 DEF GoneJob
    <3>6. ASSUME NEW d \in Docs, TakeReverse(w, d) PROVE GoneJob(w)'
      <4>1. Moved(w, "linkByQbo", d, None, None, Read(d)) BY <3>6, ReverseMoves
      <4>2. d \in Existing
        BY <1>j, <3>6, NamesDiffer DEF TakeReverse, StoresAgree, Known, Subjects
      <4>3. Read(d).id = d /\ Read(d).voided = docs[d].voided
        BY <4>2, ReadShows
      <4> QED BY <2>1, <4>1, <4>3 DEF GoneJob
    <3>7. CASE ReverseLink(w)
      <4>1. Moved(w, AfterLinkByQbo(j.doc), j.subject, j.inv, link, j.doc) BY <3>7, ReverseMoves
      <4>2. /\ AfterLinkByQbo(j.doc) \in {"finish", "remove", "refetch"}
            /\ AfterLinkByQbo(j.doc) = "remove" => j.doc.voided
            /\ AfterLinkByQbo(j.doc) = "refetch" => ~j.doc.voided
        BY DEF AfterLinkByQbo
      <4>3. j.pc = "linkByQbo" BY <3>7 DEF ReverseLink
      <4> QED BY <1>j, <2>1, <4>1, <4>2, <4>3 DEF GoneJob
    <3>8. CASE ReverseRefetch(w)
      <4> DEFINE go == Decide("quickbooks", j.link, inv, j.doc)
      <4>1. Moved(w, go, j.subject, inv, j.link, j.doc) BY <3>8, ReverseMoves
      <4>2. ~j.doc.voided /\ j.link \in LinkType
        BY <1>j, <3>8 DEF ReverseRefetch, GoneJob, JobFits, LinkPc
      <4>3. go \in {"apply", "save", "saveSkip", "mark", "finish"} BY DecideGoes
      <4>4. go = "save" => ~Over(inv)
        BY <4>2, DecideSaves, CanonicalEnds DEF Sources
      <4> HIDE DEF go
      <4> QED BY <2>1, <4>1, <4>3, <4>4 DEF GoneJob
    <3>9. CASE Dropped(w)
      BY <3>9 DEF GoneJob
    <3> QED
      BY <1>1, <3>1, <3>2, <3>3, <3>4, <3>5, <3>6, <3>7, <3>8, <3>9, ForwardMoves, EndMoves DEF Reads
  <2>4. GoneMain'
    <3> SUFFICES ASSUME used["drop"] = 0, inv # None, Over(inv) PROVE GoneMain'
      BY <1>u, <2>1 DEF GoneMain
    <3>1. /\ Ended \/ Coming \/ dead # {} \/ Skipped \/ LinkWasLost \/ Voiding(w)
          /\ Outdated(w) => Coming
      BY <1>w DEF Gone, GoneMain
    <3>2. (Skipped' <=> Skipped) /\ (LinkWasLost' <=> LinkWasLost) /\ (Ended' <=> Ended)
      BY <1>u, <2>1 DEF Skipped, LinkWasLost, Ended
    \* The reads after which the handler still goes by the invoice it had.
    <3>r. ASSUME Coming => Coming', dead # {} => dead' # {},
                 Voiding(w) => Voiding(w)' \/ dead' # {} \/ Ended \/ Skipped \/ LinkWasLost \/ Coming,
                 \/ job'[w].pc \notin InvPc
                 \/ job'[w].inv = inv
                 \/ job'[w].inv = j.inv /\ j.pc \in InvPc
          PROVE  GoneMain'
      <4>1. Outdated(w)' => Coming'
        BY <2>1, <3>1, <3>r DEF Outdated
      <4> QED BY <1>w, <3>1, <3>2, <3>r, <4>1 DEF GoneMain
    <3>3. CASE TakeForward(w)
      <4>1. Moved(w, "link", Internal, inv, None, None) BY <3>3, ForwardMoves
      <4>2. Voiding(w)' /\ ~Outdated(w)' BY <2>1, <4>1 DEF Voiding, Outdated
      <4> QED BY <1>w, <4>2 DEF GoneMain
    <3>4. CASE ForwardLink(w)
      <4>1. Moved(w, AfterLink(j.inv), j.subject, j.inv, link, j.doc) /\ j.pc = "link"
        BY <3>4, ForwardMoves DEF ForwardLink
      <4>2. UNCHANGED <<sent, queue, dead>> /\ (Coming => Coming')
        BY <3>4 DEF ForwardLink, outbox, Coming
      <4>3. ASSUME Over(j.inv), AfterLink(j.inv) # "readToVoid"
            PROVE  Ended \/ Skipped \/ LinkWasLost \/ Coming
        <5>1. link = None \/ link.hash = Hash(j.inv)
          BY <4>3 DEF AfterLink, Over
        <5>2. CASE link = None
          BY <1>w, <1>j, <4>1, <5>2 DEF GoneStore, LinkWasLost, Ended
        <5>3. CASE link # None /\ Hash(j.inv) = Hash(inv)
          BY <1>e, <5>1, <5>3 DEF Skipped
        <5>4. CASE Hash(j.inv) # Hash(inv)
          BY <1>o, <4>1, <5>4 DEF InvPc
        <5> QED BY <5>2, <5>3, <5>4
      <4>4. Voiding(w) => Voiding(w)' \/ Ended \/ Skipped \/ LinkWasLost \/ Coming
        BY <4>1, <4>3 DEF Voiding
      <4> QED BY <3>r, <4>1, <4>2, <4>4 DEF InvPc
    <3>5. CASE ForwardRead(w) \/ ForwardFind(w)
      <4>1. j.pc \in {"read", "find"} /\ UNCHANGED <<sent, queue, dead>> /\ job'[w].inv = j.inv
        BY <3>5, ForwardMoves DEF ForwardRead, ForwardFind, outbox
      <4>2. ~Voiding(w) BY <4>1 DEF Voiding
      <4> QED BY <3>r, <4>1, <4>2 DEF InvPc, Coming
    <3>6. CASE ReadToVoid(w)
      <4>1. Moved(w, "void", j.subject, j.inv, j.link, Read(j.link.doc)) /\ j.pc = "readToVoid"
        BY <3>6, ForwardMoves DEF ReadToVoid
      <4>2. UNCHANGED <<sent, queue, dead>> BY <3>6 DEF ReadToVoid, outbox
      <4>3. Voiding(w) => Voiding(w)' BY <4>1 DEF Voiding
      <4> QED BY <3>r, <4>1, <4>2, <4>3 DEF InvPc, Coming
    <3>7. ASSUME NEW d \in Docs, TakeReverse(w, d) PROVE GoneMain'
      <4>1. Moved(w, "linkByQbo", d, None, None, Read(d)) /\ j.pc = "idle"
        BY <3>7, ReverseMoves DEF TakeReverse
      <4>2. queue' = [queue EXCEPT ![d] = @ - 1] /\ UNCHANGED <<sent, dead>>
        BY <3>7 DEF TakeReverse
      <4>3. Coming => Coming'
        BY <4>2, NamesDiffer DEF Coming, TypeInv, StoresFit, Subjects
      <4>4. ~Voiding(w) BY <4>1 DEF Voiding
      <4> QED BY <3>r, <4>1, <4>2, <4>3, <4>4 DEF InvPc
    <3>8. CASE ReverseLink(w)
      <4>1. Moved(w, AfterLinkByQbo(j.doc), j.subject, j.inv, link, j.doc) /\ j.pc = "linkByQbo"
        BY <3>8, ReverseMoves DEF ReverseLink
      <4>2. AfterLinkByQbo(j.doc) \in {"finish", "remove", "refetch"} BY DEF AfterLinkByQbo
      <4>3. UNCHANGED <<sent, queue, dead>> BY <3>8 DEF ReverseLink, outbox
      <4>4. ~Voiding(w) BY <4>1 DEF Voiding
      <4> QED BY <3>r, <4>1, <4>2, <4>3, <4>4 DEF InvPc, Coming
    <3>9. CASE ReverseRefetch(w)
      <4>1. job'[w].inv = inv /\ j.pc = "refetch" /\ UNCHANGED <<sent, queue, dead>>
        BY <3>9, ReverseMoves DEF ReverseRefetch, outbox
      <4>2. ~Voiding(w) BY <4>1 DEF Voiding
      <4> QED BY <3>r, <4>1, <4>2 DEF Coming
    <3>10. CASE Finish(w)
      <4>1. Dropped(w) /\ j.pc = "finish" /\ UNCHANGED <<sent, queue, dead>>
        BY <3>10, EndMoves DEF Finish, outbox
      <4>2. ~Voiding(w) BY <4>1 DEF Voiding
      <4> QED BY <3>r, <4>1, <4>2 DEF InvPc, Coming
    <3>11. CASE (ForwardPush(w) \/ ForwardVoid(w)) /\ ~Current(j.doc)
      <4>1. Dropped(w) /\ dead' # {} /\ UNCHANGED queue
        BY <3>11, ForwardMoves DEF ForwardPush, ForwardVoid, Die
      <4> QED BY <2>1, <3>r, <4>1 DEF InvPc, Coming
    <3> QED BY <1>1, <3>3, <3>4, <3>5, <3>6, <3>7, <3>8, <3>9, <3>10, <3>11 DEF Reads
  <2> QED BY <1>w, <2>2, <2>3, <2>4 DEF Gone
\* A push leaves the end as it was, and a void is the end.
<1>2. CASE (ForwardPush(w) \/ ForwardVoid(w)) /\ Current(j.doc)
  <2> DEFINE d == j.doc.id
  <2>1. j.pc \in {"push", "void"} BY <1>2 DEF ForwardPush, ForwardVoid
  <2>2. PICK a, v : /\ ShowsDoc(d, a, v) /\ (docs[d].voided => v)
                    /\ \/ ForwardVoid(w) /\ v
                       \/ ForwardPush(w) /\ v = docs[d].voided
                    /\ Moved(w, "save", j.subject, j.inv, j.link, Answered(j.doc))
                    /\ UNCHANGED <<inv, link, queue, dead>> /\ sent'[Internal] = sent[Internal]
    <3>1. CASE ForwardVoid(w)
      BY <1>2, <3>1, VoidWrites
    <3>2. CASE ForwardPush(w)
      BY <1>2, <3>2, PushWrites
    <3> QED BY <1>2, <3>1, <3>2
  <2>3. UNCHANGED Existing /\ (\A e \in Existing : docs[e].voided => docs'[e].voided)
        /\ docs'[d].voided = v
    BY <2>2 DEF ShowsDoc, Existing
  <2>4. GoneStore' BY <1>s, <2>1, <2>2, <2>3
  <2>5. d \in Existing /\ job'[w].doc.id = d
    BY <1>d, <2>1, <2>2, AnsweredShows
  <2>6. GoneJob(w)' BY <1>j, <2>2, <2>3, <2>5 DEF GoneJob, ForwardPush
  <2>7. GoneMain'
    <3> SUFFICES ASSUME used["drop"] = 0, inv # None, Over(inv) PROVE GoneMain'
      BY <1>u, <2>2 DEF GoneMain
    <3>1. /\ Ended \/ Coming \/ dead # {} \/ Skipped \/ LinkWasLost \/ Voiding(w)
          /\ Outdated(w) => Coming
      BY <1>w DEF Gone, GoneMain
    <3>2. (Skipped' <=> Skipped) /\ (LinkWasLost' <=> LinkWasLost) /\ (Coming' <=> Coming)
      BY <1>u, <2>2 DEF Skipped, LinkWasLost, Coming
    <3>3. Outdated(w)' => Coming'
      BY <2>1, <2>2, <3>1, <3>2 DEF Outdated, InvPc
    <3>4. CASE ForwardVoid(w) /\ v
      <4>1. Ended' BY <1>l, <2>3, <2>5, <3>4 DEF Ended
      <4> QED BY <1>w, <3>3, <4>1 DEF GoneMain
    <3>5. CASE ForwardPush(w)
      <4>1. ~Voiding(w) BY <3>5 DEF Voiding, ForwardPush
      <4>2. Ended => Ended' BY <2>3 DEF Ended
      <4> QED BY <1>w, <2>2, <3>1, <3>2, <3>3, <4>1, <4>2 DEF GoneMain
    <3> QED BY <2>2, <3>4, <3>5
  <2> QED BY <1>w, <2>4, <2>6, <2>7 DEF Gone
<1>3. CASE ForwardCreate(w)
  <2>1. /\ j.pc = "create" /\ j.subject = Internal /\ Existing = {} /\ link = None
        /\ ~Over(j.inv)
    BY <1>j, <1>3 DEF ForwardCreate, HoldJob, GoneStore, GoneJob, ForwardPc, StoresAgree
  <2>2. UNCHANGED <<inv, link>> /\ \E doc : Moved(w, "save", j.subject, j.inv, j.link, doc)
    BY <1>3, <2>1, CreateShows DEF ForwardCreate
  <2>3. UNCHANGED queue /\ sent'[Internal] = sent[Internal]
    <3>1. UNCHANGED <<inv, sent>> \/ \E d \in Docs : \E new : WriteQbo(d, new)
      BY <1>3 DEF ForwardCreate, books
    <3>2. ASSUME NEW d \in Docs, NEW new, WriteQbo(d, new)
          PROVE  sent'[Internal] = sent[Internal]
      <4>1. d \in Subjects /\ Internal # d /\ Internal \in Subjects BY NamesDiffer DEF Subjects
      <4> QED BY <3>2, <4>1, Announced DEF WriteQbo
    <3> QED BY <1>3, <3>1, <3>2 DEF ForwardCreate
  <2>4. GoneStore' BY <1>w, <1>j, <1>u, <2>1, <2>2 DEF GoneStore
  <2>5. GoneJob(w)' BY <2>1, <2>2 DEF GoneJob
  <2>6. GoneMain'
    <3>1. used["drop"] = 0 /\ inv # None /\ Over(inv) => Coming
      BY <1>o, <2>1, HashTells DEF InvPc
    <3>2. Coming => Coming' BY <2>3 DEF Coming
    <3> QED BY <1>u, <1>c, <2>2, <3>1, <3>2 DEF GoneMain
  <2> QED BY <1>w, <2>4, <2>5, <2>6 DEF Gone
<1>4. CASE ReverseApply(w) \/ ReverseRemove(w)
  <2>1. /\ UNCHANGED <<docs, link>> /\ UNCHANGED Existing /\ j.pc \in {"apply", "remove"}
        /\ Moved(w, "save", j.subject, inv', j.link, j.doc)
        /\ j.pc = "apply" => inv'.status = "open"
        /\ Coming'
    BY <1>4, PullWrites DEF ShowsInv, ReverseApply, ReverseRemove, ReverseWrite, Existing, Coming
  <2>2. GoneStore' BY <1>s, <2>1
  <2>3. GoneJob(w)' BY <1>j, <2>1 DEF GoneJob, Over
  <2> QED BY <1>w, <1>c, <2>1, <2>2, <2>3 DEF Gone
\* After a link write the link says what it says of the invoice as it is, or the event of
\* the change is still to come.
<1>5. CASE Save(w) \/ SaveSkip(w) \/ Mark(w)
  <2>1. /\ Moved(w, "finish", j.subject, j.inv, j.link, j.doc)
        /\ \/ Save(w) /\ j.pc = "save"
           \/ SaveSkip(w) /\ j.pc = "saveSkip"
           \/ Mark(w) /\ j.pc = "mark"
    BY <1>5, EndMoves DEF Save, SaveSkip, Mark, WriteLink
  <2>2. UNCHANGED <<inv, docs, sent, queue, dead>> /\ UNCHANGED Existing
    BY <1>5 DEF Save, SaveSkip, Mark, WriteLink, books, outbox, Existing
  <2>3. GoneJob(w)' BY <2>1 DEF GoneJob
  <2>4. ~Voiding(w) /\ ~Outdated(w)' /\ (Coming' <=> Coming) /\ (Ended' <=> Ended)
    BY <2>1, <2>2 DEF Voiding, Outdated, Coming, Ended, InvPc
  <2>5. Save(w) => /\ link' # None /\ link'.doc = j.doc.id
                   /\ link'.snapshot = CanonicalFromInternal(j.inv)
    BY LinkedAnew
  <2>6. SaveSkip(w) \/ Mark(w) =>
          /\ link # None /\ link' # None /\ link'.snapshot = link.snapshot /\ link'.doc = link.doc
          /\ SaveSkip(w) => link'.hash = Hash(j.inv)
          /\ Mark(w) => link'.hash = link.hash
    BY <1>d, <1>l, <2>1, LinkPatched
  <2>7. GoneStore'
    <3>1. Over(link'.snapshot) /\ link'.snapshot # None => docs[link'.doc].voided
      BY <1>j, <2>1, <2>5, <2>6, CanonicalEnds DEF GoneStore, GoneJob
    <3> QED BY <1>j, <1>u, <2>2, <2>5, <2>6, <1>5, <3>1 DEF GoneStore
  <2>8. GoneMain'
    <3> SUFFICES ASSUME used["drop"] = 0, inv # None, Over(inv) PROVE GoneMain'
      BY <1>u, <2>2 DEF GoneMain
    <3>1. Hash(j.inv) # Hash(inv) /\ j.pc \in {"save", "saveSkip"} => Coming
      BY <1>o DEF InvPc
    <3>2. Hash(j.inv) = Hash(inv) => Over(j.inv)
      BY HashTells
    <3>3. CASE Save(w)
      <4>1. Over(j.inv) => Ended BY <1>j, <1>d, <1>l, <2>1, <3>3 DEF GoneJob, Ended, Save, WriteLink
      <4>2. Coming \/ Ended BY <3>1, <3>2, <3>3, <4>1 DEF Save, WriteLink
      <4> QED BY <1>w, <2>4, <4>2 DEF GoneMain
    <3>4. CASE SaveSkip(w)
      <4>1. Coming \/ Ended \/ Skipped'
        BY <1>e, <2>2, <2>6, <3>1, <3>4 DEF Skipped, SaveSkip, WriteLink
      <4> QED BY <1>w, <2>4, <4>1 DEF GoneMain
    <3>5. CASE Mark(w)
      <4>1. (Skipped' <=> Skipped) /\ (LinkWasLost' <=> LinkWasLost)
        BY <1>u, <2>2, <2>6, <3>5 DEF Skipped, LinkWasLost
      <4> QED BY <1>w, <2>2, <2>4, <4>1 DEF Gone, GoneMain
    <3> QED BY <1>5, <3>3, <3>4, <3>5
  <2> QED BY <1>w, <2>3, <2>7, <2>8 DEF Gone
<1> QED
  BY <1>1, <1>2, <1>3, <1>4, <1>5 DEF Worker, Forward, Reverse, Reads

LEMMA GoneStep == Reaching /\ TypeInv /\ TypeInv' /\ Hold /\ Gone /\ [Next]_vars => Gone'
<1> SUFFICES ASSUME Reaching, TypeInv, TypeInv', Hold, Gone, [Next]_vars PROVE Gone'
  OBVIOUS
<1>1. op.pc = "idle" /\ ~ResolveStart
  BY NoneToSpend DEF Gone, GoneStore, Reaching
<1>2. ~Resolve /\ ~ResolveFails
  BY <1>1 DEF Resolve, ResolveRefetch, ResolveRead, InternalWins, QuickbooksWins, ResolveSave,
     ResolveFails
<1>3. CASE UNCHANGED vars
  <2>1. GoneStore' BY <1>3 DEF Gone, GoneStore, At, Existing, vars, books
  <2>2. GoneMain'
    BY <1>3 DEF Gone, GoneMain, Ended, Coming, Skipped, LinkWasLost, Voiding, Outdated, Existing,
       vars, books, outbox
  <2>3. ASSUME NEW w \in Workers PROVE GoneJob(w)' BY <1>3 DEF Gone, GoneJob, vars, books
  <2> QED BY <2>1, <2>2, <2>3 DEF Gone
<1> QED
  BY <1>1, <1>2, <1>3, GonePeople, GoneWebhooks, GoneReconciler, GoneWorker, GoneInterrupt DEF Next

\* With nothing under way, no dead letter and no webhook lost, a deleted invoice is void in
\* QuickBooks, or the bridge has lost sight of it in one of the two ways the property names;
\* for one worker, whatever people change on either side, after the deletion too, and
\* whatever fails, crashes or is retried at any step, the reconciler not between its reads
\* and nobody entering an invoice under our DocNumber or resolving a conflict.
THEOREM DeletionsReach == Reaching => (Spec => []DeletionsArrive)
<1> SUFFICES ASSUME Reaching PROVE Spec => []DeletionsArrive
  OBVIOUS
<1>1. TypeInv /\ Hold /\ [Next]_vars => Hold'
  BY HoldStep DEF Reaching
<1>2. TypeInv /\ TypeInv' /\ Hold /\ Gone /\ [Next]_vars => Gone'
  BY GoneStep
<1>3. Gone => DeletionsArrive
  <2> SUFFICES ASSUME Gone, Quiet, dead = {}, used["drop"] = 0, inv # None, Over(inv)
               PROVE  Ended \/ Skipped \/ LinkWasLost
    BY DEF DeletionsArrive, Over, Ended
  <2>1. ~Coming BY DEF Quiet, Coming, Subjects
  <2>2. \A w \in Workers : ~Voiding(w) BY DEF Quiet, Voiding, At
  <2> QED BY <2>1, <2>2 DEF Gone, GoneMain
<1> QED
  BY <1>1, <1>2, <1>3, HoldInit, GoneInit, TypeInvInit, TypeInvStep, PTL DEF Spec
================================================================================
