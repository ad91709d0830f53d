--------------------------- MODULE OneWaySync_proofs ---------------------------
(***************************************************************************)
(* Proofs about OneWaySync for any accounts, payments and workers, and any *)
(* number of changes, failures and replays.                                *)
(***************************************************************************)
EXTENDS OneWaySync, FiniteSetTheorems, TLAPS

PaymentPc == {"paymentLink", "invoiceLink", "createPayment", "savePayment"}
AccountPc == {"accountLink", "find", "read", "update", "create", "saveAccount"}

\* What there is to announce: no event is about a row that was never written.
Known == payments \cup {a \in Accounts : accounts[a] # None}

StoresFit ==
  /\ accounts \in [Accounts -> RowType \cup {None}]
  /\ payments \subseteq Payments /\ invoiced \subseteq Payments
  /\ qboAccounts \in [Ids -> Remote \cup {None}]
  /\ accountLinks \in [Accounts -> LinkType \cup {None}]
  /\ paymentLinks \subseteq payments
  /\ queue \in [Subjects -> Nat] /\ dead \subseteq Subjects
  /\ used \in [DOMAIN Limit -> Nat]

\* A link's account is there, and events are about rows that are.
StoresAgree ==
  /\ \A a \in Accounts : accountLinks[a] # None => accountLinks[a].doc \in Existing
  /\ \A s \in Subjects : queue[s] > 0 => s \in Known

\* What a handler has read fits where it stands.
JobFits(j) ==
  /\ DOMAIN j = {"pc", "subject", "row", "doc"} /\ j = [x \in DOMAIN j |-> j[x]]
  /\ j.pc \in {"idle", "finish"} \cup PaymentPc \cup AccountPc
  /\ j.pc = "idle" => j = IdleJob
  /\ j.pc # "idle" => j.subject \in Known
  /\ j.pc \in PaymentPc => j.subject \in payments
  /\ j.pc \in AccountPc => j.subject \in Accounts /\ j.row \in RowType
  /\ j.pc \in {"read", "update", "saveAccount"} => j.doc \in Token /\ j.doc.id \in Existing

JobsFit ==
  /\ DOMAIN job = Workers /\ job = [w \in Workers |-> job[w]]
  /\ \A w \in Workers : JobFits(job[w])

TypeInv == StoresFit /\ StoresAgree /\ JobsFit

LEMMA TypeInvInit == Init => TypeInv
  BY DEF Init, TypeInv, StoresFit, StoresAgree, JobsFit, JobFits, IdleJob, PaymentPc, AccountPc,
         Limit, Known

LEMMA TypeInvFits == TypeInv => TypeOK
  BY NoneIsNoRecord DEF TypeInv, StoresFit, StoresAgree, JobsFit, JobFits, IdleJob, TypeOK, At, Existing, LinkType,
     Remote, PaymentPc, AccountPc

\* A job whose event is put back or buried leaves everything well typed.
LEMMA InterruptTypes ==
  ASSUME TypeInv, NEW w \in Workers, ~At(w, "idle"), Retry(w), UNCHANGED <<ledger, qbo, links>>
  PROVE  TypeInv'
  <1> USE DEF ledger, qbo, links, At
  <1>1. job[w].subject \in Known /\ job[w].subject \in Subjects
    BY DEF TypeInv, JobsFit, JobFits, Known, StoresFit, Subjects
  <1>2. StoresFit'
    BY <1>1 DEF TypeInv, StoresFit, Retry, Die, Spend, Announce
  <1>3. StoresAgree'
    BY <1>1 DEF TypeInv, StoresFit, StoresAgree, Retry, Die, Announce, Known, Existing
  <1>4. job' = [job EXCEPT ![w] = IdleJob]
    BY DEF Retry, Die
  <1>5. \A v \in Workers : JobFits(job[v]) => JobFits(job[v])'
    <2> TAKE v \in Workers
    <2>1. CASE v = w
      BY <1>4, <2>1 DEF TypeInv, JobsFit, JobFits, IdleJob, PaymentPc, AccountPc
    <2>2. CASE v # w
      <3>1. job'[v] = job[v] BY <1>4, <2>2 DEF TypeInv, JobsFit
      <3> QED BY <3>1 DEF JobFits, Known, Existing
    <2> QED BY <2>1, <2>2
  <1> QED BY <1>2, <1>3, <1>4, <1>5 DEF TypeInv, JobsFit

\* A step of one worker leaves the other jobs well typed while nothing goes away that
\* they know of.
LEMMA JobsMove ==
  ASSUME TypeInv, Known \subseteq Known', payments \subseteq payments',
         Existing \subseteq Existing', NEW w \in Workers, NEW j,
         job' = [job EXCEPT ![w] = j], JobFits(job[w])'
  PROVE  JobsFit'
  <1>1. ASSUME NEW v \in Workers PROVE JobFits(job[v])'
    <2>1. CASE v = w
      BY <2>1
    <2>2. CASE v # w
      <3>1. job'[v] = job[v] /\ JobFits(job[v]) BY <2>2 DEF TypeInv, JobsFit
      <3> QED BY <3>1 DEF JobFits
    <2> QED BY <2>1, <2>2
  <1> QED BY <1>1 DEF TypeInv, JobsFit

\* The same when no worker moves.
LEMMA JobsStay ==
  ASSUME TypeInv, Known \subseteq Known', payments \subseteq payments',
         Existing \subseteq Existing', UNCHANGED job
  PROVE  JobsFit'
  <1>1. ASSUME NEW v \in Workers PROVE JobFits(job[v])'
    <2>1. job'[v] = job[v] /\ JobFits(job[v]) BY DEF TypeInv, JobsFit
    <2> QED BY <2>1 DEF JobFits
  <1> QED BY <1>1 DEF TypeInv, JobsFit

\* What people do, and replays.
LEMMA PeopleTypes == TypeInv /\ People => TypeInv'
<1> SUFFICES ASSUME TypeInv, People PROVE TypeInv'
  OBVIOUS
<1> USE DEF ledger, qbo, links, outbox, TypeInv
<1>1. ASSUME NEW a \in Accounts, NEW n \in Names, NEW k \in Kinds, CreateAccount(a, n, k)
      PROVE  TypeInv'
  <2>1. StoresFit'
    BY <1>1 DEF CreateAccount, StoresFit, Announce, Subjects, RowType
  <2>2. accounts'[a] \in RowType /\ accounts'[a] # None
    BY <1>1, NoneIsNoRecord DEF CreateAccount, StoresFit, RowType
  <2>3. Known' = Known \cup {a} /\ Existing' = Existing
    BY <1>1, <2>2 DEF CreateAccount, Known, StoresFit, Existing
  <2>4. StoresAgree'
    BY <1>1, <2>3 DEF CreateAccount, StoresAgree, StoresFit, Announce, Subjects
  <2> QED BY <1>1, <2>1, <2>3, <2>4, JobsStay DEF CreateAccount
<1>2. ASSUME NEW a \in Accounts, NEW new \in RowType, UpdateAccount(a, new),
             used' \in [DOMAIN Limit -> Nat]
      PROVE  TypeInv'
  <2>1. accounts' = [accounts EXCEPT ![a] = [new EXCEPT !.version = @ + 1]]
        /\ [new EXCEPT !.version = @ + 1] \in RowType
    BY <1>2 DEF UpdateAccount, RowType
  <2>2. accounts'[a] # None
    BY <2>1, NoneIsNoRecord DEF StoresFit
  <2>3. StoresFit'
    BY <1>2, <2>1 DEF UpdateAccount, StoresFit, Announce, Subjects
  <2>4. Known' = Known \cup {a} /\ Existing' = Existing
    BY <1>2, <2>1, <2>2 DEF UpdateAccount, Known, StoresFit, Existing
  <2>5. StoresAgree'
    BY <1>2, <2>4 DEF UpdateAccount, StoresAgree, StoresFit, Announce, Subjects
  <2> QED BY <1>2, <2>3, <2>4, <2>5, JobsStay DEF UpdateAccount
<1>3. ASSUME NEW a \in Accounts, NEW n \in Names, RenameAccount(a, n) PROVE TypeInv'
  <2>1. used' \in [DOMAIN Limit -> Nat] /\ [accounts[a] EXCEPT !.name = n] \in RowType
    BY <1>3 DEF RenameAccount, Spend, Limit, StoresFit, RowType
  <2> QED BY <1>2, <1>3, <2>1 DEF RenameAccount
<1>4. ASSUME NEW a \in Accounts, NEW k \in Kinds, EditAccount(a, k) PROVE TypeInv'
  <2>1. used' \in [DOMAIN Limit -> Nat] /\ [accounts[a] EXCEPT !.kind = k] \in RowType
    BY <1>4 DEF EditAccount, Spend, Limit, StoresFit, RowType
  <2> QED BY <1>2, <1>4, <2>1 DEF EditAccount
<1>5. ASSUME NEW p \in Payments, RecordPayment(p) PROVE TypeInv'
  <2>1. StoresFit' /\ StoresAgree' /\ Known \subseteq Known' /\ UNCHANGED Existing
    BY <1>5 DEF RecordPayment, StoresFit, StoresAgree, Known, Announce, Subjects, Existing
  <2> QED BY <1>5, <2>1, JobsStay DEF RecordPayment
<1>6. ASSUME NEW p \in Payments, LinkInvoice(p) PROVE TypeInv'
  <2>1. StoresFit' /\ StoresAgree' /\ UNCHANGED <<Known, Existing>>
    BY <1>6 DEF LinkInvoice, StoresFit, StoresAgree, Known, Existing
  <2> QED BY <1>6, <2>1, JobsStay DEF LinkInvoice
<1>7. ASSUME NEW d \in Ids, QboTouch(d) PROVE TypeInv'
  <2>1. qboAccounts'[d] \in Remote
    BY <1>7 DEF QboTouch, StoresFit, Existing, Remote
  <2>2. qboAccounts'[d] # None /\ qboAccounts' = [qboAccounts EXCEPT ![d] = qboAccounts'[d]]
    BY <1>7, <2>1, NoneIsNoRecord DEF QboTouch, StoresFit
  <2>3. StoresFit' /\ UNCHANGED Known
    BY <1>7, <2>1, <2>2 DEF QboTouch, StoresFit, Known, Spend, Limit
  <2>4. Existing \subseteq Existing'
    BY <2>2 DEF StoresFit, Existing
  <2>5. StoresAgree'
    BY <1>7, <2>3, <2>4 DEF QboTouch, StoresAgree
  <2> QED BY <1>7, <2>3, <2>4, <2>5, JobsStay DEF QboTouch
<1>8. ASSUME NEW d \in Ids, NEW n \in Names, NEW k \in Kinds, QboEnter(d, n, k) PROVE TypeInv'
  <2>1. [name |-> n, kind |-> k, token |-> 0, rid |-> <<None, 0>>] \in Remote
    BY DEF Remote
  <2>2. qboAccounts'[d] # None /\ qboAccounts'[d] \in Remote
        /\ qboAccounts' = [qboAccounts EXCEPT ![d] = qboAccounts'[d]]
    BY <1>8, <2>1, NoneIsNoRecord DEF QboEnter, StoresFit
  <2>3. StoresFit' /\ UNCHANGED Known
    BY <1>8, <2>2 DEF QboEnter, StoresFit, Known, Spend, Limit
  <2>4. Existing \subseteq Existing'
    BY <2>2 DEF StoresFit, Existing
  <2>5. StoresAgree'
    BY <1>8, <2>3, <2>4 DEF QboEnter, StoresAgree
  <2> QED BY <1>8, <2>3, <2>4, <2>5, JobsStay DEF QboEnter
<1>9. ASSUME NEW s \in Subjects, Replay(s) PROVE TypeInv'
  <2>1. StoresFit' /\ StoresAgree' /\ UNCHANGED <<Known, Existing>>
    BY <1>9 DEF Replay, StoresFit, StoresAgree, Known, Existing, Announce, Spend, Limit, Subjects
  <2> QED BY <1>9, <2>1, JobsStay DEF Replay
<1> QED
  BY <1>1, <1>3, <1>4, <1>5, <1>6, <1>7, <1>8, <1>9 DEF People

\* An account that is updated is an account.
LEMMA UpdatedFits ==
  ASSUME NEW r \in Remote, NEW n \in Names, NEW k \in Kinds
  PROVE  [r EXCEPT !.name = n, !.kind = k, !.token = @ + 1] \in Remote
  <1>1. r.token + 1 \in Nat BY DEF Remote
  <1> QED BY <1>1 DEF Remote

\* What a worker does while nothing fails.
LEMMA WorkerTypes ==
  ASSUME TypeInv, NEW w \in Workers, Worker(w)
  PROVE  TypeInv'
<1> USE DEF ledger, qbo, links, outbox, At
<1>j. /\ JobFits(job[w]) /\ StoresFit /\ StoresAgree
      /\ job \in [Workers -> {job[v] : v \in Workers}]
  BY DEF TypeInv, JobsFit
\* A step that only moves the worker on.
<1>m. ASSUME NEW j, job' = [job EXCEPT ![w] = j], JobFits(j),
             UNCHANGED <<accounts, payments, invoiced, qboAccounts, links, outbox, used>>
      PROVE  TypeInv'
  <2>1. StoresFit' /\ StoresAgree' /\ UNCHANGED <<Known, Existing>>
    BY <1>j, <1>m DEF StoresFit, StoresAgree, Known, Existing
  <2>2. JobFits(job[w])'
    <3>1. job'[w] = j BY <1>j, <1>m
    <3> QED BY <1>m, <2>1, <3>1 DEF JobFits
  <2> QED BY <1>m, <2>1, <2>2, JobsMove DEF TypeInv
\* The read of QuickBooks gives an account that is there.
<1>r. ASSUME NEW d \in Existing PROVE Read(d) \in Token /\ Read(d).id \in Existing
  BY <1>j, <1>r DEF Read, Token, StoresFit, Existing, Remote
<1>1. ASSUME NEW s \in Subjects, Take(w, s) PROVE TypeInv'
  <2>1. s \in Known
    BY <1>1, <1>j DEF Take, StoresAgree
  <2>2. StoresFit' /\ StoresAgree' /\ UNCHANGED <<Known, Existing, payments>>
    BY <1>1, <1>j DEF Take, StoresFit, StoresAgree, Known, Existing, Subjects
  <2> DEFINE j == IF s \in Payments THEN [IdleJob EXCEPT !.pc = "paymentLink", !.subject = s]
                  ELSE [IdleJob EXCEPT !.pc = "accountLink", !.subject = s, !.row = accounts[s]]
  <2>3. JobFits(j)
    <3>1. CASE s \in Payments
      <4>1. s \in payments BY <2>1, <3>1, SubjectsDiffer DEF Known
      <4> QED BY <2>1, <3>1, <4>1 DEF JobFits, IdleJob, PaymentPc, AccountPc
    <3>2. CASE s \notin Payments
      <4>1. s \in Accounts /\ accounts[s] \in RowType
        BY <2>1, <1>j, <3>2 DEF Known, StoresFit
      <4> QED BY <2>1, <3>2, <4>1 DEF JobFits, IdleJob, PaymentPc, AccountPc
    <3> QED BY <3>1, <3>2
  <2>4. job' = [job EXCEPT ![w] = j] BY <1>1 DEF Take
  <2> HIDE DEF j
  <2>5. JobFits(job[w])'
    <3>1. job'[w] = j BY <1>j, <2>4
    <3> QED BY <2>2, <2>3, <3>1 DEF JobFits
  <2> QED BY <1>1, <2>2, <2>4, <2>5, JobsMove DEF TypeInv, Take
<1>2. CASE PaymentLink(w)
  <2>1. JobFits([job[w] EXCEPT !.pc = IF job[w].subject \in paymentLinks
                                      THEN "finish" ELSE "invoiceLink"])
    BY <1>2, <1>j DEF PaymentLink, JobFits, IdleJob, PaymentPc, AccountPc
  <2> QED BY <1>2, <1>m, <2>1 DEF PaymentLink, Goto
<1>3. CASE InvoiceLink(w)
  <2>1. CASE job[w].subject \in invoiced /\ Goto(w, "createPayment") /\ UNCHANGED <<outbox, used>>
    <3>1. JobFits([job[w] EXCEPT !.pc = "createPayment"])
      BY <1>3, <1>j DEF InvoiceLink, JobFits, IdleJob, PaymentPc, AccountPc
    <3> QED BY <1>3, <1>m, <2>1, <3>1 DEF InvoiceLink, Goto
  <2>2. CASE Retry(w)
    BY <1>3, <2>2, InterruptTypes DEF InvoiceLink
  <2> QED BY <1>3, <2>1, <2>2 DEF InvoiceLink
<1>4. CASE PaymentCreate(w)
  <2>1. JobFits([job[w] EXCEPT !.pc = "savePayment"])
    BY <1>4, <1>j DEF PaymentCreate, JobFits, IdleJob, PaymentPc, AccountPc
  <2> QED BY <1>4, <1>m, <2>1 DEF PaymentCreate, Goto
<1>5. CASE PaymentSave(w)
  <2>1. job[w].subject \in payments
    BY <1>5, <1>j DEF PaymentSave, JobFits, PaymentPc
  <2>2. StoresFit' /\ StoresAgree' /\ UNCHANGED <<Known, Existing>>
    BY <1>5, <1>j, <2>1 DEF PaymentSave, StoresFit, StoresAgree, Known, Existing
  <2>3. job' = [job EXCEPT ![w] = [job[w] EXCEPT !.pc = "finish"]]
    BY <1>5 DEF PaymentSave, Goto
  <2>4. JobFits(job[w])'
    <3>1. job'[w] = [job[w] EXCEPT !.pc = "finish"] BY <1>j, <2>3
    <3> QED BY <1>5, <1>j, <2>2, <3>1 DEF JobFits, PaymentSave, PaymentPc, AccountPc
  <2> QED BY <1>5, <2>2, <2>3, <2>4, JobsMove DEF TypeInv, PaymentSave
<1>6. CASE AccountLink(w)
  <2> DEFINE a == job[w].subject
             doc == IF accountLinks[a] = None THEN None
                    ELSE [id |-> accountLinks[a].doc, token |-> 0]
             to == AfterAccountLink(a, job[w].row)
             j == [job[w] EXCEPT !.pc = to, !.doc = doc]
  <2>1. a \in Accounts /\ job[w].row \in RowType
    BY <1>6, <1>j DEF AccountLink, JobFits, AccountPc
  <2>2. to \in {"find", "finish", "read"} /\ (to = "read" => accountLinks[a] # None)
    BY DEF AfterAccountLink
  <2>3. accountLinks[a] # None => doc \in Token /\ doc.id \in Existing
    BY <1>j, <2>1 DEF StoresFit, StoresAgree, Token, LinkType
  <2>4. job' = [job EXCEPT ![w] = j]
    BY <1>6 DEF AccountLink
  <2> HIDE DEF to, doc
  <2>5. JobFits(j)
    BY <1>6, <1>j, <2>1, <2>2, <2>3 DEF AccountLink, JobFits, IdleJob, PaymentPc, AccountPc
  <2> QED BY <1>6, <1>m, <2>4, <2>5 DEF AccountLink
<1>7. CASE AccountRead(w)
  <2>1. Read(job[w].doc.id) \in Token /\ Read(job[w].doc.id).id \in Existing
    BY <1>7, <1>j, <1>r DEF AccountRead, JobFits
  <2>2. JobFits([job[w] EXCEPT !.doc = Read(@.id), !.pc = "update"])
    BY <1>7, <1>j, <2>1 DEF AccountRead, JobFits, IdleJob, PaymentPc, AccountPc
  <2> QED BY <1>7, <1>m, <2>2 DEF AccountRead
<1>8. CASE AccountFind(w)
  <2>1. ASSUME NEW d \in Named(job[w].row.name),
               job' = [job EXCEPT ![w].doc = Read(d), ![w].pc = "update"]
        PROVE  TypeInv'
    <3>1. Read(d) \in Token /\ Read(d).id \in Existing
      BY <1>r DEF Named
    <3>2. JobFits([job[w] EXCEPT !.doc = Read(d), !.pc = "update"])
      BY <1>8, <1>j, <3>1 DEF AccountFind, JobFits, IdleJob, PaymentPc, AccountPc
    <3> QED BY <1>8, <1>m, <2>1, <3>2 DEF AccountFind
  <2>2. CASE Goto(w, "create")
    <3>1. JobFits([job[w] EXCEPT !.pc = "create"])
      BY <1>8, <1>j DEF AccountFind, JobFits, IdleJob, PaymentPc, AccountPc
    <3> QED BY <1>8, <1>m, <2>2, <3>1 DEF AccountFind, Goto
  <2> QED BY <1>8, <2>1, <2>2 DEF AccountFind
<1>9. CASE AccountUpdate(w)
  <2> DEFINE d == job[w].doc.id
             row == job[w].row
             new == [qboAccounts[d] EXCEPT !.name = row.name, !.kind = row.kind, !.token = @ + 1]
  <2>1. CASE Die(w) /\ UNCHANGED qboAccounts
    BY <1>9, <2>1, InterruptTypes DEF AccountUpdate, Retry
  <2>2. CASE /\ qboAccounts' = [qboAccounts EXCEPT ![d] = new]
             /\ Goto(w, "saveAccount") /\ UNCHANGED <<outbox, used>>
    <3>1. d \in Existing /\ row \in RowType /\ job[w].doc \in Token
      BY <1>9, <1>j DEF AccountUpdate, JobFits, AccountPc
    <3>2. new \in Remote
      <4>1. qboAccounts[d] \in Remote
        BY <1>j, <3>1 DEF StoresFit, Existing
      <4>2. row.name \in Names /\ row.kind \in Kinds
        BY <3>1 DEF RowType
      <4> QED BY <4>1, <4>2, UpdatedFits
    <3>3. new # None
      BY <3>2, NoneIsNoRecord
    <3> HIDE DEF new
    <3>4. StoresFit' /\ UNCHANGED Known
      BY <1>9, <1>j, <2>2, <3>2 DEF AccountUpdate, StoresFit, Known
    <3>5. Existing \subseteq Existing'
      BY <1>j, <2>2, <3>3 DEF StoresFit, Existing
    <3>6. StoresAgree'
      BY <1>9, <1>j, <2>2, <3>4, <3>5 DEF AccountUpdate, StoresAgree
    <3>7. job' = [job EXCEPT ![w] = [job[w] EXCEPT !.pc = "saveAccount"]]
      BY <2>2 DEF Goto
    <3>8. JobFits(job[w])'
      <4>1. job'[w] = [job[w] EXCEPT !.pc = "saveAccount"] BY <1>j, <3>7
      <4> QED BY <1>9, <1>j, <3>1, <3>4, <3>5, <4>1
              DEF AccountUpdate, JobFits, PaymentPc, AccountPc
    <3> QED BY <1>9, <3>4, <3>5, <3>6, <3>7, <3>8, JobsMove DEF TypeInv, AccountUpdate
  <2> QED BY <1>9, <2>1, <2>2 DEF AccountUpdate
<1>10. CASE AccountCreate(w)
  <2> DEFINE row == job[w].row
             rid == <<job[w].subject, row.version>>
             Made(d) == job' = [job EXCEPT ![w].doc = [id |-> d, token |-> 0],
                                           ![w].pc = "saveAccount"]
  <2>1. /\ job[w].subject \in Accounts /\ row \in RowType /\ rid \in Accounts \X Nat
        /\ job[w].subject \in Known
    BY <1>10, <1>j DEF AccountCreate, JobFits, AccountPc, RowType
  <2>2. ASSUME NEW d \in Ids PROVE [id |-> d, token |-> 0] \in Token
    BY DEF Token
  <2>3. ASSUME NEW d \in Existing, Made(d), UNCHANGED <<qboAccounts, outbox, used>>
        PROVE  TypeInv'
    <3>1. JobFits([job[w] EXCEPT !.doc = [id |-> d, token |-> 0], !.pc = "saveAccount"])
      BY <1>10, <1>j, <2>1, <2>2, <2>3 DEF AccountCreate, JobFits, Existing, PaymentPc, AccountPc
    <3> QED BY <1>10, <1>m, <2>3, <3>1 DEF AccountCreate
  <2>4. ASSUME NEW d \in Ids \ Existing, Made(d), UNCHANGED <<outbox, used>>,
               qboAccounts' = [qboAccounts EXCEPT ![d] =
                 [name |-> row.name, kind |-> row.kind, token |-> 0, rid |-> rid]]
        PROVE  TypeInv'
    <3> DEFINE new == [name |-> row.name, kind |-> row.kind, token |-> 0, rid |-> rid]
    <3>1. new \in Remote
      BY <2>1 DEF Remote, RowType
    <3>2. new # None
      BY <3>1, NoneIsNoRecord
    <3> HIDE DEF new
    <3>3. StoresFit' /\ UNCHANGED Known
      BY <1>10, <1>j, <2>4, <3>1 DEF AccountCreate, StoresFit, Known, new
    <3>4. Existing' = Existing \cup {d}
      BY <1>j, <2>4, <3>2 DEF StoresFit, Existing, new
    <3>5. StoresAgree'
      BY <1>10, <1>j, <2>4, <3>3, <3>4 DEF AccountCreate, StoresAgree
    <3> DEFINE j == [job[w] EXCEPT !.doc = [id |-> d, token |-> 0], !.pc = "saveAccount"]
    <3>6. job' = [job EXCEPT ![w] = j]
      BY <2>4
    <3>7. JobFits(job[w])'
      <4>1. job'[w] = j BY <1>j, <3>6
      <4>2. /\ j.pc = "saveAccount" /\ j.subject = job[w].subject /\ j.row = row
            /\ j.doc = [id |-> d, token |-> 0] /\ DOMAIN j = DOMAIN job[w]
            /\ j = [x \in DOMAIN j |-> j[x]]
        BY <1>j DEF JobFits
      <4> HIDE DEF j
      <4>3. j.doc \in Token /\ j.doc.id \in Existing'
        BY <2>2, <3>4, <4>2
      <4> QED BY <1>j, <2>1, <3>3, <4>1, <4>2, <4>3 DEF JobFits, PaymentPc, AccountPc
    <3> HIDE DEF j
    <3> QED BY <1>10, <3>3, <3>4, <3>5, <3>6, <3>7, JobsMove DEF TypeInv, AccountCreate
  <2>5. CASE Die(w) /\ UNCHANGED qboAccounts
    BY <1>10, <2>5, InterruptTypes DEF AccountCreate, Retry
  <2> QED BY <1>10, <2>3, <2>4, <2>5 DEF AccountCreate
<1>11. CASE AccountSave(w)
  <2> DEFINE a == job[w].subject
             link == [doc |-> job[w].doc.id, hash |-> Hash(job[w].row)]
  <2>1. CASE Retry(w) /\ UNCHANGED accountLinks
    BY <1>11, <2>1, InterruptTypes DEF AccountSave
  <2>2. CASE /\ accountLinks' = [accountLinks EXCEPT ![a] = link]
             /\ Goto(w, "finish") /\ UNCHANGED <<outbox, used>>
    <3>1. link \in LinkType /\ link.doc \in Existing
      BY <1>11, <1>j DEF AccountSave, JobFits, AccountPc, Hash, RowType, Existing, LinkType
    <3> HIDE DEF link
    <3>2. StoresFit' /\ StoresAgree' /\ UNCHANGED <<Known, Existing>>
      BY <1>11, <1>j, <2>2, <3>1 DEF AccountSave, StoresFit, StoresAgree, Known, Existing
    <3>3. job' = [job EXCEPT ![w] = [job[w] EXCEPT !.pc = "finish"]]
      BY <2>2 DEF Goto
    <3>4. JobFits(job[w])'
      <4>1. job'[w] = [job[w] EXCEPT !.pc = "finish"] BY <1>j, <3>3
      <4> QED BY <1>11, <1>j, <3>2, <4>1 DEF AccountSave, JobFits, PaymentPc, AccountPc
    <3> QED BY <1>11, <3>2, <3>3, <3>4, JobsMove DEF TypeInv, AccountSave
  <2> QED BY <1>11, <2>1, <2>2 DEF AccountSave
<1>12. CASE Finish(w)
  BY <1>12, <1>m DEF Finish, JobFits, IdleJob, PaymentPc, AccountPc
<1> QED
  BY <1>1, <1>2, <1>3, <1>4, <1>5, <1>6, <1>7, <1>8, <1>9, <1>10, <1>11, <1>12
  DEF Worker, Payment, Account

LEMMA TypeInvStep == TypeInv /\ [Next]_vars => TypeInv'
<1> SUFFICES ASSUME TypeInv, [Next]_vars PROVE TypeInv'
  OBVIOUS
<1>1. ASSUME NEW w \in Workers, Interrupt(w) PROVE TypeInv'
  BY <1>1, InterruptTypes DEF Interrupt
<1>2. CASE UNCHANGED vars
  <2>1. StoresFit' /\ StoresAgree' /\ UNCHANGED <<Known, Existing>>
    BY <1>2 DEF vars, ledger, qbo, links, outbox, TypeInv, StoresFit, StoresAgree, Known, Existing
  <2> QED BY <1>2, <2>1, JobsStay DEF vars, ledger, TypeInv
<1> QED BY <1>1, <1>2, PeopleTypes, WorkerTypes DEF Next

\* Rows, links, accounts and events keep their types, a link's account is there, and an
\* idle worker holds nothing.
THEOREM OneWayTypeOK == Spec => []TypeOK
  BY TypeInvInit, TypeInvStep, TypeInvFits, PTL DEF Spec
--------------------------------------------------------------------------------
(***************************************************************************)
(* Payments.  What is made is made under one Request-Id, for an invoice    *)
(* that is linked; and a worker that is past the create, or skips it for   *)
(* a link, leaves a payment behind that is made.                           *)
(***************************************************************************)
Paid(p) == PaymentRequestId(p) \in qboPayments

PaymentsAreDue == qboPayments \subseteq {PaymentRequestId(p) : p \in invoiced}

LinkedAreMade == \A p \in paymentLinks : Paid(p)

WorkersKnow ==
  \A w \in Workers :
    /\ job[w].pc = "createPayment" => job[w].subject \in invoiced
    /\ job[w].pc \in {"savePayment", "finish"} /\ job[w].subject \in Payments
         => Paid(job[w].subject)

NoneForgotten == \A p \in payments : Pending(p) \/ p \in dead \/ Paid(p)

PaymentInv == PaymentsAreDue /\ LinkedAreMade /\ WorkersKnow /\ NoneForgotten

LEMMA PaymentInvInit == Init => PaymentInv
  BY DEF Init, PaymentInv, PaymentsAreDue, LinkedAreMade, WorkersKnow, NoneForgotten, IdleJob

\* A payment whose event is put back or buried is not forgotten.
LEMMA InterruptKeeps ==
  ASSUME TypeInv, PaymentInv, NEW w \in Workers, ~At(w, "idle"), Retry(w),
         UNCHANGED <<ledger, qbo, links>>
  PROVE  PaymentInv'
  <1> USE DEF ledger, qbo, links, Paid
  <1>1. job \in [Workers -> {job[v] : v \in Workers}] /\ job[w].subject \in Subjects
        /\ queue \in [Subjects -> Nat]
    BY DEF TypeInv, StoresFit, JobsFit, JobFits, Known, Subjects, At
  <1>2. job' = [job EXCEPT ![w] = IdleJob]
    BY DEF Retry, Die
  <1>3. WorkersKnow'
    BY <1>1, <1>2 DEF PaymentInv, WorkersKnow, IdleJob
  <1>4. ASSUME NEW p \in payments, Pending(p) PROVE Pending(p)' \/ p \in dead'
    <2>1. p \in Subjects /\ queue[p] \in Nat BY <1>1 DEF TypeInv, StoresFit, Subjects
    <2>2. CASE job[w].subject = p
      BY <1>1, <2>1, <2>2 DEF Retry, Die, Announce, Pending
    <2>3. CASE job[w].subject # p
      <3>1. queue'[p] = queue[p]
        BY <1>1, <2>1, <2>3 DEF Retry, Die, Announce
      <3>2. \A v \in Workers : job[v].subject = p => job'[v].subject = p
        BY <1>1, <1>2, <2>3
      <3> QED BY <1>4, <3>1, <3>2 DEF Pending
    <2> QED BY <2>2, <2>3
  <1>5. NoneForgotten'
    <2>1. dead \subseteq dead' BY DEF Retry, Die
    <2> QED BY <1>4, <2>1 DEF PaymentInv, NoneForgotten
  <1> QED BY <1>3, <1>5 DEF PaymentInv, PaymentsAreDue, LinkedAreMade

\* A step that takes no event away from a payment, buries or forgets none, and makes none.
LEMMA OthersKeep ==
  ASSUME TypeInv, PaymentInv, UNCHANGED <<qboPayments, paymentLinks>>, invoiced \subseteq invoiced',
         \A v \in Workers : /\ job'[v].subject = job[v].subject
                            /\ job'[v].pc = "createPayment" => job'[v].subject \in invoiced'
                            /\ job'[v].pc \in {"savePayment", "finish"} =>
                                 job[v].pc \in {"savePayment", "finish"} \/ job[v].subject \notin Payments,
         \A p \in Payments : (queue[p] > 0 => queue'[p] > 0) /\ (p \in dead => p \in dead' \/ queue'[p] > 0),
         \A p \in payments' \ payments : queue'[p] > 0
  PROVE  PaymentInv'
  <1> USE DEF Paid
  <1>1. payments \subseteq Payments BY DEF TypeInv, StoresFit
  <1>2. WorkersKnow' BY DEF PaymentInv, WorkersKnow
  <1>3. NoneForgotten'
    BY <1>1 DEF PaymentInv, NoneForgotten, Pending
  <1> QED BY <1>2, <1>3 DEF PaymentInv, PaymentsAreDue, LinkedAreMade, PaymentRequestId

LEMMA PaymentInvStep == TypeInv /\ PaymentInv /\ [Next]_vars => PaymentInv'
<1> SUFFICES ASSUME TypeInv, PaymentInv, [Next]_vars PROVE PaymentInv'
  OBVIOUS
<1> USE DEF ledger, qbo, links, outbox, At, Goto
<1>j. /\ job \in [Workers -> {job[v] : v \in Workers}]
      /\ \A v \in Workers : JobFits(job[v])
      /\ queue \in [Subjects -> Nat] /\ payments \subseteq Payments
      /\ Payments \subseteq Subjects /\ Accounts \subseteq Subjects
  BY DEF TypeInv, JobsFit, StoresFit, Subjects
<1>d. \A v \in Workers : job[v].pc = "createPayment" => job[v].subject \in invoiced
  BY DEF PaymentInv, WorkersKnow
<1>a. \A v \in Workers : job[v].pc \in AccountPc => job[v].subject \notin Payments
  BY <1>j, SubjectsDiffer DEF JobFits
<1>1. CASE People
  <2>1. ASSUME NEW a \in Accounts, NEW new, UpdateAccount(a, new)
        PROVE  PaymentInv'
    BY <2>1, <1>j, <1>d, OthersKeep DEF UpdateAccount, Announce
  <2>2. ASSUME NEW a \in Accounts, NEW n \in Names, NEW k \in Kinds, CreateAccount(a, n, k)
        PROVE  PaymentInv'
    BY <2>2, <1>j, <1>d, OthersKeep DEF CreateAccount, Announce
  <2>3. ASSUME NEW p \in Payments, RecordPayment(p) PROVE PaymentInv'
    BY <2>3, <1>j, <1>d, OthersKeep DEF RecordPayment, Announce
  <2>4. ASSUME NEW p \in Payments, LinkInvoice(p) PROVE PaymentInv'
    BY <2>4, <1>j, <1>d, OthersKeep DEF LinkInvoice
  <2>5. ASSUME NEW d \in Ids, QboTouch(d) \/ \E n \in Names, k \in Kinds : QboEnter(d, n, k)
        PROVE  PaymentInv'
    BY <2>5, <1>j, <1>d, OthersKeep DEF QboTouch, QboEnter
  <2>6. ASSUME NEW s \in Subjects, Replay(s) PROVE PaymentInv'
    BY <2>6, <1>j, <1>d, OthersKeep DEF Replay, Announce
  <2> QED BY <1>1, <2>1, <2>2, <2>3, <2>4, <2>5, <2>6 DEF People, RenameAccount, EditAccount
<1>2. ASSUME NEW w \in Workers, Interrupt(w) PROVE PaymentInv'
  BY <1>2, InterruptKeeps DEF Interrupt
<1>3. ASSUME NEW w \in Workers, NEW s \in Subjects, Take(w, s) PROVE PaymentInv'
  <2>1. /\ job'[w].subject = s /\ job'[w].pc \in {"paymentLink", "accountLink"}
        /\ \A v \in Workers \ {w} : job'[v] = job[v]
        /\ job[w].subject = None
    BY <1>3, <1>j DEF Take, IdleJob, JobFits
  <2>2. WorkersKnow'
    BY <1>3, <2>1 DEF Take, PaymentInv, WorkersKnow, Paid
  <2>3. \A p \in payments : Pending(p) => Pending(p)'
    <3> TAKE p \in payments
    <3>1. None \notin Payments BY NoneIsNone
    <3>2. CASE p = s BY <2>1, <3>2 DEF Pending
    <3>3. CASE p # s
      <4>1. queue'[p] = queue[p] BY <1>3, <1>j, <3>3 DEF Take
      <4> QED BY <1>j, <2>1, <3>1, <4>1 DEF Pending
    <3> QED BY <3>2, <3>3
  <2> QED BY <1>3, <2>2, <2>3 DEF Take, PaymentInv, PaymentsAreDue, LinkedAreMade, NoneForgotten, Paid
<1>4. ASSUME NEW w \in Workers, PaymentLink(w) PROVE PaymentInv'
  <2>1. /\ job'[w].subject = job[w].subject
        /\ job'[w].pc = IF job[w].subject \in paymentLinks THEN "finish" ELSE "invoiceLink"
        /\ \A v \in Workers \ {w} : job'[v] = job[v]
    BY <1>4, <1>j DEF PaymentLink
  <2>2. job[w].subject \in paymentLinks => Paid(job[w].subject)
    BY DEF PaymentInv, LinkedAreMade
  <2>3. WorkersKnow'
    BY <1>4, <2>1, <2>2 DEF PaymentLink, PaymentInv, WorkersKnow, Paid
  <2>4. \A p \in payments : Pending(p) => Pending(p)'
    BY <1>4, <1>j, <2>1 DEF PaymentLink, Pending
  <2> QED BY <1>4, <2>3, <2>4
          DEF PaymentLink, PaymentInv, PaymentsAreDue, LinkedAreMade, NoneForgotten, Paid
<1>5. ASSUME NEW w \in Workers, InvoiceLink(w) PROVE PaymentInv'
  <2>1. CASE job[w].subject \in invoiced /\ Goto(w, "createPayment") /\ UNCHANGED <<outbox, used>>
    BY <1>5, <1>j, <1>d, <2>1, OthersKeep DEF InvoiceLink
  <2>2. CASE Retry(w)
    BY <1>5, <2>2, InterruptKeeps DEF InvoiceLink
  <2> QED BY <1>5, <2>1, <2>2 DEF InvoiceLink
<1>6. ASSUME NEW w \in Workers, PaymentCreate(w) PROVE PaymentInv'
  <2>1. /\ job'[w].subject = job[w].subject /\ job'[w].pc = "savePayment"
        /\ \A v \in Workers \ {w} : job'[v] = job[v]
    BY <1>6, <1>j DEF PaymentCreate
  <2>2. Paid(job[w].subject)' /\ qboPayments \subseteq qboPayments' /\ job[w].subject \in invoiced
    BY <1>6, <1>d DEF PaymentCreate, Paid, PaymentRequestId
  <2>3. WorkersKnow'
    BY <1>6, <2>1, <2>2 DEF PaymentCreate, PaymentInv, WorkersKnow, Paid
  <2>4. \A p \in payments : Pending(p) => Pending(p)'
    BY <1>6, <1>j, <2>1 DEF PaymentCreate, Pending
  <2>5. PaymentsAreDue'
    BY <1>6, <2>2 DEF PaymentCreate, PaymentInv, PaymentsAreDue, PaymentRequestId
  <2> QED BY <1>6, <2>2, <2>3, <2>4, <2>5
          DEF PaymentCreate, PaymentInv, LinkedAreMade, NoneForgotten, Paid
<1>7. ASSUME NEW w \in Workers, PaymentSave(w) PROVE PaymentInv'
  <2>1. /\ job'[w].subject = job[w].subject /\ job'[w].pc = "finish"
        /\ \A v \in Workers \ {w} : job'[v] = job[v]
    BY <1>7, <1>j DEF PaymentSave
  <2>2. Paid(job[w].subject)
    <3>1. job[w].subject \in Payments
      BY <1>7, <1>j DEF PaymentSave, JobFits, PaymentPc
    <3> QED BY <1>7, <3>1 DEF PaymentSave, PaymentInv, WorkersKnow
  <2>3. WorkersKnow'
    BY <1>7, <2>1, <2>2 DEF PaymentSave, PaymentInv, WorkersKnow, Paid
  <2>4. \A p \in payments : Pending(p) => Pending(p)'
    BY <1>7, <1>j, <2>1 DEF PaymentSave, Pending
  <2> QED BY <1>7, <2>2, <2>3, <2>4
          DEF PaymentSave, PaymentInv, PaymentsAreDue, LinkedAreMade, NoneForgotten, Paid
<1>8. ASSUME NEW w \in Workers, Account(w) PROVE PaymentInv'
  <2>1. CASE Retry(w) /\ UNCHANGED <<ledger, qbo, links>> /\ ~At(w, "idle")
    BY <2>1, InterruptKeeps
  <2>2. CASE /\ UNCHANGED <<ledger, qboPayments, paymentLinks, outbox>> /\ At(w, job[w].pc)
             /\ \E j : job' = [job EXCEPT ![w] = j] /\ j.subject = job[w].subject
                       /\ j.pc # "createPayment"
             /\ job[w].pc \in AccountPc
    BY <2>2, <1>j, <1>a, <1>d, OthersKeep
  <2>3. job[w].pc \in AccountPc /\ job[w].pc # "idle"
    BY <1>8 DEF Account, AccountLink, AccountRead, AccountFind, AccountUpdate, AccountCreate,
                AccountSave, AccountPc
  <2>4. CASE AccountLink(w)
    <3> DEFINE j == [job[w] EXCEPT !.pc = AfterAccountLink(job[w].subject, job[w].row),
                                   !.doc = IF accountLinks[job[w].subject] = None THEN None
                                     ELSE [id |-> accountLinks[job[w].subject].doc, token |-> 0]]
    <3>1. job' = [job EXCEPT ![w] = j] BY <2>4 DEF AccountLink
    <3>2. j.subject = job[w].subject /\ j.pc = AfterAccountLink(job[w].subject, job[w].row)
      BY <1>j DEF JobFits
    <3>3. j.pc # "createPayment" BY <3>2 DEF AfterAccountLink
    <3> HIDE DEF j
    <3> QED BY <2>2, <2>3, <2>4, <3>1, <3>2, <3>3 DEF AccountLink
  <2>m. ASSUME NEW to \in {"update", "create", "saveAccount", "finish"}, NEW doc,
               \/ job' = [job EXCEPT ![w] = [job[w] EXCEPT !.pc = to]]
               \/ job' = [job EXCEPT ![w] = [job[w] EXCEPT !.doc = doc, !.pc = to]],
               UNCHANGED <<ledger, qboPayments, paymentLinks, outbox>>
        PROVE  PaymentInv'
    <3>1. ASSUME NEW j, j = [job[w] EXCEPT !.pc = to] \/ j = [job[w] EXCEPT !.doc = doc, !.pc = to],
                 job' = [job EXCEPT ![w] = j]
          PROVE  PaymentInv'
      <4>1. j.subject = job[w].subject /\ j.pc = to
        BY <1>j, <3>1 DEF JobFits
      <4> QED BY <2>m, <2>2, <2>3, <3>1, <4>1
    <3> QED BY <2>m, <3>1
  <2>5. CASE AccountRead(w)
    <3>1. job' = [job EXCEPT ![w] = [job[w] EXCEPT !.doc = Read(@.id), !.pc = "update"]]
      BY <2>5 DEF AccountRead
    <3> QED BY <2>m, <2>5, <3>1 DEF AccountRead
  <2>6. CASE AccountFind(w)
    BY <2>m, <2>6 DEF AccountFind
  <2>7. CASE AccountUpdate(w)
    BY <2>1, <2>m, <2>3, <2>7 DEF AccountUpdate, Retry
  <2>8. CASE AccountCreate(w)
    <3>1. CASE Die(w) /\ UNCHANGED qboAccounts
      BY <2>1, <2>3, <2>8, <3>1 DEF AccountCreate, Retry
    <3>2. CASE /\ \E d \in Ids : job' = [job EXCEPT ![w].doc = [id |-> d, token |-> 0],
                                                   ![w].pc = "saveAccount"]
               /\ UNCHANGED <<outbox, used>>
      BY <2>m, <2>8, <3>2 DEF AccountCreate
    <3> QED BY <2>8, <3>1, <3>2 DEF AccountCreate, Existing
  <2>9. CASE AccountSave(w)
    BY <2>1, <2>m, <2>3, <2>9 DEF AccountSave
  <2> QED BY <1>8, <2>4, <2>5, <2>6, <2>7, <2>8, <2>9 DEF Account
<1>9. ASSUME NEW w \in Workers, Finish(w) PROVE PaymentInv'
  <2>1. job'[w] = IdleJob /\ \A v \in Workers \ {w} : job'[v] = job[v]
    BY <1>9, <1>j DEF Finish
  <2>2. WorkersKnow'
    BY <1>9, <2>1 DEF Finish, PaymentInv, WorkersKnow, Paid, IdleJob
  <2>3. job[w].subject \in payments => Paid(job[w].subject)
    BY <1>9, <1>j DEF Finish, PaymentInv, WorkersKnow
  <2>4. \A p \in payments : Pending(p) => Pending(p)' \/ Paid(p)
    BY <1>9, <1>j, <2>1, <2>3 DEF Finish, Pending
  <2> QED BY <1>9, <2>2, <2>4
          DEF Finish, PaymentInv, PaymentsAreDue, LinkedAreMade, NoneForgotten, Paid
<1>10. CASE UNCHANGED vars
  BY <1>10 DEF vars, PaymentInv, PaymentsAreDue, LinkedAreMade, WorkersKnow, NoneForgotten, Paid,
               Pending
<1> QED
  BY <1>1, <1>2, <1>3, <1>4, <1>5, <1>6, <1>7, <1>8, <1>9, <1>10 DEF Next, Worker, Payment

\* A payment is made once in QuickBooks and only when its invoice is there, however often its
\* event is tried, interrupted or replayed, by however many workers.
THEOREM PaymentsOnce == Spec => []OnePaymentEach
<1>1. TypeInv /\ PaymentInv => OnePaymentEach
  <2> SUFFICES ASSUME TypeInv, PaymentInv, NEW p \in Payments
               PROVE  LET made == {rid \in qboPayments : rid[1] = p}
                      IN  Cardinality(made) <= 1 /\ (made # {} => p \in invoiced)
    BY DEF OnePaymentEach
  <2> DEFINE made == {rid \in qboPayments : rid[1] = p}
  <2>1. made \subseteq {PaymentRequestId(p)} /\ (made # {} => p \in invoiced)
    BY DEF PaymentInv, PaymentsAreDue, PaymentRequestId
  <2>2. IsFiniteSet({PaymentRequestId(p)}) /\ Cardinality({PaymentRequestId(p)}) = 1
    BY FS_Singleton
  <2>3. Cardinality(made) <= 1
    BY <2>1, <2>2, FS_Subset
  <2> QED BY <2>1, <2>3
<1> QED BY <1>1, TypeInvInit, TypeInvStep, PaymentInvInit, PaymentInvStep, PTL DEF Spec

\* A payment with no event left to handle is made, or its event is dead.
THEOREM PaymentsAreNotForgotten == Spec => []SettledPaymentIsMade
<1>1. PaymentInv => SettledPaymentIsMade
  BY DEF PaymentInv, NoneForgotten, Paid, PaymentRequestId, SettledPaymentIsMade
<1> QED BY <1>1, TypeInvInit, TypeInvStep, PaymentInvInit, PaymentInvStep, PTL DEF Spec
--------------------------------------------------------------------------------
(***************************************************************************)
(* Where each step of a worker takes its job, field by field.              *)
(***************************************************************************)
Moved(w, pc, subject, row, doc) ==
  /\ /\ job'[w].pc = pc /\ job'[w].subject = subject
     /\ job'[w].row = row /\ job'[w].doc = doc
  /\ \A v \in Workers : v # w => job'[v] = job[v]

Dropped(w) == Moved(w, "idle", None, None, None)

LEMMA MovesTo ==
  ASSUME TypeInv, NEW w \in Workers, NEW j, job' = [job EXCEPT ![w] = j]
  PROVE  job'[w] = j /\ \A v \in Workers : v # w => job'[v] = job[v]
  BY DEF TypeInv, JobsFit

LEMMA MovesToIdle ==
  ASSUME TypeInv, NEW w \in Workers, job' = [job EXCEPT ![w] = IdleJob]
  PROVE  Dropped(w)
<1>1. job'[w] = IdleJob /\ \A v \in Workers : v # w => job'[v] = job[v]
  BY MovesTo
<1> QED BY <1>1 DEF Moved, Dropped, IdleJob

LEMMA MovesPc ==
  ASSUME TypeInv, NEW w \in Workers, NEW pc, Goto(w, pc)
  PROVE  Moved(w, pc, job[w].subject, job[w].row, job[w].doc)
<1> DEFINE j == job[w]
           k == job'[w]
<1>1. job' = [job EXCEPT ![w] = [job[w] EXCEPT !.pc = pc]]
  BY DEF Goto
<1>2. k = [j EXCEPT !.pc = pc]
  BY <1>1, MovesTo
<1>3. \A v \in Workers : v # w => job'[v] = job[v]
  BY <1>1, MovesTo
<1>4. DOMAIN j = {"pc", "subject", "row", "doc"}
  BY DEF TypeInv, JobsFit, JobFits
<1> HIDE DEF j, k
<1>5. k.pc = pc /\ k.subject = j.subject /\ k.row = j.row /\ k.doc = j.doc
  BY <1>2, <1>4
<1> QED BY <1>3, <1>5 DEF Moved, j, k

LEMMA MovesDoc ==
  ASSUME TypeInv, NEW w \in Workers, NEW doc, NEW pc,
         \/ job' = [job EXCEPT ![w] = [job[w] EXCEPT !.doc = doc, !.pc = pc]]
         \/ job' = [job EXCEPT ![w] = [job[w] EXCEPT !.pc = pc, !.doc = doc]]
  PROVE  Moved(w, pc, job[w].subject, job[w].row, doc)
<1> DEFINE j == job[w]
           k == job'[w]
<1>1. k = [j EXCEPT !.doc = doc, !.pc = pc] \/ k = [j EXCEPT !.pc = pc, !.doc = doc]
  BY MovesTo
<1>2. \A v \in Workers : v # w => job'[v] = job[v]
  BY MovesTo
<1>3. DOMAIN j = {"pc", "subject", "row", "doc"}
  BY DEF TypeInv, JobsFit, JobFits
<1> HIDE DEF j, k
<1>4. k.pc = pc /\ k.subject = j.subject /\ k.row = j.row /\ k.doc = doc
  BY <1>1, <1>3
<1> QED BY <1>2, <1>4 DEF Moved, j, k

\* What an update leaves in QuickBooks, and where a create or an update is refused.
Updated(d, row) ==
  [qboAccounts[d] EXCEPT !.name = row.name, !.kind = row.kind, !.token = @ + 1]

LEMMA AccountMoves ==
  ASSUME TypeInv, NEW w \in Workers
  PROVE  LET j == job[w] IN
         /\ \A s \in Subjects : Take(w, s) =>
              IF s \in Payments THEN Moved(w, "paymentLink", s, None, None)
              ELSE Moved(w, "accountLink", s, accounts[s], None)
         /\ AccountLink(w) =>
              Moved(w, AfterAccountLink(j.subject, j.row), j.subject, j.row,
                    IF accountLinks[j.subject] = None THEN None
                    ELSE [id |-> accountLinks[j.subject].doc, token |-> 0])
         /\ AccountRead(w) => Moved(w, "update", j.subject, j.row, Read(j.doc.id))
         /\ AccountFind(w) =>
              \/ \E d \in Named(j.row.name) : Moved(w, "update", j.subject, j.row, Read(d))
              \/ Named(j.row.name) = {} /\ Moved(w, "create", j.subject, j.row, j.doc)
         /\ AccountUpdate(w) =>
              \/ /\ Named(j.row.name) \subseteq {j.doc.id}
                 /\ Moved(w, "saveAccount", j.subject, j.row, j.doc)
                 /\ qboAccounts' = [qboAccounts EXCEPT ![j.doc.id] = Updated(j.doc.id, j.row)]
                 /\ UNCHANGED <<ledger, qboPayments, links, outbox, used>>
              \/ Die(w) /\ UNCHANGED <<ledger, qbo, links>>
         /\ AccountCreate(w) =>
              \/ \E d \in Existing :
                   /\ qboAccounts[d].rid[1] = j.subject
                   /\ Moved(w, "saveAccount", j.subject, j.row, [id |-> d, token |-> 0])
                   /\ UNCHANGED <<ledger, qbo, links, outbox, used>>
              \/ \E d \in Ids \ Existing :
                   /\ Named(j.row.name) = {}
                   /\ Moved(w, "saveAccount", j.subject, j.row, [id |-> d, token |-> 0])
                   /\ qboAccounts' = [qboAccounts EXCEPT ![d] =
                        [name |-> j.row.name, kind |-> j.row.kind, token |-> 0,
                         rid |-> <<j.subject, j.row.version>>]]
                   /\ UNCHANGED <<ledger, qboPayments, links, outbox, used>>
              \/ Die(w) /\ UNCHANGED <<ledger, qbo, links>>
         /\ AccountSave(w) =>
              \/ /\ \A b \in Accounts \ {j.subject} :
                      accountLinks[b] # None => accountLinks[b].doc # j.doc.id
                 /\ Moved(w, "finish", j.subject, j.row, j.doc)
                 /\ accountLinks' = [accountLinks EXCEPT ![j.subject] =
                                       [doc |-> j.doc.id, hash |-> Hash(j.row)]]
                 /\ UNCHANGED <<ledger, qbo, paymentLinks, outbox, used>>
              \/ Retry(w) /\ UNCHANGED <<ledger, qbo, links>>
<1> USE DEF qbo, links
<1> DEFINE j == job[w]
<1>1. ASSUME NEW s \in Subjects, Take(w, s)
      PROVE  IF s \in Payments THEN Moved(w, "paymentLink", s, None, None)
             ELSE Moved(w, "accountLink", s, accounts[s], None)
  <2> DEFINE p == [IdleJob EXCEPT !.pc = "paymentLink", !.subject = s]
             a == [IdleJob EXCEPT !.pc = "accountLink", !.subject = s, !.row = accounts[s]]
  <2>1. job' = [job EXCEPT ![w] = IF s \in Payments THEN p ELSE a]
    BY <1>1 DEF Take
  <2>2. /\ p.pc = "paymentLink" /\ p.subject = s /\ p.row = None /\ p.doc = None
        /\ a.pc = "accountLink" /\ a.subject = s /\ a.row = accounts[s] /\ a.doc = None
    BY DEF IdleJob
  <2> HIDE DEF p, a
  <2>3. /\ job'[w] = IF s \in Payments THEN p ELSE a
        /\ \A v \in Workers : v # w => job'[v] = job[v]
    BY <2>1, MovesTo
  <2> QED BY <2>2, <2>3 DEF Moved
<1>2. ASSUME AccountLink(w)
      PROVE  Moved(w, AfterAccountLink(j.subject, j.row), j.subject, j.row,
                   IF accountLinks[j.subject] = None THEN None
                   ELSE [id |-> accountLinks[j.subject].doc, token |-> 0])
  <2> DEFINE to == AfterAccountLink(job[w].subject, job[w].row)
             doc == IF accountLinks[job[w].subject] = None THEN None
                    ELSE [id |-> accountLinks[job[w].subject].doc, token |-> 0]
  <2>1. job' = [job EXCEPT ![w] = [job[w] EXCEPT !.pc = to, !.doc = doc]]
    BY <1>2 DEF AccountLink
  <2> HIDE DEF to, doc
  <2>2. Moved(w, to, j.subject, j.row, doc)
    BY <2>1, MovesDoc
  <2> QED BY <2>2 DEF to, doc
<1>3. ASSUME AccountRead(w) PROVE Moved(w, "update", j.subject, j.row, Read(j.doc.id))
  <2> DEFINE doc == Read(job[w].doc.id)
  <2>1. job' = [job EXCEPT ![w] = [job[w] EXCEPT !.doc = doc, !.pc = "update"]]
    BY <1>3 DEF AccountRead
  <2> HIDE DEF doc
  <2>2. Moved(w, "update", j.subject, j.row, doc)
    BY <2>1, MovesDoc
  <2> QED BY <2>2 DEF doc
<1>4. ASSUME AccountFind(w)
      PROVE  \/ \E d \in Named(j.row.name) : Moved(w, "update", j.subject, j.row, Read(d))
             \/ Named(j.row.name) = {} /\ Moved(w, "create", j.subject, j.row, j.doc)
  <2>1. ASSUME NEW d \in Named(j.row.name),
               job' = [job EXCEPT ![w].doc = Read(d), ![w].pc = "update"]
        PROVE  Moved(w, "update", j.subject, j.row, Read(d))
    <3>1. job' = [job EXCEPT ![w] = [job[w] EXCEPT !.doc = Read(d), !.pc = "update"]]
      BY <2>1
    <3> QED BY <3>1, MovesDoc
  <2> QED BY <1>4, <2>1, MovesPc DEF AccountFind
<1>5. AccountUpdate(w) =>
        \/ /\ Named(j.row.name) \subseteq {j.doc.id}
           /\ Moved(w, "saveAccount", j.subject, j.row, j.doc)
           /\ qboAccounts' = [qboAccounts EXCEPT ![j.doc.id] = Updated(j.doc.id, j.row)]
           /\ UNCHANGED <<ledger, qboPayments, links, outbox, used>>
        \/ Die(w) /\ UNCHANGED <<ledger, qbo, links>>
  BY MovesPc DEF AccountUpdate, Updated
<1>6. ASSUME NEW d, job' = [job EXCEPT ![w].doc = [id |-> d, token |-> 0], ![w].pc = "saveAccount"]
      PROVE  Moved(w, "saveAccount", j.subject, j.row, [id |-> d, token |-> 0])
  <2> DEFINE doc == [id |-> d, token |-> 0]
  <2>1. job' = [job EXCEPT ![w] = [job[w] EXCEPT !.doc = doc, !.pc = "saveAccount"]]
    BY <1>6
  <2> HIDE DEF doc
  <2>2. Moved(w, "saveAccount", j.subject, j.row, doc)
    BY <2>1, MovesDoc
  <2> QED BY <2>2 DEF doc
<1>7. ASSUME AccountCreate(w)
      PROVE  \/ \E d \in Existing :
                  /\ qboAccounts[d].rid[1] = j.subject
                  /\ Moved(w, "saveAccount", j.subject, j.row, [id |-> d, token |-> 0])
                  /\ UNCHANGED <<ledger, qbo, links, outbox, used>>
             \/ \E d \in Ids \ Existing :
                  /\ Named(j.row.name) = {}
                  /\ Moved(w, "saveAccount", j.subject, j.row, [id |-> d, token |-> 0])
                  /\ qboAccounts' = [qboAccounts EXCEPT ![d] =
                       [name |-> j.row.name, kind |-> j.row.kind, token |-> 0,
                        rid |-> <<j.subject, j.row.version>>]]
                  /\ UNCHANGED <<ledger, qboPayments, links, outbox, used>>
             \/ Die(w) /\ UNCHANGED <<ledger, qbo, links>>
  <2> DEFINE rid == <<job[w].subject, job[w].row.version>>
             Made(d) == job' = [job EXCEPT ![w].doc = [id |-> d, token |-> 0],
                                           ![w].pc = "saveAccount"]
  <2>1. CASE \E d \in Existing : qboAccounts[d].rid = rid /\ Made(d)
                                /\ UNCHANGED <<qboAccounts, outbox, used>>
    <3>1. PICK d \in Existing : qboAccounts[d].rid = rid /\ Made(d)
                                /\ UNCHANGED <<qboAccounts, outbox, used>>
      BY <2>1
    <3>2. qboAccounts[d].rid[1] = j.subject
      BY <3>1
    <3>3. Moved(w, "saveAccount", j.subject, j.row, [id |-> d, token |-> 0])
      BY <1>6, <3>1
    <3>4. UNCHANGED <<ledger, qbo, links, outbox, used>>
      BY <1>7, <3>1 DEF AccountCreate
    <3> QED BY <3>2, <3>3, <3>4
  <2>2. CASE \E d \in Ids \ Existing :
               /\ Named(job[w].row.name) = {} /\ Made(d)
               /\ qboAccounts' = [qboAccounts EXCEPT ![d] =
                    [name |-> job[w].row.name, kind |-> job[w].row.kind, token |-> 0, rid |-> rid]]
               /\ UNCHANGED <<outbox, used>>
    <3>1. PICK d \in Ids \ Existing :
               /\ Named(job[w].row.name) = {} /\ Made(d)
               /\ qboAccounts' = [qboAccounts EXCEPT ![d] =
                    [name |-> job[w].row.name, kind |-> job[w].row.kind, token |-> 0, rid |-> rid]]
               /\ UNCHANGED <<outbox, used>>
      BY <2>2
    <3>2. Moved(w, "saveAccount", j.subject, j.row, [id |-> d, token |-> 0])
      BY <1>6, <3>1
    <3>3. UNCHANGED <<ledger, qboPayments, links, outbox, used>>
      BY <1>7, <3>1 DEF AccountCreate
    <3> QED BY <3>1, <3>2, <3>3
  <2>3. CASE Die(w) /\ UNCHANGED qboAccounts
    BY <1>7, <2>3 DEF AccountCreate
  <2> QED BY <1>7, <2>1, <2>2, <2>3 DEF AccountCreate
<1>8. AccountSave(w) =>
        \/ /\ \A b \in Accounts \ {j.subject} :
                accountLinks[b] # None => accountLinks[b].doc # j.doc.id
           /\ Moved(w, "finish", j.subject, j.row, j.doc)
           /\ accountLinks' = [accountLinks EXCEPT ![j.subject] =
                                 [doc |-> j.doc.id, hash |-> Hash(j.row)]]
           /\ UNCHANGED <<ledger, qbo, paymentLinks, outbox, used>>
        \/ Retry(w) /\ UNCHANGED <<ledger, qbo, links>>
  BY MovesPc DEF AccountSave
<1> QED BY <1>1, <1>2, <1>3, <1>4, <1>5, <1>7, <1>8

\* The steps of a payment, and those that end a job.
LEMMA OtherMoves ==
  ASSUME TypeInv, NEW w \in Workers
  PROVE  /\ Payment(w) =>
              \/ \E pc \in PaymentPc \cup {"finish"} :
                   Moved(w, pc, job[w].subject, job[w].row, job[w].doc)
              \/ Retry(w) /\ UNCHANGED <<ledger, qbo, links>>
         /\ Finish(w) \/ Die(w) \/ Retry(w) \/ Interrupt(w) => Dropped(w)
<1>1. PaymentLink(w) => \E pc \in PaymentPc \cup {"finish"} :
                          Moved(w, pc, job[w].subject, job[w].row, job[w].doc)
  BY MovesPc DEF PaymentLink, PaymentPc
<1>2. InvoiceLink(w) => \/ Moved(w, "createPayment", job[w].subject, job[w].row, job[w].doc)
                        \/ Retry(w) /\ UNCHANGED <<ledger, qbo, links>>
  BY MovesPc DEF InvoiceLink
<1>3. PaymentCreate(w) => Moved(w, "savePayment", job[w].subject, job[w].row, job[w].doc)
  BY MovesPc DEF PaymentCreate
<1>4. PaymentSave(w) => Moved(w, "finish", job[w].subject, job[w].row, job[w].doc)
  BY MovesPc DEF PaymentSave
<1>5. Finish(w) \/ Die(w) \/ Retry(w) \/ Interrupt(w) => Dropped(w)
  BY MovesToIdle DEF Finish, Die, Retry, Interrupt
<1> QED BY <1>1, <1>2, <1>3, <1>4, <1>5 DEF Payment, PaymentPc
--------------------------------------------------------------------------------
(***************************************************************************)
(* Accounts.  With one worker, and while no account is renamed before its  *)
(* link is written, what was made for an account that has no link carries  *)
(* the name its next create would look for, so that it is found; nobody    *)
(* else has that name, and no other account has taken it over.             *)
(***************************************************************************)
OneAtATime == ~RenamesUnlinked /\ \A v, w \in Workers : v = w

Linked(a) == accountLinks[a] # None
Made(a)   == {d \in Existing : qboAccounts[d].rid[1] = a}

NamesDiffer ==
  \A a, b \in Accounts :
    accounts[a] # None /\ accounts[b] # None /\ a # b => accounts[a].name # accounts[b].name

MadeIsFound ==
  \A a \in Accounts : ~Linked(a) =>
    \A d \in Made(a) :
      /\ accounts[a] # None /\ qboAccounts[d].name = accounts[a].name
      /\ \A b \in Accounts : Linked(b) => accountLinks[b].doc # d

MadeOnce == \A a \in Accounts : \A d, e \in Made(a) : d = e

StoreInv == NamesDiffer /\ MadeIsFound /\ MadeOnce

JobKnows(j) ==
  j.pc \in AccountPc =>
    LET a == j.subject IN
    /\ ~Linked(a) => accounts[a] # None /\ j.row.name = accounts[a].name
    /\ j.pc \in {"find", "create"} => ~Linked(a)
    /\ j.pc = "read" => Linked(a)
    /\ j.pc = "create" => Made(a) = {}
    /\ j.pc \in {"read", "update", "saveAccount"} =>
         IF Linked(a) THEN j.doc.id = accountLinks[a].doc
         ELSE qboAccounts[j.doc.id].name = j.row.name

AccountInv == StoreInv /\ \A w \in Workers : JobKnows(job[w])

LEMMA AccountInvInit == Init => AccountInv
  BY DEF Init, AccountInv, StoreInv, NamesDiffer, MadeIsFound, MadeOnce, Made, Existing, JobKnows,
     IdleJob, AccountPc

\* QuickBooks' accounts keep their names and who they were made for.
QboStays ==
  /\ Existing \subseteq Existing'
  /\ \A d \in Existing : /\ qboAccounts'[d].name = qboAccounts[d].name
                         /\ qboAccounts'[d].rid = qboAccounts[d].rid
  /\ \A d \in Existing' \ Existing : qboAccounts'[d].rid[1] \notin Accounts

\* The ledger's accounts do, as far as they are not linked.
LedgerStays ==
  \A a \in Accounts : accounts[a] # None =>
    accounts'[a] # None /\ (~Linked(a) => accounts'[a].name = accounts[a].name)

LEMMA MadeStays == ASSUME QboStays, NEW a \in Accounts PROVE Made(a)' = Made(a)
  BY DEF QboStays, Made

LEMMA StoreStays ==
  ASSUME StoresAgree, StoreInv, QboStays, LedgerStays, NamesDiffer', UNCHANGED accountLinks
  PROVE  StoreInv'
<1>1. \A a \in Accounts : Made(a)' = Made(a)
  BY MadeStays
<1>2. \A a \in Accounts : Linked(a)' = Linked(a)
  BY DEF Linked
<1>3. MadeIsFound'
  BY <1>1, <1>2 DEF StoreInv, MadeIsFound, QboStays, LedgerStays, Made
<1>4. MadeOnce'
  BY <1>1 DEF StoreInv, MadeOnce
<1> QED BY <1>3, <1>4 DEF StoreInv

LEMMA NamesStay == ASSUME NamesDiffer, UNCHANGED accounts PROVE NamesDiffer'
  BY DEF NamesDiffer

\* A job that nobody moves knows what it knew.
LEMMA KnowsStays ==
  ASSUME TypeInv, QboStays, LedgerStays, UNCHANGED accountLinks, NEW w \in Workers,
         JobKnows(job[w]), job'[w] = job[w]
  PROVE  JobKnows(job[w])'
<1> DEFINE j == job[w]
<1> SUFFICES ASSUME j.pc \in AccountPc PROVE JobKnows(j)'
  BY DEF JobKnows
<1>1. j.subject \in Accounts /\ JobFits(j)
  BY DEF TypeInv, JobsFit, JobFits
<1>2. Made(j.subject)' = Made(j.subject) /\ Linked(j.subject)' = Linked(j.subject)
  BY <1>1, MadeStays DEF Linked
<1>3. j.pc \in {"read", "update", "saveAccount"} => j.doc.id \in Existing
  BY <1>1 DEF JobFits
<1> QED BY <1>1, <1>2, <1>3 DEF JobKnows, QboStays, LedgerStays

\* Nothing of this moves.
LEMMA AccountInvStays ==
  ASSUME TypeInv, AccountInv, QboStays, LedgerStays, NamesDiffer', UNCHANGED <<accountLinks, job>>
  PROVE  AccountInv'
  BY StoreStays, KnowsStays DEF AccountInv, TypeInv

LEMMA QboStaysThere == ASSUME UNCHANGED qboAccounts PROVE QboStays
  BY DEF QboStays, Existing

LEMMA LedgerStaysThere == ASSUME UNCHANGED accounts PROVE LedgerStays
  BY DEF LedgerStays

\* An edit changes the field it is about, and the version.
LEMMA RowCounts ==
  ASSUME NEW r \in RowType
  PROVE  LET s == [r EXCEPT !.version = @ + 1]
         IN  s \in RowType /\ s # None /\ s.name = r.name /\ s.kind = r.kind
<1>1. r.version + 1 \in Nat BY DEF RowType
<1> QED BY <1>1, NoneIsNoRecord DEF RowType

LEMMA RowChanges ==
  ASSUME NEW r \in RowType, NEW n \in Names, NEW k \in Kinds
  PROVE  /\ LET s == [r EXCEPT !.name = n] IN s \in RowType /\ s.name = n /\ s.kind = r.kind
         /\ LET s == [r EXCEPT !.kind = k] IN s \in RowType /\ s.name = r.name /\ s.kind = k
  BY DEF RowType

LEMMA AccountPeople ==
  ASSUME OneAtATime, TypeInv, AccountInv, People PROVE AccountInv'
<1> USE DEF qbo, links, ledger
<1>t. /\ StoresFit /\ StoreInv /\ NamesDiffer
      /\ accounts \in [Accounts -> RowType \cup {None}]
      /\ qboAccounts \in [Ids -> Remote \cup {None}]
  BY DEF TypeInv, AccountInv, StoreInv, StoresFit
\* A change of the ledger.
<1>l. ASSUME LedgerStays, NamesDiffer', UNCHANGED <<qbo, links, job>> PROVE AccountInv'
  BY <1>l, QboStaysThere, AccountInvStays
\* A change of QuickBooks.
<1>q. ASSUME QboStays, UNCHANGED <<accounts, links, job>> PROVE AccountInv'
  BY <1>q, <1>t, LedgerStaysThere, NamesStay, AccountInvStays
<1>1. ASSUME NEW a \in Accounts, NEW n \in Names, NEW k \in Kinds, CreateAccount(a, n, k)
      PROVE  AccountInv'
  <2> DEFINE r == [name |-> n, kind |-> k, version |-> 1]
  <2>1. accounts' = [accounts EXCEPT ![a] = r] /\ r.name = n /\ Free(n) /\ accounts[a] = None
    BY <1>1 DEF CreateAccount
  <2> HIDE DEF r
  <2>2. NamesDiffer' /\ LedgerStays
    BY <1>t, <2>1 DEF NamesDiffer, LedgerStays, Free
  <2> QED BY <1>1, <1>l, <2>2 DEF CreateAccount
<1>2. ASSUME NEW a \in Accounts, NEW n \in Names, RenameAccount(a, n) PROVE AccountInv'
  <2>1. /\ accounts' = [accounts EXCEPT ![a] =
                          [[accounts[a] EXCEPT !.name = n] EXCEPT !.version = @ + 1]]
        /\ Free(n) /\ Linked(a) /\ accounts[a] \in RowType
    BY <1>2, <1>t DEF RenameAccount, UpdateAccount, OneAtATime, Linked
  <2> DEFINE new == [accounts[a] EXCEPT !.name = n]
             r == [new EXCEPT !.version = @ + 1]
  <2>n. new \in RowType /\ new.name = n
    BY <2>1, RowChanges DEF RowType
  <2>3. accounts' = [accounts EXCEPT ![a] = r]
    BY <2>1
  <2> HIDE DEF new
  <2>2. r.name = new.name /\ r \in RowType /\ r # None
    BY <2>n, RowCounts
  <2> HIDE DEF r
  <2>4. NamesDiffer' /\ LedgerStays
    BY <1>t, <2>1, <2>n, <2>2, <2>3 DEF NamesDiffer, LedgerStays, Free
  <2> QED BY <1>2, <1>l, <2>4 DEF RenameAccount, UpdateAccount
<1>3. ASSUME NEW a \in Accounts, NEW k \in Kinds, EditAccount(a, k) PROVE AccountInv'
  <2>1. /\ accounts' = [accounts EXCEPT ![a] =
                          [[accounts[a] EXCEPT !.kind = k] EXCEPT !.version = @ + 1]]
        /\ accounts[a] \in RowType /\ accounts[a] # None
    BY <1>3, <1>t DEF EditAccount, UpdateAccount
  <2> DEFINE new == [accounts[a] EXCEPT !.kind = k]
             r == [new EXCEPT !.version = @ + 1]
  <2>n. new \in RowType /\ new.name = accounts[a].name
    BY <2>1, RowChanges DEF RowType
  <2>3. accounts' = [accounts EXCEPT ![a] = r]
    BY <2>1
  <2> HIDE DEF new
  <2>2. r.name = new.name /\ r \in RowType /\ r # None
    BY <2>n, RowCounts
  <2> HIDE DEF r
  <2>4. NamesDiffer' /\ LedgerStays
    BY <1>t, <2>1, <2>n, <2>2, <2>3 DEF NamesDiffer, LedgerStays
  <2> QED BY <1>3, <1>l, <2>4 DEF EditAccount, UpdateAccount
<1>4. ASSUME NEW d \in Ids, QboTouch(d) PROVE AccountInv'
  <2>1. qboAccounts[d] \in Remote /\ qboAccounts' = [qboAccounts EXCEPT ![d].token = @ + 1]
    BY <1>4, <1>t DEF QboTouch, Existing
  <2> DEFINE r == [qboAccounts[d] EXCEPT !.token = @ + 1]
  <2>2. /\ r.name = qboAccounts[d].name /\ r.rid = qboAccounts[d].rid /\ r \in Remote /\ r # None
        /\ qboAccounts' = [qboAccounts EXCEPT ![d] = r]
    BY <2>1, NoneIsNoRecord DEF Remote
  <2> HIDE DEF r
  <2>3. QboStays
    BY <1>t, <1>4, <2>2 DEF QboStays, Existing, QboTouch
  <2> QED BY <1>4, <1>q, <2>3 DEF QboTouch
<1>5. ASSUME NEW d \in Ids, NEW n \in Names, NEW k \in Kinds, QboEnter(d, n, k) PROVE AccountInv'
  <2> DEFINE r == [name |-> n, kind |-> k, token |-> 0, rid |-> <<None, 0>>]
  <2>1. /\ qboAccounts' = [qboAccounts EXCEPT ![d] = r] /\ r.rid[1] \notin Accounts
        /\ d \notin Existing
    BY <1>5, NoneIsNone DEF QboEnter
  <2>2. r \in Remote /\ r # None
    BY NoneIsNoRecord DEF Remote
  <2> HIDE DEF r
  <2>3. QboStays
    BY <1>t, <2>1, <2>2 DEF QboStays, Existing
  <2> QED BY <1>5, <1>q, <2>3 DEF QboEnter
<1>6. CASE UNCHANGED <<accounts, qboAccounts, links, job>>
  BY <1>6, <1>q, QboStaysThere
<1> QED
  BY <1>1, <1>2, <1>3, <1>4, <1>5, <1>6 DEF People, RecordPayment, LinkInvoice, Replay

LEMMA AccountWorker ==
  ASSUME OneAtATime, TypeInv, AccountInv, NEW w \in Workers, Worker(w) \/ Interrupt(w)
  PROVE  AccountInv'
<1> USE DEF qbo, links, ledger, At
<1> DEFINE j == job[w]
           a == job[w].subject
<1>t. /\ StoresFit /\ StoresAgree /\ StoreInv /\ NamesDiffer /\ MadeIsFound /\ MadeOnce
      /\ accounts \in [Accounts -> RowType \cup {None}]
      /\ qboAccounts \in [Ids -> Remote \cup {None}]
      /\ accountLinks \in [Accounts -> LinkType \cup {None}]
      /\ JobFits(j) /\ JobKnows(j) /\ Workers = {w}
  BY DEF TypeInv, JobsFit, AccountInv, StoreInv, StoresFit, OneAtATime
<1>a. j.pc \in AccountPc => a \in Accounts /\ accounts[a] # None /\ j.row \in RowType
  BY <1>t, SubjectsDiffer DEF JobFits, Known, StoresFit, AccountPc
\* Nothing is written: the worker has to know what it needs where it is now.
<1>s. ASSUME UNCHANGED <<accounts, qboAccounts, accountLinks>>
      PROVE  /\ StoreInv'
             /\ \A b \in Accounts : (Linked(b)' <=> Linked(b)) /\ Made(b)' = Made(b)
  BY <1>s, <1>t, QboStaysThere, LedgerStaysThere, NamesStay, StoreStays, MadeStays DEF Linked
<1>o. ASSUME StoreInv', JobKnows(job[w])' PROVE AccountInv'
  BY <1>o, <1>t DEF AccountInv
\* The job is over, or a payment's.
<1>d. ASSUME UNCHANGED <<accounts, qboAccounts, accountLinks>>, job'[w].pc \notin AccountPc
      PROVE  AccountInv'
  BY <1>d, <1>s, <1>o DEF JobKnows
<1>r. ASSUME Die(w) \/ Retry(w) \/ Interrupt(w), UNCHANGED <<ledger, qbo, links>>
      PROVE  AccountInv'
  <2>1. job'[w].pc = "idle" BY <1>r, OtherMoves DEF Dropped, Moved
  <2> QED BY <1>r, <1>d, <2>1 DEF AccountPc
<1>1. ASSUME NEW s \in Subjects, Take(w, s) PROVE AccountInv'
  <2>1. CASE s \in Payments
    <3>1. job'[w].pc = "paymentLink" BY <1>1, <2>1, AccountMoves DEF Moved
    <3> QED BY <1>1, <1>d, <3>1 DEF Take, AccountPc
  <2>2. CASE s \notin Payments
    <3>1. job'[w].pc = "accountLink" /\ job'[w].subject = s /\ job'[w].row = accounts[s]
      BY <1>1, <2>2, AccountMoves DEF Moved
    <3>2. s \in Accounts /\ accounts[s] # None
      BY <1>1, <1>t, <2>2 DEF Take, StoresAgree, StoresFit, Known, Subjects
    <3>3. JobKnows(job[w])'
      BY <1>1, <3>1, <3>2 DEF JobKnows, Take
    <3> QED BY <1>1, <1>o, <1>s, <3>3 DEF Take
  <2> QED BY <2>1, <2>2
<1>2. CASE Payment(w)
  <2>1. CASE Retry(w) /\ UNCHANGED <<ledger, qbo, links>>
    BY <1>r, <2>1
  <2>2. CASE \E pc \in PaymentPc \cup {"finish"} : Moved(w, pc, j.subject, j.row, j.doc)
    <3>1. job'[w].pc \notin AccountPc BY <2>2 DEF Moved, PaymentPc, AccountPc
    <3> QED BY <1>2, <1>d, <3>1 DEF Payment, PaymentLink, InvoiceLink, PaymentCreate, PaymentSave
  <2> QED BY <1>2, <2>1, <2>2, OtherMoves
<1>3. CASE AccountLink(w)
  <2> DEFINE to == AfterAccountLink(a, j.row)
             doc == IF accountLinks[a] = None THEN None
                    ELSE [id |-> accountLinks[a].doc, token |-> 0]
  <2>0. Moved(w, to, a, j.row, doc)
    BY <1>3, AccountMoves
  <2>1. /\ job'[w].pc = to /\ job'[w].subject = a /\ job'[w].row = j.row
        /\ Linked(a) => job'[w].doc.id = accountLinks[a].doc
    BY <2>0 DEF Moved, Linked
  <2>2. /\ to \in {"find", "finish", "read"}
        /\ to = "find" <=> ~Linked(a)
    BY DEF AfterAccountLink, Linked
  <2>3. a \in Accounts /\ j.pc \in AccountPc
    BY <1>3, <1>a DEF AccountLink, AccountPc
  <2> HIDE DEF to
  <2>4. JobKnows(job[w])'
    BY <1>3, <1>s, <1>t, <2>1, <2>2, <2>3 DEF JobKnows, AccountLink, AccountPc
  <2> QED BY <1>3, <1>o, <1>s, <2>4 DEF AccountLink
<1>4. CASE AccountRead(w)
  <2>1. /\ job'[w].pc = "update" /\ job'[w].subject = a /\ job'[w].row = j.row
        /\ job'[w].doc.id = j.doc.id
    <3>1. Moved(w, "update", a, j.row, Read(j.doc.id)) BY <1>4, AccountMoves
    <3> QED BY <3>1 DEF Moved, Read
  <2>2. a \in Accounts /\ j.pc = "read" /\ j.pc \in AccountPc
    BY <1>4, <1>a DEF AccountRead, AccountPc
  <2>3. JobKnows(job[w])'
    BY <1>4, <1>s, <1>t, <2>1, <2>2 DEF JobKnows, AccountRead
  <2> QED BY <1>4, <1>o, <1>s, <2>3 DEF AccountRead
<1>5. CASE AccountFind(w)
  <2>1. a \in Accounts /\ j.pc = "find" /\ j.pc \in AccountPc /\ ~Linked(a)
        /\ j.row.name = accounts[a].name
    BY <1>5, <1>a, <1>t DEF AccountFind, AccountPc, JobKnows
  <2>2. JobKnows(job[w])'
    <3>1. ASSUME NEW d \in Named(j.row.name), Moved(w, "update", a, j.row, Read(d))
          PROVE  JobKnows(job[w])'
      <4>1. /\ job'[w].pc = "update" /\ job'[w].subject = a /\ job'[w].row = j.row
            /\ job'[w].doc.id = d
        BY <3>1 DEF Moved, Read
      <4>2. qboAccounts[d].name = j.row.name
        BY DEF Named
      <4> QED BY <1>5, <1>a, <1>s, <2>1, <4>1, <4>2 DEF JobKnows, AccountFind
    <3>2. CASE Named(j.row.name) = {} /\ Moved(w, "create", a, j.row, j.doc)
      <4>1. Made(a) = {}
        BY <1>t, <2>1, <3>2 DEF MadeIsFound, Named, Made
      <4> QED BY <1>5, <1>a, <1>s, <2>1, <3>2, <4>1 DEF JobKnows, AccountFind, Moved
    <3> QED BY <1>5, <3>1, <3>2, AccountMoves
  <2> QED BY <1>5, <1>o, <1>s, <2>2 DEF AccountFind
<1>6. CASE AccountUpdate(w)
  <2>1. CASE Die(w) /\ UNCHANGED <<ledger, qbo, links>>
    BY <1>r, <2>1
  <2>2. CASE /\ Moved(w, "saveAccount", a, j.row, j.doc)
             /\ qboAccounts' = [qboAccounts EXCEPT ![j.doc.id] = Updated(j.doc.id, j.row)]
             /\ UNCHANGED <<ledger, qboPayments, links, outbox, used>>
    <3> DEFINE d == j.doc.id
               r == Updated(d, j.row)
    <3>1. /\ a \in Accounts /\ j.pc = "update" /\ j.pc \in AccountPc /\ d \in Existing
          /\ d \in Ids /\ qboAccounts[d] \in Remote /\ j.row \in RowType
      BY <1>6, <1>a, <1>t DEF AccountUpdate, AccountPc, JobFits, Existing
    <3>2. r \in Remote
      BY <3>1, UpdatedFits DEF Updated, RowType
    <3>3. r.rid = qboAccounts[d].rid /\ r.name = j.row.name /\ r # None
      BY <3>1, <3>2, NoneIsNoRecord DEF Updated, Remote
    <3>4. qboAccounts' = [qboAccounts EXCEPT ![d] = r]
      BY <2>2
    <3> HIDE DEF r
    <3>5. /\ Existing' = Existing
          /\ \A e \in Existing : qboAccounts'[e].rid = qboAccounts[e].rid
          /\ \A e \in Existing : e # d => qboAccounts'[e] = qboAccounts[e]
          /\ qboAccounts'[d].name = j.row.name
      BY <1>t, <3>1, <3>3, <3>4 DEF Existing
    <3>6. \A b \in Accounts : Made(b)' = Made(b) /\ (Linked(b)' <=> Linked(b))
      BY <2>2, <3>5 DEF Made, Linked
    \* Who was made d and has no link is the account that is updated.
    <3>7. ASSUME NEW b \in Accounts, ~Linked(b), d \in Made(b)
          PROVE  qboAccounts'[d].name = accounts[b].name
      <4>1. CASE b = a
        BY <1>t, <3>1, <3>5, <3>7, <4>1 DEF JobKnows
      <4>2. CASE b # a
        <5>1. accounts[b] # None /\ qboAccounts[d].name = accounts[b].name
          BY <1>t, <3>7 DEF MadeIsFound
        <5>2. ~Linked(a)
          BY <1>t, <3>1, <3>7 DEF JobKnows, MadeIsFound
        <5>3. accounts[a] # None /\ qboAccounts[d].name = accounts[a].name
          BY <1>t, <3>1, <5>2 DEF JobKnows
        <5> QED BY <1>t, <3>1, <3>7, <4>2, <5>1, <5>3 DEF NamesDiffer
      <4> QED BY <4>1, <4>2
    <3>8. MadeIsFound'
      <4> SUFFICES ASSUME NEW b \in Accounts, ~Linked(b), NEW e \in Made(b)
                   PROVE  /\ accounts'[b] # None /\ qboAccounts'[e].name = accounts'[b].name
                          /\ \A c \in Accounts : Linked(c)' => accountLinks'[c].doc # e
        BY <3>6 DEF MadeIsFound
      <4>1. /\ accounts[b] # None /\ qboAccounts[e].name = accounts[b].name
            /\ \A c \in Accounts : Linked(c) => accountLinks[c].doc # e
        BY <1>t DEF MadeIsFound
      <4>2. e \in Existing BY DEF Made
      <4> QED BY <2>2, <3>5, <3>6, <3>7, <4>1, <4>2
    <3>9. StoreInv'
      BY <1>t, <2>2, <3>6, <3>8, NamesStay DEF StoreInv, MadeOnce
    <3>10. JobKnows(job[w])'
      BY <1>t, <2>2, <3>1, <3>5, <3>6 DEF JobKnows, Moved
    <3> QED BY <1>o, <3>9, <3>10
  <2> QED BY <1>6, <2>1, <2>2, AccountMoves
<1>7. CASE AccountCreate(w)
  <2>1. CASE Die(w) /\ UNCHANGED <<ledger, qbo, links>>
    BY <1>r, <2>1
  <2>2. /\ a \in Accounts /\ j.pc = "create" /\ j.pc \in AccountPc /\ j.row \in RowType
        /\ ~Linked(a) /\ Made(a) = {} /\ j.row.name = accounts[a].name /\ accounts[a] # None
    BY <1>7, <1>a, <1>t DEF AccountCreate, AccountPc, JobKnows
  <2>3. ~\E d \in Existing : qboAccounts[d].rid[1] = a
    BY <2>2 DEF Made
  <2>4. ASSUME NEW d \in Ids \ Existing,
               Moved(w, "saveAccount", a, j.row, [id |-> d, token |-> 0]),
               qboAccounts' = [qboAccounts EXCEPT ![d] =
                 [name |-> j.row.name, kind |-> j.row.kind, token |-> 0,
                  rid |-> <<a, j.row.version>>]],
               UNCHANGED <<ledger, qboPayments, links, outbox, used>>
        PROVE  AccountInv'
    <3> DEFINE r == [name |-> j.row.name, kind |-> j.row.kind, token |-> 0,
                     rid |-> <<a, j.row.version>>]
    <3>1. r \in Remote /\ r # None /\ r.rid[1] = a /\ r.name = j.row.name
      BY <2>2, NoneIsNoRecord DEF Remote, RowType
    <3>2. qboAccounts' = [qboAccounts EXCEPT ![d] = r]
      BY <2>4
    <3> HIDE DEF r
    <3>3. /\ Existing' = Existing \cup {d} /\ d \notin Existing
          /\ \A e \in Existing : qboAccounts'[e] = qboAccounts[e]
          /\ qboAccounts'[d] = r
      BY <1>t, <2>4, <3>1, <3>2 DEF Existing
    <3>4. /\ \A b \in Accounts : Made(b)' = IF b = a THEN {d} ELSE Made(b)
          /\ \A b \in Accounts : Linked(b)' <=> Linked(b)
      BY <2>2, <2>4, <3>1, <3>3 DEF Made, Linked
    <3>5. \A b \in Accounts : Linked(b) => accountLinks[b].doc # d
      BY <1>t, <3>3 DEF StoresAgree, Linked
    <3>6. MadeIsFound'
      <4> SUFFICES ASSUME NEW b \in Accounts, ~Linked(b), NEW e \in Made(b)'
                   PROVE  /\ accounts'[b] # None /\ qboAccounts'[e].name = accounts'[b].name
                          /\ \A c \in Accounts : Linked(c)' => accountLinks'[c].doc # e
        BY <3>4 DEF MadeIsFound
      <4>1. CASE b = a
        BY <2>2, <2>4, <3>1, <3>3, <3>4, <3>5, <4>1
      <4>2. CASE b # a
        <5>1. e \in Made(b) /\ e \in Existing
          BY <3>4, <4>2 DEF Made
        <5>2. /\ accounts[b] # None /\ qboAccounts[e].name = accounts[b].name
              /\ \A c \in Accounts : Linked(c) => accountLinks[c].doc # e
          BY <1>t, <5>1 DEF MadeIsFound
        <5> QED BY <2>4, <3>3, <3>4, <5>1, <5>2
      <4> QED BY <4>1, <4>2
    <3>7. MadeOnce'
      BY <1>t, <3>4 DEF MadeOnce
    <3>8. StoreInv'
      BY <1>t, <2>4, <3>6, <3>7, NamesStay DEF StoreInv
    <3>9. JobKnows(job[w])'
      BY <2>2, <2>4, <3>1, <3>3, <3>4 DEF JobKnows, Moved
    <3> QED BY <1>o, <3>8, <3>9
  <2> QED BY <1>7, <2>1, <2>3, <2>4, AccountMoves
<1>8. CASE AccountSave(w)
  <2>1. CASE Retry(w) /\ UNCHANGED <<ledger, qbo, links>>
    BY <1>r, <2>1
  <2>2. CASE /\ Moved(w, "finish", a, j.row, j.doc)
             /\ accountLinks' = [accountLinks EXCEPT ![a] =
                                   [doc |-> j.doc.id, hash |-> Hash(j.row)]]
             /\ UNCHANGED <<ledger, qbo, paymentLinks, outbox, used>>
    <3> DEFINE d == j.doc.id
               l == [doc |-> d, hash |-> Hash(j.row)]
    <3>1. a \in Accounts /\ j.pc = "saveAccount" /\ j.pc \in AccountPc /\ d \in Existing
      BY <1>8, <1>a, <1>t DEF AccountSave, AccountPc, JobFits
    <3>2. l \in LinkType /\ l # None /\ l.doc = d /\ accountLinks' = [accountLinks EXCEPT ![a] = l]
      BY <1>a, <2>2, <3>1, NoneIsNoRecord DEF LinkType, Hash, RowType, Existing
    <3> HIDE DEF l
    <3>3. /\ \A b \in Accounts : b # a => accountLinks'[b] = accountLinks[b]
          /\ accountLinks'[a].doc = d
      BY <1>t, <3>1, <3>2
    <3>4. \A b \in Accounts : Made(b)' = Made(b)
      BY <2>2 DEF Made, Existing
    <3>5. ASSUME NEW b \in Accounts, ~Linked(b), b # a PROVE d \notin Made(b)
      <4>1. CASE Linked(a)
        BY <1>t, <3>1, <3>5, <4>1 DEF JobKnows, MadeIsFound
      <4>2. CASE ~Linked(a)
        <5>1. accounts[a] # None /\ qboAccounts[d].name = accounts[a].name
          BY <1>t, <3>1, <4>2 DEF JobKnows
        <5> QED BY <1>t, <3>1, <3>5, <5>1 DEF MadeIsFound, NamesDiffer
      <4> QED BY <4>1, <4>2
    <3>6. MadeIsFound'
      <4> SUFFICES ASSUME NEW b \in Accounts, ~Linked(b)', NEW e \in Made(b)
                   PROVE  /\ accounts'[b] # None /\ qboAccounts'[e].name = accounts'[b].name
                          /\ \A c \in Accounts : Linked(c)' => accountLinks'[c].doc # e
        BY <3>4 DEF MadeIsFound
      <4>1. CASE b = a
        <5>1. accountLinks'[a] = l /\ l # None
          BY <1>t, <3>1, <3>2
        <5> QED BY <4>1, <5>1 DEF Linked
      <4>2. CASE b # a
        <5>1. ~Linked(b) BY <3>3, <4>2 DEF Linked
        <5>2. /\ accounts[b] # None /\ qboAccounts[e].name = accounts[b].name
              /\ \A c \in Accounts : Linked(c) => accountLinks[c].doc # e
          BY <1>t, <5>1 DEF MadeIsFound
        <5>3. e # d BY <3>5, <4>2, <5>1
        <5> QED BY <2>2, <3>3, <5>2, <5>3 DEF Linked
      <4> QED BY <4>1, <4>2
    <3>7. StoreInv'
      BY <1>t, <2>2, <3>4, <3>6, NamesStay DEF StoreInv, MadeOnce
    <3>8. job'[w].pc = "finish" BY <2>2 DEF Moved
    <3>9. JobKnows(job[w])' BY <3>8 DEF JobKnows, AccountPc
    <3> QED BY <1>o, <3>7, <3>9
  <2> QED BY <1>8, <2>1, <2>2, AccountMoves
<1>9. CASE Finish(w)
  <2>1. job'[w].pc = "idle" BY <1>9, OtherMoves DEF Dropped, Moved
  <2> QED BY <1>9, <1>d, <2>1 DEF AccountPc, Finish
<1>10. CASE Interrupt(w)
  BY <1>10, <1>r DEF Interrupt
<1> QED
  BY <1>1, <1>2, <1>3, <1>4, <1>5, <1>6, <1>7, <1>8, <1>9, <1>10 DEF Worker, Account

LEMMA AccountInvStep == OneAtATime /\ TypeInv /\ AccountInv /\ [Next]_vars => AccountInv'
<1> SUFFICES ASSUME OneAtATime, TypeInv, AccountInv, [Next]_vars PROVE AccountInv'
  OBVIOUS
<1>1. CASE UNCHANGED vars
  <2>1. UNCHANGED <<accounts, qboAccounts, accountLinks, job>> /\ NamesDiffer
    BY <1>1 DEF vars, ledger, qbo, links, AccountInv, StoreInv
  <2> QED BY <2>1, QboStaysThere, LedgerStaysThere, NamesStay, AccountInvStays
<1> QED BY <1>1, AccountPeople, AccountWorker DEF Next

\* One worker makes an account in QuickBooks once, whatever other accounts take its name later,
\* whatever is interrupted between the create and the write of the link, and whatever people
\* enter: nobody makes a second one as long as accounts are renamed only once they are linked.
THEOREM AccountsOnce == OneAtATime => (Spec => []NothingTwice)
<1> SUFFICES ASSUME OneAtATime PROVE Spec => []NothingTwice
  OBVIOUS
<1>1. AccountInv => OneAccountEach
  <2> SUFFICES ASSUME AccountInv, NEW a \in Accounts PROVE Cardinality(Made(a)) <= 1
    BY DEF OneAccountEach, Made
  <2>1. Made(a) = {} \/ \E d : Made(a) = {d}
    BY DEF AccountInv, StoreInv, MadeOnce
  <2>2. Cardinality(Made(a)) \in {0, 1}
    BY <2>1, FS_EmptySet, FS_Singleton
  <2> QED BY <2>2
<1>2. TypeInv /\ AccountInv /\ [Next]_vars => AccountInv'
  BY AccountInvStep
<1> QED BY <1>1, <1>2, AccountInvInit, TypeInvInit, TypeInvStep, PaymentsOnce, PTL
        DEF Spec, NothingTwice
--------------------------------------------------------------------------------
(***************************************************************************)
(* What QuickBooks shows.  An account that never goes back to a name or a  *)
(* kind it had follows an order of its own; what its link records, what    *)
(* QuickBooks shows and what the ledger has then come in this order, so    *)
(* that nothing lies between a record and a row that agree.  An account of *)
(* another's old name may overwrite the rest of what is shown, until the   *)
(* rename that gave the name up is handled: the kind counts only where the *)
(* name is the row's.                                                      *)
(***************************************************************************)
Strict(r) ==
  /\ \A x, y, z : <<x, y>> \in r /\ <<y, z>> \in r => <<x, z>> \in r
  /\ \A x : <<x, x>> \notin r

UpTo(r, x, y) == x = y \/ <<x, y>> \in r

HashUpTo(o, g, h) == UpTo(o.name, g[1], h[1]) /\ UpTo(o.kind, g[2], h[2])

\* No account is given a name or a kind it had before.
Onward(order) ==
  \A a \in Accounts : accounts[a] # None =>
    HashUpTo(order[a], Hash(accounts[a]), Hash(accounts'[a]))

Orders(order) == \A a \in Accounts : Strict(order[a].name) /\ Strict(order[a].kind)

LEMMA UpToTransitive ==
  ASSUME NEW r, Strict(r), NEW x, NEW y, NEW z, UpTo(r, x, y), UpTo(r, y, z)
  PROVE  UpTo(r, x, z)
  BY DEF UpTo, Strict

LEMMA UpToBack ==
  ASSUME NEW r, Strict(r), NEW x, NEW y, UpTo(r, x, y), UpTo(r, y, x)
  PROVE  x = y
<1>1. ASSUME <<x, y>> \in r, <<y, x>> \in r PROVE FALSE
  <2>1. <<x, x>> \in r BY <1>1 DEF Strict
  <2> QED BY <2>1 DEF Strict
<1> QED BY <1>1 DEF UpTo

LEMMA HashTransitive ==
  ASSUME NEW o, Strict(o.name), Strict(o.kind), NEW f, NEW g, NEW h,
         HashUpTo(o, f, g), HashUpTo(o, g, h)
  PROVE  HashUpTo(o, f, h)
<1>1. UpTo(o.name, f[1], h[1]) BY UpToTransitive DEF HashUpTo
<1>2. UpTo(o.kind, f[2], h[2]) BY UpToTransitive DEF HashUpTo
<1> QED BY <1>1, <1>2 DEF HashUpTo

ShownBy(d) == <<qboAccounts[d].name, qboAccounts[d].kind>>

DocsDiffer ==
  \A a, b \in Accounts : Linked(a) /\ Linked(b) /\ a # b =>
    accountLinks[a].doc # accountLinks[b].doc

\* A row that is not what its link records has an event left.
Held(a) == Pending(a) \/ a \in dead

Noticed(a) ==
  /\ accounts[a] # None /\ ~Linked(a) => Held(a)
  /\ Linked(a) => accounts[a] # None /\ (accountLinks[a].hash = Hash(accounts[a]) \/ Held(a))

JobNotices(j) ==
  LET a == j.subject IN
  /\ j.pc \in AccountPc => Hash(j.row) = Hash(accounts[a]) \/ queue[a] > 0
  /\ j.pc = "finish" /\ a \in Accounts =>
       Linked(a) /\ (accountLinks[a].hash = Hash(accounts[a]) \/ queue[a] > 0)
  /\ j.pc = "saveAccount" => ShownBy(j.doc.id) = Hash(j.row)

Ordered(o, l, s, r) ==
  /\ HashUpTo(o, l, r)
  /\ UpTo(o.name, l[1], s[1]) /\ UpTo(o.name, s[1], r[1])
  /\ s[1] = r[1] => UpTo(o.kind, l[2], s[2]) /\ UpTo(o.kind, s[2], r[2])

Between(order, a) ==
  Linked(a) =>
    Ordered(order[a], accountLinks[a].hash, ShownBy(accountLinks[a].doc), Hash(accounts[a]))

JobBetween(order, j) ==
  LET a == j.subject IN
  j.pc \in AccountPc =>
    /\ HashUpTo(order[a], Hash(j.row), Hash(accounts[a]))
    /\ Linked(a) => HashUpTo(order[a], accountLinks[a].hash, Hash(j.row))

JobSettles(order, j) == JobNotices(j) /\ JobBetween(order, j)

SettledInv(order) ==
  /\ DocsDiffer
  /\ \A a \in Accounts : Noticed(a) /\ Between(order, a)
  /\ \A w \in Workers : JobSettles(order, job[w])

LEMMA SettledInvInit == ASSUME NEW order, Init PROVE SettledInv(order)
  BY DEF Init, SettledInv, DocsDiffer, Noticed, Between, JobSettles, JobNotices, JobBetween, IdleJob,
     AccountPc, Linked

\* Between the record and a row that agree nothing else is shown.
LEMMA NothingBetween ==
  ASSUME NEW o, Strict(o.name), Strict(o.kind), NEW l, NEW s, NEW r, Ordered(o, l, s, r), l = r
  PROVE  s[1] = r[1] /\ s[2] = r[2]
<1>1. s[1] = r[1] BY UpToBack DEF Ordered
<1>2. s[2] = r[2] BY <1>1, UpToBack DEF Ordered
<1> QED BY <1>1, <1>2

\* The row moves on.
LEMMA OrderedOnward ==
  ASSUME NEW o, Strict(o.name), Strict(o.kind), NEW l, NEW s, NEW r, NEW t,
         Ordered(o, l, s, r), HashUpTo(o, r, t)
  PROVE  Ordered(o, l, s, t)
<1>1. HashUpTo(o, l, t) BY HashTransitive DEF Ordered
<1>2. UpTo(o.name, s[1], t[1]) BY UpToTransitive DEF Ordered, HashUpTo
<1>3. ASSUME s[1] = t[1] PROVE UpTo(o.kind, l[2], s[2]) /\ UpTo(o.kind, s[2], t[2])
  <2>1. s[1] = r[1]
    <3>1. UpTo(o.name, r[1], s[1]) /\ UpTo(o.name, s[1], r[1]) BY <1>3 DEF Ordered, HashUpTo
    <3> QED BY <3>1, UpToBack
  <2>2. UpTo(o.kind, s[2], r[2]) /\ UpTo(o.kind, r[2], t[2]) /\ UpTo(o.kind, l[2], s[2])
    BY <2>1 DEF Ordered, HashUpTo
  <2> QED BY <2>2, UpToTransitive
<1> QED BY <1>1, <1>2, <1>3 DEF Ordered

\* What people do: rows move on and are announced, links and what is shown stay.
LEMMA PeopleSettle ==
  ASSUME TypeInv, NEW order, Orders(order), Onward(order), SettledInv(order),
         UNCHANGED <<accountLinks, job>>,
         \A d \in Existing : ShownBy(d)' = ShownBy(d),
         \A a \in Accounts : accounts'[a] = accounts[a] \/ queue'[a] > 0,
         \A a \in Accounts : accounts[a] # None => accounts'[a] # None,
         \A s \in Subjects : queue[s] > 0 => queue'[s] > 0,
         \A s \in dead : s \in dead' \/ queue'[s] > 0
  PROVE  SettledInv(order)'
<1>1. \A a \in Accounts : a \in Subjects BY DEF Subjects
<1>2. \A a \in Accounts : (Linked(a)' <=> Linked(a)) /\ (Held(a) => Held(a)')
  BY <1>1 DEF Linked, Held, Pending
<1>3. \A a \in Accounts : Linked(a) => ShownBy(accountLinks[a].doc)' = ShownBy(accountLinks[a].doc)
  BY DEF TypeInv, StoresAgree, Linked, ShownBy
<1>4. DocsDiffer' BY <1>2 DEF SettledInv, DocsDiffer
<1>5. ASSUME NEW a \in Accounts PROVE Noticed(a)'
  <2>1. Noticed(a) BY DEF SettledInv
  <2>2. queue'[a] > 0 => Held(a)' BY DEF Held, Pending
  <2> QED BY <1>2, <2>1, <2>2 DEF Noticed, Linked
<1>6. ASSUME NEW a \in Accounts PROVE Between(order, a)'
  <2> SUFFICES ASSUME Linked(a)
      PROVE  Ordered(order[a], accountLinks[a].hash, ShownBy(accountLinks[a].doc),
                     Hash(accounts'[a]))
    BY <1>2, <1>3 DEF Between, Linked, Hash
  <2>1. Ordered(order[a], accountLinks[a].hash, ShownBy(accountLinks[a].doc), Hash(accounts[a]))
        /\ accounts[a] # None
    BY DEF SettledInv, Between, Noticed
  <2> QED BY <2>1, OrderedOnward DEF Onward, Orders
<1>7. ASSUME NEW w \in Workers PROVE JobSettles(order, job[w])'
  <2> DEFINE j == job[w]
             a == j.subject
  <2>1. job'[w] = j /\ JobNotices(j) /\ JobBetween(order, j) /\ JobFits(j)
    BY DEF SettledInv, JobSettles, TypeInv, JobsFit
  <2>2. j.pc \in AccountPc => a \in Accounts /\ accounts[a] # None
    BY <2>1, SubjectsDiffer DEF JobFits, Known, TypeInv, StoresFit, AccountPc
  <2>3. JobNotices(j)'
    <3>1. j.pc = "saveAccount" => ShownBy(j.doc.id)' = ShownBy(j.doc.id)
      BY <2>1 DEF JobFits, ShownBy
    <3> QED BY <1>2, <2>1, <2>2, <3>1 DEF JobNotices, Subjects, AccountPc, Linked
  <2>4. JobBetween(order, j)'
    <3> SUFFICES ASSUME j.pc \in AccountPc
        PROVE  /\ HashUpTo(order[a], Hash(j.row), Hash(accounts'[a]))
               /\ Linked(a) => HashUpTo(order[a], accountLinks[a].hash, Hash(j.row))
      BY <1>2, <2>1, <2>2 DEF JobBetween, Hash, Linked
    <3>1. /\ HashUpTo(order[a], Hash(j.row), Hash(accounts[a]))
          /\ Linked(a) => HashUpTo(order[a], accountLinks[a].hash, Hash(j.row))
      BY <2>1 DEF JobBetween
    <3>2. HashUpTo(order[a], Hash(accounts[a]), Hash(accounts'[a])) /\ Strict(order[a].name)
          /\ Strict(order[a].kind)
      BY <2>2 DEF Onward, Orders
    <3> QED BY <3>1, <3>2, HashTransitive
  <2> QED BY <2>1, <2>3, <2>4 DEF JobSettles
<1> QED BY <1>4, <1>5, <1>6, <1>7 DEF SettledInv

\* What a worker does to a job, with the rows, the links and QuickBooks as they were.
LEMMA WorkerSettles ==
  ASSUME NEW order, Orders(order), OneAtATime, TypeInv, AccountInv, SettledInv(order),
         NEW w \in Workers, Worker(w) \/ Interrupt(w)
  PROVE  SettledInv(order)'
<1> USE DEF qbo, links, ledger, outbox, At
<1> DEFINE j == job[w]
           a == job[w].subject
<1>t. /\ StoresFit /\ StoresAgree /\ JobFits(j) /\ JobKnows(j) /\ Workers = {w} /\ NamesDiffer
      /\ queue \in [Subjects -> Nat] /\ Accounts \subseteq Subjects /\ Payments \subseteq Subjects
      /\ DocsDiffer /\ JobNotices(j) /\ JobBetween(order, j)
      /\ \A b \in Accounts : Noticed(b) /\ Between(order, b)
  BY DEF TypeInv, JobsFit, AccountInv, StoreInv, StoresFit, OneAtATime, Subjects, SettledInv,
         JobSettles
<1>a. j.pc \in AccountPc => a \in Accounts /\ accounts[a] # None /\ j.row \in RowType
  BY <1>t, SubjectsDiffer DEF JobFits, Known, StoresFit, AccountPc
<1>o. ASSUME DocsDiffer', \A b \in Accounts : Noticed(b)' /\ Between(order, b)',
             JobNotices(job[w])', JobBetween(order, job[w])'
      PROVE  SettledInv(order)'
  BY <1>o, <1>t DEF SettledInv, JobSettles
\* Neither rows nor links nor QuickBooks move.
<1>s. ASSUME UNCHANGED <<accounts, qboAccounts, accountLinks>>
      PROVE  DocsDiffer' /\ \A b \in Accounts : Between(order, b)' /\ (Linked(b)' <=> Linked(b))
  BY <1>s, <1>t DEF DocsDiffer, Between, Linked, ShownBy, Hash
<1>h. ASSUME UNCHANGED <<accounts, accountLinks>>, NEW b \in Accounts, Held(b) => Held(b)'
      PROVE  Noticed(b)'
  BY <1>h, <1>t DEF Noticed, Linked, Hash
\* Nor does an event, and the worker stays with its subject.
<1>m. ASSUME UNCHANGED <<queue, dead>>, job'[w].subject = a, NEW b \in Accounts
      PROVE  Held(b) <=> Held(b)'
  BY <1>m, <1>t DEF Held, Pending
<1>f. ASSUME UNCHANGED <<accounts, qboAccounts, accountLinks, queue, dead>>,
             job'[w].subject = a, JobNotices(job[w])', JobBetween(order, job[w])'
      PROVE  SettledInv(order)'
  BY <1>f, <1>s, <1>h, <1>m, <1>o
\* A job that ends so has its event back in the outbox, or among the dead.
<1>r. ASSUME Die(w) \/ Retry(w) \/ Interrupt(w), UNCHANGED <<ledger, qbo, links>>,
             j.pc # "idle"
      PROVE  SettledInv(order)'
  <2>1. Dropped(w) BY <1>r, OtherMoves
  <2>2. job'[w].pc = "idle" /\ job'[w].subject = None BY <2>1 DEF Dropped, Moved
  <2>3. ASSUME NEW b \in Accounts, Held(b) PROVE Held(b)'
    <3>1. b \in Subjects /\ queue[b] \in Nat BY <1>t
    <3>2. a \in Subjects
      BY <1>r, <1>t DEF JobFits, Known, StoresFit, Subjects
    <3>3. (queue[b] > 0 => queue'[b] > 0) /\ dead \subseteq dead'
      BY <1>r, <1>t, <3>1, <3>2 DEF Retry, Die, Interrupt, Announce
    <3>4. queue'[a] > 0 \/ a \in dead'
      BY <1>r, <1>t, <3>2 DEF Retry, Die, Interrupt, Announce
    <3>5. b = a \/ queue[b] > 0 \/ b \in dead
      BY <1>t, <2>3 DEF Held, Pending
    <3> QED BY <3>3, <3>4, <3>5 DEF Held, Pending
  <2>4. JobNotices(job[w])' /\ JobBetween(order, job[w])'
    BY <2>2 DEF JobNotices, JobBetween, AccountPc
  <2> QED BY <1>r, <1>s, <1>h, <1>o, <2>3, <2>4
<1>1. ASSUME NEW s \in Subjects, Take(w, s) PROVE SettledInv(order)'
  <2>0. /\ UNCHANGED <<accounts, qboAccounts, accountLinks, dead>>
        /\ queue' = [queue EXCEPT ![s] = @ - 1] /\ queue[s] > 0 /\ j.pc = "idle" /\ j.subject = None
    BY <1>1, <1>t DEF Take, JobFits, IdleJob
  <2>1. /\ job'[w].subject = s
        /\ \/ job'[w].pc = "paymentLink"
           \/ job'[w].pc = "accountLink" /\ s \notin Payments /\ job'[w].row = accounts[s]
    <3>1. IF s \in Payments THEN Moved(w, "paymentLink", s, None, None)
          ELSE Moved(w, "accountLink", s, accounts[s], None)
      BY <1>1, AccountMoves
    <3> QED BY <3>1 DEF Moved
  <2>2. ASSUME NEW b \in Accounts, Held(b) PROVE Held(b)'
    <3>1. b # None BY NoneIsNone
    <3>2. CASE b = s BY <2>1, <3>2 DEF Held, Pending
    <3>3. CASE b # s
      <4>1. queue'[b] = queue[b] BY <1>t, <2>0, <3>3
      <4> QED BY <1>t, <2>0, <2>2, <3>1, <4>1 DEF Held, Pending
    <3> QED BY <3>2, <3>3
  <2>3. s \notin Payments => s \in Accounts BY DEF Subjects
  <2>4. JobNotices(job[w])'
    BY <2>0, <2>1 DEF JobNotices, AccountPc, Hash
  <2>5. JobBetween(order, job[w])'
    <3> SUFFICES ASSUME job'[w].pc \in AccountPc
        PROVE  /\ HashUpTo(order[s], Hash(accounts[s]), Hash(accounts[s]))
               /\ Linked(s) => HashUpTo(order[s], accountLinks[s].hash, Hash(accounts[s]))
      BY <2>0, <2>1 DEF JobBetween, Hash, Linked, AccountPc
    <3>1. s \in Accounts BY <2>1, <2>3 DEF AccountPc
    <3> QED BY <1>t, <3>1 DEF HashUpTo, UpTo, Between, Ordered
  <2> QED BY <1>s, <1>h, <1>o, <2>0, <2>2, <2>4, <2>5
<1>2. CASE Payment(w)
  <2>0. j.pc \in PaymentPc /\ UNCHANGED <<accounts, qboAccounts, accountLinks>>
    BY <1>2 DEF Payment, PaymentLink, InvoiceLink, PaymentCreate, PaymentSave, PaymentPc
  <2>1. CASE Retry(w) /\ UNCHANGED <<ledger, qbo, links>>
    BY <1>r, <2>0, <2>1 DEF PaymentPc
  <2>2. CASE /\ \E pc \in PaymentPc \cup {"finish"} : Moved(w, pc, a, j.row, j.doc)
             /\ UNCHANGED <<queue, dead>>
    <3>1. job'[w].pc \in PaymentPc \cup {"finish"} /\ job'[w].subject = a
      BY <2>2 DEF Moved
    <3>2. a \notin Accounts
      BY <1>t, <2>0, SubjectsDiffer DEF JobFits, StoresFit
    <3>3. JobNotices(job[w])' /\ JobBetween(order, job[w])'
      BY <3>1, <3>2 DEF JobNotices, JobBetween, AccountPc, PaymentPc
    <3> QED BY <1>f, <2>0, <2>2, <3>1, <3>3
  <2>3. CASE Retry(w) \/ UNCHANGED <<queue, dead>>
    <3>1. \/ \E pc \in PaymentPc \cup {"finish"} : Moved(w, pc, a, j.row, j.doc)
          \/ Retry(w) /\ UNCHANGED <<ledger, qbo, links>>
      BY <1>2, OtherMoves
    <3>2. Retry(w) => UNCHANGED <<ledger, qbo, links>> \/ UNCHANGED <<queue, dead>>
      BY <1>2 DEF Payment, PaymentLink, InvoiceLink, PaymentCreate, PaymentSave
    <3> QED BY <2>1, <2>2, <2>3, <3>1, <3>2
  <2> QED BY <1>2, <2>3 DEF Payment, PaymentLink, InvoiceLink, PaymentCreate, PaymentSave
<1>3. CASE AccountLink(w)
  <2> DEFINE to == AfterAccountLink(a, j.row)
             doc == IF accountLinks[a] = None THEN None
                    ELSE [id |-> accountLinks[a].doc, token |-> 0]
  <2>0. Moved(w, to, a, j.row, doc)
    BY <1>3, AccountMoves
  <2>1. job'[w].pc = to /\ job'[w].subject = a /\ job'[w].row = j.row
    BY <2>0 DEF Moved
  <2>2. /\ to \in {"find", "finish", "read"}
        /\ to = "finish" => Linked(a) /\ accountLinks[a].hash = Hash(j.row)
    BY DEF AfterAccountLink, Linked
  <2>3. a \in Accounts /\ j.pc \in AccountPc /\ UNCHANGED <<ledger, qbo, links, outbox>>
    BY <1>3, <1>a DEF AccountLink, AccountPc
  <2> HIDE DEF to
  <2>4. JobNotices(job[w])'
    BY <1>t, <2>1, <2>2, <2>3 DEF JobNotices, Hash, Linked, AccountPc
  <2>5. JobBetween(order, job[w])'
    BY <1>t, <2>1, <2>2, <2>3 DEF JobBetween, Hash, Linked
  <2> QED BY <1>f, <2>1, <2>3, <2>4, <2>5
\* The worker has read QuickBooks, and goes on with the row it had.
<1>k. ASSUME NEW to \in AccountPc \ {"saveAccount"}, job'[w].pc = to, job'[w].subject = a,
             job'[w].row = j.row, j.pc \in AccountPc, UNCHANGED <<ledger, qbo, links, outbox>>
      PROVE  SettledInv(order)'
  <2>1. JobNotices(job[w])'
    BY <1>t, <1>k DEF JobNotices, Hash, AccountPc
  <2>2. JobBetween(order, job[w])'
    BY <1>t, <1>k DEF JobBetween, Hash, Linked
  <2> QED BY <1>f, <1>k, <2>1, <2>2
<1>4. CASE AccountRead(w)
  <2>1. Moved(w, "update", a, j.row, Read(j.doc.id)) BY <1>4, AccountMoves
  <2> QED BY <1>4, <1>k, <2>1 DEF Moved, AccountRead, AccountPc
<1>5. CASE AccountFind(w)
  <2>1. \/ \E d \in Named(j.row.name) : Moved(w, "update", a, j.row, Read(d))
        \/ Named(j.row.name) = {} /\ Moved(w, "create", a, j.row, j.doc)
    BY <1>5, AccountMoves
  <2>2. job'[w].pc \in {"update", "create"} /\ job'[w].subject = a /\ job'[w].row = j.row
    BY <2>1 DEF Moved
  <2> QED BY <1>5, <1>k, <2>2 DEF AccountFind, AccountPc
<1>6. CASE AccountUpdate(w)
  <2> DEFINE d == j.doc.id
             r == Updated(d, j.row)
  <2>1. /\ a \in Accounts /\ j.pc = "update" /\ j.pc \in AccountPc /\ d \in Existing
        /\ d \in Ids /\ qboAccounts[d] \in Remote /\ j.row \in RowType /\ accounts[a] # None
    BY <1>6, <1>a, <1>t DEF AccountUpdate, AccountPc, JobFits, Existing, StoresFit
  <2>2. CASE Die(w) /\ UNCHANGED <<ledger, qbo, links>>
    BY <1>r, <2>1, <2>2
  <2>3. CASE /\ Moved(w, "saveAccount", a, j.row, j.doc)
             /\ qboAccounts' = [qboAccounts EXCEPT ![d] = r]
             /\ UNCHANGED <<ledger, qboPayments, links, outbox, used>>
    <3>1. r.name = j.row.name /\ r.kind = j.row.kind
      BY <2>1 DEF Updated, Remote
    <3> HIDE DEF r
    <3>2. \A e \in Ids : qboAccounts'[e] = IF e = d THEN r ELSE qboAccounts[e]
      BY <1>t, <2>3 DEF StoresFit
    <3>3. job'[w].pc = "saveAccount" /\ job'[w].subject = a /\ job'[w].row = j.row /\ job'[w].doc = j.doc
      BY <2>3 DEF Moved
    <3>4. JobNotices(job[w])'
      BY <1>t, <2>1, <2>3, <3>1, <3>2, <3>3 DEF JobNotices, Hash, ShownBy, AccountPc
    <3>5. JobBetween(order, job[w])'
      BY <1>t, <2>1, <2>3, <3>3 DEF JobBetween, Hash, Linked
    <3>6. DocsDiffer' /\ \A b \in Accounts : Noticed(b)'
      BY <1>t, <1>h, <1>m, <2>3, <3>3 DEF DocsDiffer, Linked
    <3>7. ASSUME NEW b \in Accounts, Linked(b)
          PROVE  Ordered(order[b], accountLinks[b].hash, ShownBy(accountLinks[b].doc)',
                         Hash(accounts[b]))
      <4> DEFINE e == accountLinks[b].doc
                 g == ShownBy(e)
      <4>0. /\ Ordered(order[b], accountLinks[b].hash, g, Hash(accounts[b]))
            /\ e \in Ids /\ accounts[b] # None
        BY <1>t, <3>7 DEF Between, StoresAgree, Linked, Existing, Noticed
      <4>1. CASE e # d
        <5>1. ShownBy(e)' = g BY <2>3, <3>2, <4>0, <4>1 DEF ShownBy
        <5> QED BY <2>3, <4>0, <5>1
      <4>2. CASE e = d /\ b = a
        <5>1. ShownBy(e)' = Hash(j.row)
          BY <2>3, <3>1, <3>2, <4>0, <4>2 DEF ShownBy, Hash
        <5>2. /\ HashUpTo(order[a], Hash(j.row), Hash(accounts[a]))
              /\ HashUpTo(order[a], accountLinks[a].hash, Hash(j.row))
          BY <1>t, <2>1, <3>7, <4>2 DEF JobBetween
        <5> QED BY <2>3, <4>0, <4>2, <5>1, <5>2 DEF Ordered, HashUpTo
      \* Another account that has b's old name.
      <4>3. CASE e = d /\ b # a
        <5>1. ~Linked(a)
          BY <1>t, <2>1, <3>7, <4>3 DEF JobKnows, DocsDiffer
        <5>2. qboAccounts[d].name = j.row.name /\ j.row.name = accounts[a].name
          BY <1>t, <2>1, <5>1 DEF JobKnows
        <5>3. accounts[b].name # accounts[a].name
          BY <1>t, <2>1, <4>0, <4>3 DEF NamesDiffer
        <5>4. ShownBy(e)'[1] = g[1] /\ g[1] # Hash(accounts[b])[1]
          BY <2>3, <3>1, <3>2, <4>0, <4>3, <5>2, <5>3 DEF ShownBy, Hash
        <5> QED BY <2>3, <4>0, <5>4 DEF Ordered
      <4> QED BY <4>1, <4>2, <4>3
    <3>8. \A b \in Accounts : Between(order, b)'
      BY <2>3, <3>7 DEF Between, Linked, Hash, ShownBy
    <3> QED BY <1>o, <3>4, <3>5, <3>6, <3>8
  <2>4. \/ /\ Moved(w, "saveAccount", a, j.row, j.doc)
           /\ qboAccounts' = [qboAccounts EXCEPT ![d] = r]
           /\ UNCHANGED <<ledger, qboPayments, links, outbox, used>>
        \/ Die(w) /\ UNCHANGED <<ledger, qbo, links>>
    BY <1>6, AccountMoves
  <2> QED BY <2>2, <2>3, <2>4
<1>7. CASE AccountCreate(w)
  <2>1. /\ a \in Accounts /\ j.pc = "create" /\ j.pc \in AccountPc /\ j.row \in RowType
        /\ ~Linked(a) /\ Made(a) = {}
    BY <1>7, <1>a, <1>t DEF AccountCreate, AccountPc, JobKnows
  <2>2. CASE Die(w) /\ UNCHANGED <<ledger, qbo, links>>
    BY <1>r, <2>1, <2>2
  <2>3. ASSUME NEW d \in Ids \ Existing,
               Moved(w, "saveAccount", a, j.row, [id |-> d, token |-> 0]),
               qboAccounts' = [qboAccounts EXCEPT ![d] =
                 [name |-> j.row.name, kind |-> j.row.kind, token |-> 0,
                  rid |-> <<a, j.row.version>>]],
               UNCHANGED <<ledger, qboPayments, links, outbox, used>>
        PROVE  SettledInv(order)'
    <3> DEFINE r == [name |-> j.row.name, kind |-> j.row.kind, token |-> 0,
                     rid |-> <<a, j.row.version>>]
    <3>1. r.name = j.row.name /\ r.kind = j.row.kind /\ qboAccounts' = [qboAccounts EXCEPT ![d] = r]
      BY <2>3
    <3> HIDE DEF r
    <3>2. \A e \in Ids : qboAccounts'[e] = IF e = d THEN r ELSE qboAccounts[e]
      BY <1>t, <3>1 DEF StoresFit
    <3>3. /\ job'[w].pc = "saveAccount" /\ job'[w].subject = a /\ job'[w].row = j.row
          /\ job'[w].doc.id = d
      BY <2>3 DEF Moved
    <3>4. JobNotices(job[w])'
      BY <1>t, <2>1, <2>3, <3>1, <3>2, <3>3 DEF JobNotices, Hash, ShownBy, AccountPc
    <3>5. JobBetween(order, job[w])'
      BY <1>t, <2>1, <2>3, <3>3 DEF JobBetween, Hash, Linked
    <3>6. DocsDiffer' /\ \A b \in Accounts : Noticed(b)'
      BY <1>t, <1>h, <1>m, <2>3, <3>3 DEF DocsDiffer, Linked
    <3>7. ASSUME NEW b \in Accounts, Linked(b)
          PROVE  ShownBy(accountLinks[b].doc)' = ShownBy(accountLinks[b].doc)
      <4>1. accountLinks[b].doc \in Existing /\ accountLinks[b].doc # d
        BY <1>t, <2>3, <3>7 DEF StoresAgree, Linked
      <4> QED BY <2>3, <3>2, <4>1 DEF ShownBy, Existing
    <3>8. \A b \in Accounts : Between(order, b)'
      BY <1>t, <2>3, <3>7 DEF Between, Linked, Hash, ShownBy
    <3> QED BY <1>o, <3>4, <3>5, <3>6, <3>8
  <2>4. ~\E d \in Existing : qboAccounts[d].rid[1] = a
    BY <2>1 DEF Made
  <2> QED BY <1>7, <2>2, <2>3, <2>4, AccountMoves
<1>8. CASE AccountSave(w)
  <2> DEFINE d == j.doc.id
             l == [doc |-> d, hash |-> Hash(j.row)]
  <2>1. /\ a \in Accounts /\ j.pc = "saveAccount" /\ j.pc \in AccountPc /\ d \in Existing
        /\ accounts[a] # None /\ j.row \in RowType
    BY <1>8, <1>a, <1>t DEF AccountSave, AccountPc, JobFits
  <2>2. CASE Retry(w) /\ UNCHANGED <<ledger, qbo, links>>
    BY <1>r, <2>1, <2>2
  <2>3. CASE /\ \A b \in Accounts \ {a} : accountLinks[b] # None => accountLinks[b].doc # d
             /\ Moved(w, "finish", a, j.row, j.doc)
             /\ accountLinks' = [accountLinks EXCEPT ![a] = l]
             /\ UNCHANGED <<ledger, qbo, paymentLinks, outbox, used>>
    <3>1. l # None /\ l.doc = d /\ l.hash = Hash(j.row)
      <4>1. l \in LinkType BY <2>1 DEF LinkType, Hash, RowType, Existing
      <4> QED BY <4>1, NoneIsNoRecord
    <3> HIDE DEF l
    <3>2. \A b \in Accounts : accountLinks'[b] = IF b = a THEN l ELSE accountLinks[b]
      BY <1>t, <2>3 DEF StoresFit
    <3>3. job'[w].pc = "finish" /\ job'[w].subject = a
      BY <2>3 DEF Moved
    <3>4. Hash(j.row) = Hash(accounts[a]) \/ queue[a] > 0
      BY <1>t, <2>1 DEF JobNotices
    <3>5. JobNotices(job[w])' /\ JobBetween(order, job[w])'
      BY <2>1, <2>3, <3>1, <3>2, <3>3, <3>4 DEF JobNotices, JobBetween, Hash, Linked, AccountPc
    <3>6. DocsDiffer'
      BY <1>t, <2>3, <3>1, <3>2 DEF DocsDiffer, Linked
    <3>7. ASSUME NEW b \in Accounts PROVE Noticed(b)'
      <4>1. Held(b) <=> Held(b)' BY <1>m, <2>3, <3>3
      <4>2. CASE b = a
        BY <2>1, <2>3, <3>1, <3>2, <3>4, <4>2 DEF Noticed, Linked, Held, Pending, Hash
      <4>3. CASE b # a
        BY <1>t, <2>3, <3>2, <4>1, <4>3 DEF Noticed, Linked, Hash
      <4> QED BY <4>2, <4>3
    <3>8. ASSUME NEW b \in Accounts PROVE Between(order, b)'
      <4>1. CASE b # a
        BY <1>t, <2>3, <3>2, <4>1 DEF Between, Linked, Hash, ShownBy
      <4>2. CASE b = a
        <5>1. ShownBy(d) = Hash(j.row)
          BY <1>t, <2>1 DEF JobNotices
        <5>2. HashUpTo(order[a], Hash(j.row), Hash(accounts[a]))
          BY <1>t, <2>1 DEF JobBetween
        <5>3. Ordered(order[a], Hash(j.row), ShownBy(d), Hash(accounts[a]))
          BY <5>1, <5>2 DEF Ordered, HashUpTo, UpTo
        <5> QED BY <2>1, <2>3, <3>1, <3>2, <4>2, <5>3 DEF Between, Linked, Hash, ShownBy
      <4> QED BY <4>1, <4>2
    <3> QED BY <1>o, <3>5, <3>6, <3>7, <3>8
  <2> QED BY <1>8, <2>2, <2>3, AccountMoves
<1>9. CASE Finish(w)
  <2>1. Dropped(w) BY <1>9, OtherMoves
  <2>2. job'[w].pc = "idle" /\ job'[w].subject = None BY <2>1 DEF Dropped, Moved
  <2>3. JobNotices(job[w])' /\ JobBetween(order, job[w])'
    BY <2>2 DEF JobNotices, JobBetween, AccountPc
  <2>4. ASSUME NEW b \in Accounts PROVE Noticed(b)'
    <3>1. CASE b = a
      <4>1. Linked(a) /\ (accountLinks[a].hash = Hash(accounts[a]) \/ queue[a] > 0)
        BY <1>9, <1>t, <3>1 DEF Finish, JobNotices
      <4> QED BY <1>9, <1>t, <3>1, <4>1 DEF Finish, Noticed, Linked, Held, Pending, Hash
    <3>2. CASE b # a
      <4>1. Held(b) => Held(b)' BY <1>9, <1>t, <3>2 DEF Finish, Held, Pending
      <4> QED BY <1>9, <1>h, <4>1 DEF Finish
    <3> QED BY <3>1, <3>2
  <2> QED BY <1>9, <1>s, <1>o, <2>3, <2>4 DEF Finish
<1>10. CASE Interrupt(w)
  BY <1>10, <1>r DEF Interrupt
<1> QED
  BY <1>1, <1>2, <1>3, <1>4, <1>5, <1>6, <1>7, <1>8, <1>9, <1>10 DEF Worker, Account

LEMMA SettledInvStep ==
  ASSUME NEW order, Orders(order), OneAtATime, TypeInv, AccountInv, SettledInv(order),
         [Next]_vars, [Onward(order)]_vars
  PROVE  SettledInv(order)'
<1> USE DEF qbo, links, ledger, outbox
<1>q. queue \in [Subjects -> Nat] /\ Accounts \subseteq Subjects
      /\ accounts \in [Accounts -> RowType \cup {None}]
      /\ qboAccounts \in [Ids -> Remote \cup {None}]
  BY DEF TypeInv, StoresFit, Subjects
<1>1. CASE UNCHANGED vars
  BY <1>1 DEF vars, SettledInv, DocsDiffer, Noticed, Between, JobSettles, JobNotices, JobBetween,
              Linked, Held, Pending, ShownBy, Hash
<1>2. CASE People /\ Onward(order)
  <2>s. UNCHANGED qboAccounts => \A d \in Existing : ShownBy(d)' = ShownBy(d)
    BY DEF ShownBy
  <2>1. ASSUME NEW a \in Accounts, NEW n \in Names, NEW k \in Kinds, CreateAccount(a, n, k)
        PROVE  SettledInv(order)'
    BY <1>2, <1>q, <2>1, <2>s, PeopleSettle DEF CreateAccount, Announce
  <2>2. ASSUME NEW a \in Accounts, NEW new \in RowType, UpdateAccount(a, new)
        PROVE  SettledInv(order)'
    <3> DEFINE r == [new EXCEPT !.version = @ + 1]
    <3>1. r # None BY RowCounts
    <3>2. accounts' = [accounts EXCEPT ![a] = r] BY <2>2 DEF UpdateAccount
    <3> HIDE DEF r
    <3> QED BY <1>2, <1>q, <2>2, <2>s, <3>1, <3>2, PeopleSettle DEF UpdateAccount, Announce
  <2>3. ASSUME NEW a \in Accounts, NEW n \in Names, RenameAccount(a, n)
        PROVE  SettledInv(order)'
    <3>1. [accounts[a] EXCEPT !.name = n] \in RowType
      BY <1>q, <2>3 DEF RenameAccount, RowType
    <3> QED BY <2>2, <2>3, <3>1 DEF RenameAccount
  <2>4. ASSUME NEW a \in Accounts, NEW k \in Kinds, EditAccount(a, k)
        PROVE  SettledInv(order)'
    <3>1. [accounts[a] EXCEPT !.kind = k] \in RowType
      BY <1>q, <2>4 DEF EditAccount, RowType
    <3> QED BY <2>2, <2>4, <3>1 DEF EditAccount
  <2>5. ASSUME NEW p \in Payments, RecordPayment(p) \/ LinkInvoice(p)
        PROVE  SettledInv(order)'
    BY <1>2, <1>q, <2>5, <2>s, PeopleSettle DEF RecordPayment, LinkInvoice, Announce
  <2>6. ASSUME NEW d \in Ids, QboTouch(d)
        PROVE  SettledInv(order)'
    <3> DEFINE r == [qboAccounts[d] EXCEPT !.token = @ + 1]
    <3>1. r.name = qboAccounts[d].name /\ r.kind = qboAccounts[d].kind
          /\ qboAccounts' = [qboAccounts EXCEPT ![d] = r]
      BY <1>q, <2>6 DEF QboTouch, Existing, Remote
    <3> HIDE DEF r
    <3>2. \A e \in Existing : ShownBy(e)' = ShownBy(e)
      BY <1>q, <3>1 DEF ShownBy, Existing
    <3> QED BY <1>2, <1>q, <2>6, <3>2, PeopleSettle DEF QboTouch
  <2>7. ASSUME NEW d \in Ids, NEW n \in Names, NEW k \in Kinds, QboEnter(d, n, k)
        PROVE  SettledInv(order)'
    <3>1. \A e \in Existing : qboAccounts'[e] = qboAccounts[e]
      BY <1>q, <2>7 DEF QboEnter, Existing
    <3>2. \A e \in Existing : ShownBy(e)' = ShownBy(e)
      BY <3>1 DEF ShownBy
    <3> QED BY <1>2, <1>q, <2>7, <3>2, PeopleSettle DEF QboEnter
  <2>8. ASSUME NEW s \in Subjects, Replay(s)
        PROVE  SettledInv(order)'
    BY <1>2, <1>q, <2>8, <2>s, PeopleSettle DEF Replay, Announce
  <2> QED BY <1>2, <2>1, <2>3, <2>4, <2>5, <2>6, <2>7, <2>8 DEF People
<1>3. ASSUME NEW w \in Workers, Worker(w) \/ Interrupt(w) PROVE SettledInv(order)'
  BY <1>3, WorkerSettles
<1> QED BY <1>1, <1>2, <1>3 DEF Next

\* With one worker, and accounts that are renamed only once they are linked, what is linked and
\* has no event left is shown in QuickBooks as it is in the ledger, whatever was interrupted,
\* replayed, touched by people there, or overwritten meanwhile by an account that took the name
\* over: as long as no account goes back to a name or a kind it had before.
THEOREM SettledIsWhatIsShown ==
  ASSUME NEW CONSTANT order, Orders(order), OneAtATime
  PROVE  Spec /\ [][Onward(order)]_vars => []SettledIsShown
<1>1. TypeInv /\ SettledInv(order) => SettledAccountIsShown
  <2> SUFFICES ASSUME TypeInv, SettledInv(order), NEW a \in Accounts, accounts[a] # None,
                      ~Pending(a), a \notin dead
               PROVE  /\ accountLinks[a] # None
                      /\ ShownBy(accountLinks[a].doc) = Hash(accounts[a])
    BY DEF SettledAccountIsShown, ShownBy
  <2>1. Noticed(a) /\ Between(order, a) /\ ~Held(a)
    BY DEF SettledInv, Held
  <2>2. Linked(a) /\ accountLinks[a].hash = Hash(accounts[a])
    BY <2>1 DEF Noticed
  <2>3. ShownBy(accountLinks[a].doc)[1] = Hash(accounts[a])[1]
        /\ ShownBy(accountLinks[a].doc)[2] = Hash(accounts[a])[2]
    BY <2>1, <2>2, NothingBetween DEF Between, Orders
  <2> QED BY <2>2, <2>3 DEF Linked, ShownBy, Hash
<1>2. Init => SettledInv(order)
  BY SettledInvInit
<1>3. TypeInv /\ AccountInv /\ SettledInv(order) /\ [Next]_vars /\ [Onward(order)]_vars
        => SettledInv(order)'
  BY SettledInvStep
<1>4. TypeInv /\ AccountInv /\ [Next]_vars => AccountInv'
  BY AccountInvStep
<1> QED BY <1>1, <1>2, <1>3, <1>4, AccountInvInit, TypeInvInit, TypeInvStep,
           PaymentsAreNotForgotten, PTL DEF Spec, SettledIsShown
================================================================================
