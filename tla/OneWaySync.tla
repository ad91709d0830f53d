------------------------------- MODULE OneWaySync -------------------------------
(***************************************************************************)
(* The two syncs that only go from the ledger to QuickBooks: GL accounts   *)
(* (accounts.ts) and payments (payments.ts).  Their events share the       *)
(* outbox and the workers; the reconciler does not look after either.      *)
(* One database or HTTP call is one step, as in InvoiceSync.               *)
(* Events are taken in any order, as webhooks arrive and backoffs end.     *)
(*                                                                         *)
(* QuickBooks keeps account names unique and answers a create whose        *)
(* Request-Id it has served with what it made then.                        *)
(***************************************************************************)
EXTENDS Naturals, FiniteSets

CONSTANTS
  None,
  Accounts,       \* internal GL accounts
  Payments,       \* internal payments
  Names, Kinds,   \* what is synced of an account: its name, and all the rest
  Ids,            \* ids of QuickBooks accounts
  Workers,
  RenamesUnlinked,\* TRUE: an account is renamed before its link is written
  MaxRenames,     \* bound on renames in the ledger
  MaxEdits,       \* bound on its other edits of an account
  MaxRetries,     \* bound on failures after which the event is tried again
  MaxOthers       \* bound on what the operator and QuickBooks' users do

\* An account as it is in the ledger, as it is in QuickBooks, and as a handler knows it.
RowType == [name : Names, kind : Kinds, version : Nat]
Remote  == [name : Names, kind : Kinds, token : Nat, rid : (Accounts \cup {None}) \X Nat]
Token   == [id : Ids, token : Nat]
LinkType == [doc : Ids, hash : Names \X Kinds]

ASSUME NoneIsNone == None \notin Accounts \cup Payments \cup Ids
ASSUME NoneIsNoRecord == None \notin RowType \cup Remote \cup Token \cup LinkType
ASSUME SubjectsDiffer == Accounts \cap Payments = {}
ASSUME RenamesAreBoolean == RenamesUnlinked \in BOOLEAN

VARIABLES
  accounts,       \* [Accounts -> the row of internal.accounts], None before it is created
  payments,       \* payments recorded
  invoiced,       \* payments whose invoice has a link
  qboAccounts,    \* [Ids -> the QuickBooks account], None when there is none
  qboPayments,    \* QuickBooks payments, each by the Request-Id it was created under
  accountLinks,   \* [Accounts -> its row of links], None before it is written
  paymentLinks,   \* payments with a row of links
  queue,          \* [Subjects -> events pending]
  dead,           \* subjects with an event in the dead letters
  job,            \* [Workers -> what the handler has read, and where it stands]
  used            \* how much of each bound is spent

ledger == <<accounts, payments, invoiced>>
qbo    == <<qboAccounts, qboPayments>>
links  == <<accountLinks, paymentLinks>>
outbox == <<queue, dead>>
vars   == <<ledger, qbo, links, outbox, job, used>>

Subjects == Accounts \cup Payments

Limit ==
  [rename |-> MaxRenames, edit |-> MaxEdits, others |-> MaxOthers,
   retry |-> MaxRetries]

IdleJob == [pc |-> "idle", subject |-> None, row |-> None, doc |-> None]

Init ==
  /\ accounts = [a \in Accounts |-> None]
  /\ payments = {} /\ invoiced = {}
  /\ qboAccounts = [d \in Ids |-> None] /\ qboPayments = {}
  /\ accountLinks = [a \in Accounts |-> None] /\ paymentLinks = {}
  /\ queue = [s \in Subjects |-> 0] /\ dead = {}
  /\ job = [w \in Workers |-> IdleJob]
  /\ used = [k \in DOMAIN Limit |-> 0]
--------------------------------------------------------------------------------
Spend(k) == used[k] < Limit[k] /\ used' = [used EXCEPT ![k] = @ + 1]

Existing == {d \in Ids : qboAccounts[d] # None}
Named(n) == {d \in Existing : qboAccounts[d].name = n}
Read(d)  == [id |-> d, token |-> qboAccounts[d].token]

\* What hashAccount tells apart: all of the row but its version.
Hash(row) == <<row.name, row.kind>>

Announce(s) == queue' = [queue EXCEPT ![s] = @ + 1]

Pending(s) == queue[s] > 0 \/ \E w \in Workers : job[w].subject = s
--------------------------------------------------------------------------------
(***************************************************************************)
(* The ledger, QuickBooks' users, and the operator.                        *)
(***************************************************************************)
\* internal.accounts.name is unique.
Free(n) == \A a \in Accounts : accounts[a] # None => accounts[a].name # n

CreateAccount(a, n, k) ==
  /\ accounts[a] = None /\ Free(n)
  /\ accounts' = [accounts EXCEPT ![a] = [name |-> n, kind |-> k, version |-> 1]]
  /\ Announce(a)
  /\ UNCHANGED <<payments, invoiced, qbo, links, dead, job, used>>

UpdateAccount(a, new) ==
  /\ accounts[a] # None
  /\ accounts' = [accounts EXCEPT ![a] = [new EXCEPT !.version = @ + 1]]
  /\ Announce(a)
  /\ UNCHANGED <<payments, invoiced, qbo, links, dead, job>>

RenameAccount(a, n) ==
  /\ Free(n)
  /\ accounts[a] # None
  /\ RenamesUnlinked \/ accountLinks[a] # None
  /\ Spend("rename")
  /\ UpdateAccount(a, [accounts[a] EXCEPT !.name = n])

EditAccount(a, k) ==
  /\ accounts[a] # None /\ accounts[a].kind # k
  /\ Spend("edit")
  /\ UpdateAccount(a, [accounts[a] EXCEPT !.kind = k])

RecordPayment(p) ==
  /\ p \notin payments
  /\ payments' = payments \cup {p}
  /\ Announce(p)
  /\ UNCHANGED <<accounts, invoiced, qbo, links, dead, job, used>>

\* The invoice handler has written the link of the payment's invoice.
LinkInvoice(p) ==
  /\ p \notin invoiced
  /\ invoiced' = invoiced \cup {p}
  /\ UNCHANGED <<accounts, payments, qbo, links, outbox, job, used>>

\* A person enters an account.
QboEnter(d, n, k) ==
  /\ d \notin Existing /\ Named(n) = {}
  /\ Spend("others")
  /\ qboAccounts' = [qboAccounts EXCEPT ![d] = [name |-> n, kind |-> k, token |-> 0,
                                                rid |-> <<None, 0>>]]
  /\ UNCHANGED <<ledger, qboPayments, links, outbox, job>>

\* A person changes a field that is not synced.
QboTouch(d) ==
  /\ d \in Existing
  /\ Spend("others")
  /\ qboAccounts' = [qboAccounts EXCEPT ![d].token = @ + 1]
  /\ UNCHANGED <<ledger, qboPayments, links, outbox, job>>

\* An operator replays an event that is done or dead.
Replay(s) ==
  /\ s \in payments \cup {a \in Accounts : accounts[a] # None}
  /\ ~Pending(s)
  /\ Spend("others")
  /\ Announce(s)
  /\ dead' = dead \ {s}
  /\ UNCHANGED <<ledger, qbo, links, job>>
--------------------------------------------------------------------------------
(***************************************************************************)
(* A worker's run of an event.                                             *)
(***************************************************************************)
At(w, pc)   == job[w].pc = pc
Goto(w, pc) == job' = [job EXCEPT ![w].pc = pc]

\* Both handlers begin by reading the row again.
Take(w, s) ==
  /\ At(w, "idle") /\ queue[s] > 0
  /\ queue' = [queue EXCEPT ![s] = @ - 1]
  /\ job' = [job EXCEPT ![w] =
               IF s \in Payments THEN [IdleJob EXCEPT !.pc = "paymentLink", !.subject = s]
               ELSE [IdleJob EXCEPT !.pc = "accountLink", !.subject = s, !.row = accounts[s]]]
  /\ UNCHANGED <<ledger, qbo, links, dead, used>>

\* Wrong: the worker keeps what it has read.
FinishKeepsReads(w) ==
  /\ At(w, "finish")
  /\ Goto(w, "idle")
  /\ UNCHANGED <<ledger, qbo, links, outbox, used>>

\* The event is marked done.
Finish(w) ==
  /\ At(w, "finish")
  /\ job' = [job EXCEPT ![w] = IdleJob]
  /\ UNCHANGED <<ledger, qbo, links, outbox, used>>

\* A permanent error: QuickBooks refused the write.
Die(w) ==
  /\ dead' = dead \cup {job[w].subject}
  /\ job' = [job EXCEPT ![w] = IdleJob]
  /\ UNCHANGED <<queue, used>>

\* A transient one: tried again, or dead if it was out of attempts, which are counted
\* for all events together and not for each.
Retry(w) ==
  \/ /\ Spend("retry")
     /\ Announce(job[w].subject)
     /\ job' = [job EXCEPT ![w] = IdleJob]
     /\ UNCHANGED dead
  \/ Die(w)

\* A call fails, or the process dies and the event is reclaimed.
Interrupt(w) ==
  /\ ~At(w, "idle")
  /\ Retry(w)
  /\ UNCHANGED <<ledger, qbo, links>>

(***************************************************************************)
(* processPaymentToQbo.                                                    *)
(***************************************************************************)
PaymentLink(w) ==
  /\ At(w, "paymentLink")
  /\ Goto(w, IF job[w].subject \in paymentLinks THEN "finish" ELSE "invoiceLink")
  /\ UNCHANGED <<ledger, qbo, links, outbox, used>>

\* "Not yet linked" is an error like any other, and tried again.
InvoiceLink(w) ==
  /\ At(w, "invoiceLink")
  /\ \/ job[w].subject \in invoiced /\ Goto(w, "createPayment") /\ UNCHANGED <<outbox, used>>
     \/ job[w].subject \notin invoiced /\ Retry(w)
  /\ UNCHANGED <<ledger, qbo, links>>

\* Wrong: each try has a Request-Id of its own.
PaymentRequestIdFresh(p) == <<p, used["retry"]>>

PaymentRequestId(p) == <<p, 0>>

PaymentCreate(w) ==
  /\ At(w, "createPayment")
  /\ qboPayments' = qboPayments \cup {PaymentRequestId(job[w].subject)}
  /\ Goto(w, "savePayment")
  /\ UNCHANGED <<ledger, qboAccounts, links, outbox, used>>

PaymentSave(w) ==
  /\ At(w, "savePayment")
  /\ paymentLinks' = paymentLinks \cup {job[w].subject}
  /\ Goto(w, "finish")
  /\ UNCHANGED <<ledger, qbo, accountLinks, outbox, used>>

(***************************************************************************)
(* processAccountToQbo.                                                    *)
(***************************************************************************)
\* Wrong: any link means there is nothing to do.
AfterAccountLinkAny(a, row) ==
  IF accountLinks[a] = None THEN "find" ELSE "finish"

AfterAccountLink(a, row) ==
  IF accountLinks[a] = None THEN "find"
  ELSE IF accountLinks[a].hash = Hash(row) THEN "finish" ELSE "read"

AccountLink(w) ==
  LET a == job[w].subject IN
  /\ At(w, "accountLink")
  /\ job' = [job EXCEPT ![w].pc = AfterAccountLink(a, job[w].row),
                        ![w].doc = IF accountLinks[a] = None THEN None
                                   ELSE [id |-> accountLinks[a].doc, token |-> 0]]
  /\ UNCHANGED <<ledger, qbo, links, outbox, used>>

AccountRead(w) ==
  /\ At(w, "read")
  /\ job' = [job EXCEPT ![w].doc = Read(@.id), ![w].pc = "update"]
  /\ UNCHANGED <<ledger, qbo, links, outbox, used>>

AccountFind(w) ==
  /\ At(w, "find")
  /\ \/ \E d \in Named(job[w].row.name) :
          job' = [job EXCEPT ![w].doc = Read(d), ![w].pc = "update"]
     \/ Named(job[w].row.name) = {} /\ Goto(w, "create")
  /\ UNCHANGED <<ledger, qbo, links, outbox, used>>

\* Refused when the SyncToken is not the current one or the name is taken.
AccountUpdate(w) ==
  LET d     == job[w].doc.id
      row   == job[w].row
      new   == [qboAccounts[d] EXCEPT !.name = row.name, !.kind = row.kind, !.token = @ + 1]
      legal == qboAccounts[d].token = job[w].doc.token /\ Named(row.name) \subseteq {d}
  IN
  /\ At(w, "update")
  /\ \/ /\ legal
        /\ qboAccounts' = [qboAccounts EXCEPT ![d] = new]
        /\ Goto(w, "saveAccount")
        /\ UNCHANGED <<outbox, used>>
     \/ ~legal /\ Die(w) /\ UNCHANGED qboAccounts
  /\ UNCHANGED <<ledger, qboPayments, links>>

AccountCreate(w) ==
  LET row    == job[w].row
      rid    == <<job[w].subject, row.version>>
      served == {d \in Existing : qboAccounts[d].rid = rid}
      Made(d) == job' = [job EXCEPT ![w].doc = [id |-> d, token |-> 0], ![w].pc = "saveAccount"]
  IN
  /\ At(w, "create")
  /\ \/ \E d \in served : Made(d) /\ UNCHANGED <<qboAccounts, outbox, used>>
     \/ /\ served = {} /\ Named(row.name) = {}
        /\ \E d \in Ids \ Existing :
             /\ qboAccounts' = [qboAccounts EXCEPT ![d] = [name |-> row.name, kind |-> row.kind,
                                                           token |-> 0, rid |-> rid]]
             /\ Made(d)
        /\ UNCHANGED <<outbox, used>>
     \/ served = {} /\ Named(row.name) # {} /\ Die(w) /\ UNCHANGED qboAccounts
  /\ UNCHANGED <<ledger, qboPayments, links>>

\* A QuickBooks id is in one link of a kind at most: the write throws when another
\* account has it.
AccountSave(w) ==
  LET a     == job[w].subject
      d     == job[w].doc.id
      clash == \E b \in Accounts \ {a} : accountLinks[b] # None /\ accountLinks[b].doc = d
  IN
  /\ At(w, "saveAccount")
  /\ \/ /\ ~clash
        /\ accountLinks' = [accountLinks EXCEPT ![a] = [doc |-> d, hash |-> Hash(job[w].row)]]
        /\ Goto(w, "finish")
        /\ UNCHANGED <<outbox, used>>
     \/ clash /\ Retry(w) /\ UNCHANGED accountLinks
  /\ UNCHANGED <<ledger, qbo, paymentLinks>>
--------------------------------------------------------------------------------
People ==
  \/ \E a \in Accounts, n \in Names :
       RenameAccount(a, n) \/ \E k \in Kinds : CreateAccount(a, n, k)
  \/ \E a \in Accounts, k \in Kinds : EditAccount(a, k)
  \/ \E p \in Payments : RecordPayment(p) \/ LinkInvoice(p)
  \/ \E d \in Ids : QboTouch(d) \/ \E n \in Names, k \in Kinds : QboEnter(d, n, k)
  \/ \E s \in Subjects : Replay(s)

Payment(w) == PaymentLink(w) \/ InvoiceLink(w) \/ PaymentCreate(w) \/ PaymentSave(w)

Account(w) ==
  \/ AccountLink(w) \/ AccountRead(w) \/ AccountFind(w) \/ AccountUpdate(w)
  \/ AccountCreate(w) \/ AccountSave(w)

Worker(w) == \/ \E s \in Subjects : Take(w, s)
             \/ Payment(w) \/ Account(w) \/ Finish(w)

Next == People \/ \E w \in Workers : Worker(w) \/ Interrupt(w)

Spec == Init /\ [][Next]_vars
--------------------------------------------------------------------------------
\* Every record is of its type, and an idle worker holds nothing.
TypeOK ==
  /\ \A a \in Accounts : accounts[a] \in RowType \cup {None}
  /\ invoiced \subseteq Payments /\ paymentLinks \subseteq payments
  /\ \A d \in Existing :
       /\ qboAccounts[d].name \in Names /\ qboAccounts[d].kind \in Kinds
       /\ qboAccounts[d].token \in Nat
  /\ \A a \in Accounts : accountLinks[a] # None =>
       accountLinks[a].doc \in Existing /\ accountLinks[a].hash \in Names \X Kinds
  /\ queue \in [Subjects -> Nat] /\ dead \subseteq Subjects
  /\ \A w \in Workers : At(w, "idle") <=> job[w] = IdleJob

\* A payment is made in QuickBooks once, and only when its invoice is there, however
\* often its event is tried, interrupted or replayed (payments.ts:16-19, 55).
OnePaymentEach ==
  \A p \in Payments :
    LET made == {rid \in qboPayments : rid[1] = p}
    IN  Cardinality(made) <= 1 /\ (made # {} => p \in invoiced)

\* The bridge creates an account in QuickBooks once: a create whose link was lost is
\* found by name (accounts.ts:14-18, 57-63).
OneAccountEach ==
  \A a \in Accounts : Cardinality({d \in Existing : qboAccounts[d].rid[1] = a}) <= 1

\* Nothing is made twice in QuickBooks, whatever fails between a call and its link write.
NothingTwice == OnePaymentEach /\ OneAccountEach

\* Once its events are handled, an account is linked to a QuickBooks account that
\* shows its name and the rest, whatever other accounts took its old name and
\* whatever was interrupted meanwhile, unless a change is taken back
\* (accounts.ts:38-42, 49-55).
SettledAccountIsShown ==
  \A a \in Accounts :
    accounts[a] # None /\ ~Pending(a) /\ a \notin dead =>
      /\ accountLinks[a] # None
      /\ LET shown == qboAccounts[accountLinks[a].doc]
         IN  <<shown.name, shown.kind>> = Hash(accounts[a])

\* A handled payment has its QuickBooks payment, or its event is dead
\* (payments.ts:39-55).
SettledPaymentIsMade ==
  \A p \in payments :
    ~Pending(p) /\ p \notin dead => \E rid \in qboPayments : rid[1] = p

\* What the bridge is done with is what QuickBooks shows.
SettledIsShown == SettledAccountIsShown /\ SettledPaymentIsMade
================================================================================
