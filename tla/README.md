# LedgerBridge in TLA+

LedgerBridge keeps the invoices of an internal ledger and of QuickBooks Online in step. These modules model
its sync engine, the ledger it syncs, the process it runs in, its tokens and the dashboard it is watched
with, check the models with TLC on small instances, and prove what matters most with TLAPS. Source paths
below are relative to `apps/api/src` unless they begin with `apps/web/src`, `DESIGN.md` or `README.md`.

## The system

| Component | State | Operations | Interacts with |
|---|---|---|---|
| Outbox and worker (`bridge/worker.ts`, `bridge/ingest.ts`, `db/schema.ts`) | `sync_events`: status, attempts, due time, lease; per process the event in hand | enqueue, claim, run, done, retry with backoff, dead letter, reclaim of a stale lease | webhooks put events in; handlers run them |
| Replay (`observability/queries.ts`) | the same rows | operator's replay of an event | races the worker |
| Conflict analysis (`bridge/conflict.ts`) | none | three-way comparison, choice of action | both handlers |
| Forward handler (`bridge/processor.ts`) | `links`: version, hash and snapshot of the last sync, linked or conflict | echo gate, delete → void, hold, create, adopt, update | ledger, QuickBooks, links |
| Reverse handler (`bridge/reverse.ts`) | the same links | version gate, void → delete, hold, apply | the same |
| Reconciler (`bridge/reconcile.ts`) | none between passes | match unlinked, find drift, enqueue | outbox, links, both sides |
| Conflict resolution (`bridge/resolve.ts`) | none | apply the winner, link again | links, both sides |
| Internal ledger (`internal/`) | invoices, payments, accounts, change feed | create, edit, pay, delete, each with a webhook | people, reverse handler, outbox |
| Webhook ingest (`bridge/ingest.ts`, `bridge/qbo-ingest.ts`) | none | dedupe by event id, insert, answer | both sides, outbox |
| QuickBooks client (`qbo/client.ts`, `bridge/qbo-ops.ts`) | the remote invoices and their SyncTokens | read, find, create with a Request-Id, update, void | handlers |
| Payments, accounts (`bridge/payments.ts`, `bridge/accounts.ts`) | links of their own | one-way syncs | outbox, links, QuickBooks |
| OAuth tokens (`oauth/`) | one token pair per company | consent, refresh before expiry | the client |
| Process (`index.ts`, `bridge/notify.ts`, the loops of `bridge/`) | loops, listener, server | start, wake, drain on SIGTERM, exit, restart | worker, reconciler, webhooks |
| Dashboard API (`observability/`) | none of its own | status, events, links, conflicts | all tables |
| Demo controls (`demo/`) | an injected fault budget | create, edit both sides, inject a fault, reconcile | the same services |
| Web dashboard (`apps/web/src`) | what a page has loaded, its overrides, sheets and spinners; the panel's store | poll, reload, replay, resolve, run a demo action | the API |

What is hard about it: every handler is a sequence of reads and writes to three stores with no transaction
around them; the process may die between any two; a call may land and its answer be lost; webhooks are lost,
late and out of order; people change both sides meanwhile; and each of the bridge's own writes is announced
back to it. Requests to the ledger lock nothing; requests to QuickBooks share one row of rotating tokens; the
loops are stopped by flags and promises; and the dashboard acts on answers that were true when they were sent.

What makes each part correct, and the properties that say so:

- **Outbox**: one worker at a time runs an event (`NoDoubleProcessing`); done means carried out, dead means
  out of attempts or refused for good (`FinishedWasServed`, `DeadLettersAreEarned`); every event is settled
  in the end (`EventuallySettled`); a crash costs one attempt and nothing else (`CrashCostsOneAttempt`).
- **Handlers and links**: one invoice per invoice (`NoDuplicateInvoice`); nobody's edit is overwritten unseen
  (`PushKeepsQboEdits`, and `PullKeepsInternalEdits`, which fails); both sides differ only if that is held as
  a conflict or can be found, or a skip took the change over (`DivergenceIsVisible`); a held conflict is held
  (`HeldConflictIsHeld`) and is real (`ConflictsAreReal`); deletes arrive (`DeletedIsVoided`, which fails, and
  `DeletionsArrive`, which names the two ways they do not); own echoes end (`EchoesDieOut`).
- **Reconciler**: it recovers what webhooks lost, and the sides come together or a person is asked (`Converges`).
- **Payments, accounts**: one remote record per record (`NothingTwice`), and none forgotten
  (`SettledIsShown`).
- **Ledger**: the balance follows from the payments (`BalanceAddsUp`); a change is announced, or its caller
  knows that it may not have been (`AnnouncementsHold`).
- **Tokens**: a token handed out is good for its call (`TokenOutlivesItsCall`); the stored refresh token is
  the newest, but for pairs that slipped (`LockoutIsEarned`); requests get tokens (`RequestsGetTokens`).
- **Process**: exit 0 means drained (`DrainedMeansDrained`); every invoice QuickBooks tells of is handled
  (`EveryInvoiceIsHandled`), and handled once (`HandledIsNotRepeated`); a signal ends the process
  (`SignalEndsProcess`).
- **Dashboard**: the side picked is of the conflict on the screen (`PickedOnScreen`); a page hides only what
  was done (`OnlyDoneIsHidden`); a demo action runs once at a time (`DemoRunsOnce`); no late answer replaces
  what was asked for (`NoLateAnswer`); polls come true, but for what the page hides (`PollsComeTrue`); spinners
  stop (`SpinnersStop`).

## Modules

| Module | What it is |
|---|---|
| `EventLifecycle` | abstract: the life of one event, with no rows, clocks or workers |
| `Outbox` | the table `sync_events`, the workers' loop statement by statement, replay, crashes, failed statements and time |
| `Conflict` | `analyze` and `actionFor` as operators |
| `InvoiceSync` | one invoice on both sides, the two handlers, the reconciler, the operator and the people; extends `Conflict` |
| `OneWaySync` | accounts and payments on their one way to QuickBooks: the two handlers, the ledger's side of them and the people |
| `InternalLedger` | the ledger's requests over one invoice, statement by statement, with its payments, its change feed and its webhook up to the bridge's insert |
| `BridgeProcess` | one process after another: worker's loop, reconciler's loop, LISTEN, webhook requests, shutdown and restarts |
| `OAuthTokens` | the row of tokens, the requests that take and refresh them, the consent visit, and time |
| `Console` | the pages in an operator's browser, `useApi`, and the API behind it; `EventLifecycle` (as `Life`) says what the bridge does to an event meanwhile |
| `Outbox_proofs`, `Conflict_proofs`, `InvoiceSync_proofs`, `OneWaySync_proofs`, `InternalLedger_proofs`, `BridgeProcess_proofs`, `OAuthTokens_proofs`, `Console_proofs` | theorems about the module of that name, with their proofs |
| `MCOutbox`, `MCInvoiceSync`, `MCOneWaySync`, `MCInternalLedger`, `MCBridgeProcess`, `MCOAuthTokens`, `MCConsole` | model values, situations and symmetry for TLC |

How they fit together. An event's life is told at four distances: `Outbox` has its row and its lease,
`EventLifecycle` the promise that the row keeps, `InvoiceSync` and `OneWaySync` what running it does (their
queue counts events, and a failure puts one back or buries it, as the promise allows), and `BridgeProcess`
the loop it is run from. `InternalLedger` ends where the outbox begins, and `Console` looks at the tables
through the abstract life.

Definitions whose comment begins with "Wrong" are versions of the definition after them with a bug a change
of the code could bring in. No specification uses them; each was put in the place of the right one once, to
see that the property it is meant for fails.

### Outbox

One database statement is one action; a worker's position in `processOne` is `pc[w]`, and what it has read
is in `cur`, `tries`, `err` and `spent`. `claimNext` is two statements, `Claim` (the UPDATE, which takes the
oldest workable row) and `LoadClaimed` (the SELECT, from which `event.attempts` comes). `WriteDone` is
inside the `try`, so `WriteDoneFails`, landed or not, goes on in the catch block. There, `WriteAudit` comes
first and may throw out of `processOne` (`AuditFails`), and `Settle` buries the event or puts it back.
`Crash` drops the locals and leaves the row. `replayEvent` is `ReplayCheck` and `ReplayWrite`.

The clock is in relative times (`due`, `age`, `spent`) that one `Tick` moves together. The backoff counts
from the time `processOne` read its clock, hence `spent`. `Prompt` is the assumption that a run is over
before its lease is; nothing in the code enforces it: with `Prompt = FALSE` and two
workers `NoDoubleProcessing` fails, as a run that outlives its lease is claimed by the other worker and runs
twice at once.

`served` and `fresh` are history: whether a run that began after the event was last asked for ended, and
how. `Retract` in `EventLifecycle` is there for the code's sake: the write of `done` may land and throw, and
the catch block may then find the attempts used up.

### InvoiceSync

One database or HTTP call of a handler is one action; what it has read stays in `job[w]`, `rec` or `op`.
`pc` names the call that comes next. `AfterLink`, `AfterLinkByQbo` and `Decide` are the handlers' branches
between calls. Correspondence in brief: `TakeForward`, `ForwardLink`, `ForwardRead` | `ForwardFind`,
`ForwardPush` | `ForwardCreate`, `Save` follow `processInternalToQbo` from top to bottom, with `ReadToVoid`
and `ForwardVoid` for deletes; `TakeReverse`, `ReverseLink`, `ReverseRefetch`, `ReverseApply` |
`ReverseRemove`, `Save` follow `processQboToInternal`; `SaveSkip` and `Mark` are the other two link writes
of both. The reconciler's actions (`Rec...`) and the operator's (`Resolve...`, `InternalWins`,
`QuickbooksWins`) are in the order of their code.

QuickBooks is modelled from how the code uses it: a write names a SyncToken and is refused when it is not
the current one (a 400, which is permanent); a create with a Request-Id it has served answers with the
invoice made then; a void zeroes the amount and leaves a mark that later updates keep; each change is
announced.

Abstractions, and why they lose nothing the properties speak of:

- Amounts are values that are compared and copied. Status `open` stands for open, partially paid and paid,
  which the bridge never tells apart; the payments' effect on the hash is kept (`paid`).
- The queue counts events per subject. A handler refetches and reads of the event only whom it is about.
- Attempts are not counted: a failure puts the event back, or with `Exhaustible` may bury it at any failure.
  The outbox itself is the other module's subject.
- `upsertLink` and the service functions are one step each (a SELECT and a write in the code; `InternalLedger`
  has the service functions' statements apart). With one worker nobody else writes a link except the
  reconciler and the operator; with two, the models allow fewer interleavings than the code.
- A claim and the handler's first read are one step, as are the reconciler's read of QuickBooks and the
  enqueueing that depends on it: nothing between them touches what the step reads or writes, except that the
  step is earlier.
- `Overlap = FALSE` keeps a worker from starting between the reconciler's look at the outbox and its link
  write. The code does not prevent it, though the comment at `bridge/reconcile.ts:28` says that the reconciler
  must not flag while a worker runs: the worker pushes over the conflict just flagged. The passing runs with
  the reconciler assume that it does not happen, so that they say something about the rest. With the switch
  on, `DivergenceIsVisible` fails within the bounds of `InvoiceSync_lossy`. `HeldConflictIsHeld` does not
  need the switch off: it names the handler that goes by an older link as its exception (`RelinkedMeanwhile`),
  and `ConflictsAreHeld` proves that there is no other.
- What the properties except is named and defined: `Skipped`, a change whose hash a skip of the reverse
  handler recorded; `LinkWasLost`, an invoice deleted before the retry of its create; `RelinkedMeanwhile`.
- `EditsDeleted = FALSE`: nobody edits a deleted invoice in the ledger. The API allows it, and an edit
  revives the invoice; with the switch on, the `InvoiceSync_edits` run fails.
- A person's edit changes the amount. Voids in QuickBooks cannot be undone. One operator resolves at a time.

### OneWaySync

As in `InvoiceSync`, one database or HTTP call is an action and `pc` names the next: `Take`, `PaymentLink`,
`InvoiceLink`, `PaymentCreate`, `PaymentSave` follow `processPaymentToQbo`; `Take`, `AccountLink`,
`AccountRead` | `AccountFind`, `AccountUpdate` | `AccountCreate`, `AccountSave` follow
`processAccountToQbo`. `AccountSave` throws when another account's link has the QuickBooks id (the index
`links_qbo_uq`). Of QuickBooks the module has what the code counts on: names of accounts are unique, a stale
SyncToken is refused, and a Request-Id served before gets the same answer (never forgotten here).

- An account is its name and the rest (`Kinds`), which `hashAccount` tells apart. A payment's amount and
  date never change and are left out. The invoice of a payment gets its link at some time (`LinkInvoice`);
  how is the subject of `InvoiceSync`.
- The queue counts events per subject and gives them in any order. The code takes the oldest workable row, but
  webhooks are posted concurrently and a failed event waits for its backoff.
- Attempts are counted for all events together (`MaxRetries`), and a failure may bury an event at any
  time. What is settled is therefore said of subjects without a dead event.
- No webhook is lost, since nothing recovers one of an account or a payment. People in QuickBooks enter
  accounts and change fields that are not synced; a synced field changed there stays so until the next edit.
- `RenamesUnlinked = FALSE`: an account is not renamed before its link is written.
- The two halves of `NothingTwice` are `OnePaymentEach` and `OneAccountEach`, those of `SettledIsShown`
  `SettledPaymentIsMade` and `SettledAccountIsShown`.

### InternalLedger

A request is `Begin`, `Load` (or `NotFound`), `InsertPayment` for a payment, `WriteRow`, then `emitChange` as
`RecordChange` (the change row), the webhook (`Accepted`, `Refused`) and `MarkDelivered`, after which the
caller gets its answer. `read[r]` is what the request computes from; `UpdatedRow`, `PaidRow` and `DeletedRow`
are the assignments of the UPDATEs, which name the row by its id alone and leave the columns they do not set.
`Accepted` is the bridge's side too: signature, schema, insert by event id. `Fail` is any statement or
connection that throws, `Crash` the process's death.

- One invoice; creation comes first and alone. Amounts are cents. A rename is an update that names no amount.
- The bridge's own write-backs are requests like any other: it calls the same functions.
- `raced` remembers that a row was written by a request that had read an older one; `BalanceAddsUp` promises
  nothing after that, because the code does not: of a payment and an edit at once, the later write wins.
- `credited` sums the payments that reached the balance; `unheard` says that the row was written after the
  last new event was inserted; `excused` that a caller was told of a failure or the bridge refused a webhook
  (the sink does not look at the status).

### BridgeProcess

The code between two awaits is one step, so that `pc` of each loop names the await it stands at, and
`current` is the promise of its last pass, which stays rejected while the loop sleeps: `shutdown()` awaits it
later. `Worker...`, `ClaimOne`, `ClaimNothing`, `GoIdle`, `Settle`, `Poll` are `startWorker`; the
reconciler's and the listener's actions are theirs; `Deliver`, `Ingest`, `Respond` are `POST /webhooks/qbo`,
one insert per step; `Signal`, `...Stopped`, `ServerClosed` and `ShutdownRejects` are `shutdown()`. `End`
drops all promises and leaves the row of the event in hand `waiting` for its lease to expire; `Start` is the
next process. `ClaimNothing` and `GoIdle` are apart because a NOTIFY between them finds no idle wait to cut
short.

- An event is absent, pending, held by the worker, waiting (a lease or a backoff) or done; what a handler does
  is not looked at, and dead letters are `Outbox`'s.
- The statement of a claim, and its answer, are one step. A reconciler's pass ends or rejects.
- QuickBooks sends one notification, again and again until it hears a 2xx. Entities that are not invoices are
  passed over.

### OAuthTokens

`Begin`, `HandOut` | `NeedsRefresh`, `Refresh`, `Save`, `Call` are `getValidAccessToken` and the request it is
for; `Connect`, `Callback`, `Exchange`, `SaveVisit` the two OAuth routes. Each request carries its `age`, the
time since its `new Date()`; deadlines are the time that remains, and one `Tick` moves them all. What Intuit
knows is in `pair`: how long it takes the access token (`left`) and how many refresh tokens it has issued
since (`behind`); it takes the last `Honoured` of them. The code assumes nothing about how many that is; with
1, Intuit takes only the newest.

- One company. Scopes, encryption of the columns and formats are left out.
- `slips` is history: pairs that were issued and not kept (a failed save, a lost answer of Intuit's counted
  at the save), or issued while somebody else was at it, since a pair was last kept undisturbed.

### Console

A view is one `useApi` state: what it asks for, what it shows, `loading`, `error` and `stale`. A page mounts
up to two (`SlotAsk`). A read is a GET under way; `live` is the `cancelled` flag of the effect that made it,
turned around. `Poll`, `Serve`, `Count` (the first of the two statements of `getStatus`), `ReadFails`,
`Arrive`, `Reload`, `Filter` are its life. `Go` opens another page: the components' state is dropped and
their requests go on. `Replay`, `ReplayAll`, `CheckReplay`, `Requeue`, `ReplayAnswers` follow the events
pages and `replayEvent`; `Select`, `CloseSheet`, `Pick`, `AskToConfirm`, `Think`, `Resolve`, `CheckResolve`,
`Settle`, `ResolveAnswers` the conflicts page, its sheet and `resolveConflict`; `RunDemo`, `ServeDemo`,
`RefuseDemo`, `DemoAnswers` the demo panel, whose store outlives the pages.

- A row is kept as far as a page acts on it: which events are dead and which links are in conflict.
- `overrides`, `replaying`, `removed`, `sheet` and `running` are the components' states of those names.
  `acted` is history: what the API did since the page was opened.
- The bridge and other operators change the tables by the steps of `EventLifecycle`, by `Flag` and by
  `SettledElsewhere`.
- `PollsComeTrue` is about what a view holds and what its page lists. The page lists less than it holds:
  `overrides` and `removed` hide what was replayed and resolved until the page is left.
- `left` is the situation: how the tables stand when the browser is opened, which pages the operator opens
  and how much of each kind may happen. One of the situations of `Starts` is chosen at the start.

## Runs

Passing runs and what each shows.

| Run | Instance | Shows |
|---|---|---|
| `Outbox_safety` | 2 events, 2 workers, 1 operator, 1 replay, 1 crash, 1 failed statement | `TypeOK`; exclusion (`NoDoubleProcessing`); nothing finished unserved; the price of a crash; dead letters earned; refinement of `EventLifecycle` |
| `Outbox_liveness` | 2 events, 1 worker, 1 crash, 1 failed statement, 1 replay, fair | every event is settled |
| `InvoiceSync_edits` | 1 worker, 2 internal edits, 1 delete, 1 QuickBooks edit, 1 void, 1 touch | `TypeOK`; no pushing over an edit, conflicts real and held, echoes end; deletes arrive and no difference is hidden, but for those a skip took over |
| `InvoiceSync_lossy` | 1 worker, one change (an edit, a deletion, a rename or a payment), 2 lost webhooks, 1 failure or crash, dead letters, reconciler, fair | one invoice; a deletion arrives unless the create's link was lost; the sides come together or a person is asked |
| `InvoiceSync_entries` | 1 worker, 1 invoice entered under our DocNumber, 1 lost webhook, 1 failure, dead letters, reconciler, 1 resolution | matching, flagging and resolving hide no difference |
| `OneWaySync_safety` | 2 accounts, 1 payment, 1 worker, 1 rename, 1 other edit, 1 retry, 1 replay or change in QuickBooks | `TypeOK`; nothing is made twice, no payment before its invoice; a handled account is shown as it is, a handled payment is made |
| `InternalLedger_safety` | 2 requests at a time, 4 in all, amounts 0 to 2, 1 failure, crash or refused webhook | `TypeOK`; balance and status follow from the payments; what is marked delivered is enqueued, and the last write is heard of |
| `BridgeProcess_life` | a notification of 2 invoices and a customer, 1 rejection, 1 signal, 1 failed start, broken LISTEN or lost answer, fair | `TypeOK`; exit 0 is drained; invoices are handled, and once; a signal ends the process |
| `OAuthTokens_life` | 2 requests, 1 visitor, tokens of 4 ticks, a skew of 2, delays of 1, 2 refresh tokens honoured, 2 mishaps, fair | `TypeOK`; tokens outlive their calls; lockouts are earned; requests get tokens |
| `Console_acts` | 12 situations, see below, fair | `TypeOK`; the six properties of the dashboard |

`CHECK_DEADLOCK FALSE` stands where the system may stop: once the bounds on what people do are spent and the
bridge has nothing left to do, `InvoiceSync`, `OneWaySync` and `InternalLedger` stop as a quiet bridge does,
and so does `Console` on a page that is not polled. The others check for deadlock.

Two runs show statements of the documents that the code does not keep:

| Run | What happens |
|---|---|
| `InvoiceSync_pull_race` | an internal edit during a reverse sync is overwritten unflagged (`bridge/reverse.ts:111`, against `README.md:62-65`) |
| `InvoiceSync_delete` | a change in QuickBooks of a field that is not synced makes the reverse handler skip and record the hash of the deleted invoice; the deletion's event then looks like an echo, and the invoice stays open in QuickBooks (`bridge/reverse.ts:100`, against `DESIGN.md:29` and `README.md:62-65`) |

Why the bounds are enough.

- `Outbox`: exclusion and stale writes take two workers and one event; a second event makes the order of
  claims matter. Two attempts are the fewest at which a first failure and a last one differ, and a lease of
  two ticks the shortest with an inside.
- `InvoiceSync`: a conflict takes one change on each side, and a hold that is tested one more. The create and
  one edit are two webhooks to lose, and their two recoveries need two different event ids of the reconciler.
  Three amounts tell the snapshot and two edits apart; where only one side is edited, two do. In
  `InvoiceSync_lossy` people make one change (the constraint `OneChange`, which also lets one of the two
  interchangeable amounts come first, as symmetry would in a run without liveness): losses and failures
  around one change are its question, two changes that meet are `InvoiceSync_edits`'s. Two QuickBooks
  ids are needed for a duplicate, and for a match with more than one candidate (a create that landed, its
  link lost and its event dead, beside an entered invoice).
- `OneWaySync`: two accounts and two names let one account take the other's old name, and a third QuickBooks
  id is one that a person entered.
- `InternalLedger`: two requests are enough to write over each other; a create, a payment, an edit or a
  deletion, and one more request are the shortest history that takes a balance down and up again. Amount 0
  is an invoice paid from the start.
- `BridgeProcess`: two invoices let a notification fail half way, and something that is no invoice makes the
  loop pass over it. One of each mishap meets every await, alone and with a signal; each restart needs a
  cause, so more of them only repeat the history.
- `OAuthTokens`: in four ticks a token is fresh, due for refresh and expired; a skew of two delays is the
  least that `SkewCoversDelays` allows. With two refresh tokens honoured one slip is forgiven and two are not.
- `Console`: one situation per question. `Polls`, `Overview`, `Addresses` and `FailedPoll` are about reads: two
  of one view overtaking each other, one that finds its page gone, the two statements of the status, each
  address a detail page can have, a poll that fails. `Replays` replays two events together, `OneReplay` one
  that dies again. `TwoSheets`, `TwoSides`, `Reopened` and `Unresolved` resolve two conflicts, one for either
  side at once, one that comes back and one whose request fails. `Demo` runs two actions at a time, `Stuck`
  one that finds nothing it can edit. Every situation is explored with all interleavings; the budgets are
  separate because together they multiply states and ask nothing new, except what two acts of different
  kinds do to each other's page, and they live on different pages.

### Behaviour that the passing runs keep out, or their properties except

Met while choosing bounds or reading the code beside the documents. Most are steps or values of the models
that a bound, a switch or a condition of a property excludes.

Outbox and process:

- `claimNext` reclaims a row whatever its attempts, so an event that kills its process is claimed for ever
  (`CrashCostsOneAttempt` says how much each claim beyond the limit costs, and the limit is not one on
  claims).
- `replayEvent` checks the status in one statement and writes in the next (`observability/queries.ts:153`): a
  replay that a worker's claim comes between is answered and forgotten when that worker settles the row. It
  takes a replay of a pending row, which `ReplayFrom` leaves out.
- A pass that fails during shutdown, or failed just before and is not yet followed by another, makes
  `shutdown()` reject (`index.ts:163`), and the process ends undrained, while `DESIGN.md:28` says SIGTERM
  drains. `DrainedMeansDrained` is what exit code 0 promises.

Handlers:

- Two workers with events of two versions of one unlinked invoice both find nothing and create it twice (the
  Request-Id carries the version and tells only creates of one version apart); two workers on the two
  directions of a linked one can leave an older version in the link and set off each other's echoes.
  `startWorker` runs one loop per process, so this takes two processes.
- The first sync adopts an invoice that a person entered under the same DocNumber, and writes its amount
  over it (`bridge/processor.ts:177`).
- The reverse handler's skip records the hash of an internal edit as synced, and the edit is never pushed
  (`bridge/reverse.ts:100`). The runs have this: `DivergenceIsVisible`, `DeletionsArrive` and `Converges` except
  it by name (`Skipped`), and `InvoiceSync_delete` shows it.
- A create whose link write was lost, followed by a delete, leaves the QuickBooks invoice open
  (`bridge/processor.ts:113`, against `DESIGN.md:29`). `InvoiceSync_lossy` has this; `DeletionsArrive` and
  `Converges` except it by name (`LinkWasLost`).
- An operator who keeps the internal side of a conflict whose invoice was deleted meanwhile pushes its amount and
  has the link say in sync, and the invoice stays open (`bridge/resolve.ts:44`). No run has both a deletion
  and a resolution.
- Several matches for an unlinked invoice leave an audit row and nothing an operator can resolve.
- After a push that landed and whose link write did not, another edit makes the bridge's own write look like
  a change in QuickBooks, and the link goes into conflict; `ConflictsAreReal` is checked without failures.
- A conflict whose QuickBooks side was voided can be resolved for the internal side: one side is terminal,
  the other open.
- A deletion between the reverse handler's read and its write is undone, as `updateInvoice` derives a live
  status.
- An account created under another's old name is matched by that name and written over the other's
  QuickBooks account when their events come in the other order (`bridge/accounts.ts:57`, against
  `DESIGN.md:31`). The index refuses the second link and the renamed account's own event puts its account
  right, which is what `SettledAccountIsShown` shows.
- An update of an account that landed and whose link write did not, followed by the change back: the link's
  old hash matches, the event is dropped, and QuickBooks keeps the value in between (`SettledAccountIsShown`
  fails with two renames and a retry; the reconciler does not look at accounts). It takes a value that comes back.
- An account created in QuickBooks whose link write was lost and which is then renamed is created twice
  (`OneAccountEach` fails with `RenamesUnlinked = TRUE`).
- With two workers on one account the older row may be written last, and stays.
- A payment whose invoice stays unlinked dies with its attempts, while `bridge/payments.ts:43-44` says "retry
  until it does (a transient error, not a dead-letter)".

Ledger and tokens:

- A payment and an edit at once: both read the row, and the later write undoes the other's balance
  (`internal/service.ts:154`, `:199`). The payment's row stays, and `DESIGN.md:30` derives the balance from
  the payments. `BalanceAddsUp` is said of histories without such a race.
- A change that the bridge refuses is marked delivered: the sink does not look at the status of the answer.
- A 401 does not refresh the token, whatever the comment at `qbo/client.ts:44-45` suggests; the skew is what
  keeps one from happening. Two requests that find the token due refresh both; the one that is answered last
  but saved first leaves the older refresh token in the row, which counts as a slip.

Dashboard:

- `overrides` and `removed` are never cleared: an event that dies again after its replay, or a conflict that
  comes back, stays hidden until the page is left.
- The answer to a resolution closes the sheet that is open, also when it is another conflict's. Escape closes
  the dialog while its request is under way, and the other side can be resolved too; both requests may pass
  the status check, and both are told resolved.
- The answer to any replay stops the spinner of any other.
- The events page has the newest 100 events: an older dead one is counted on the overview and listed nowhere
  (`Events` are the rows among those 100).
- "Run reconcile" on the overview only reloads the two views. "View event" on the audit page links to an
  event by its text id, which the API does not take.
- The injected fault of the demo is taken by whichever event writes next, not by the one announced as its
  victim; in the sync modules a failure may meet any call.

### Fairness

- `Outbox`: weak fairness of each worker's next step (`startWorker` loops until it is stopped, and on an
  error sleeps and goes on), of an answer to a replay that was begun, and of the clock. Not of anything that
  goes wrong, nor of a replay being asked for.
- `InvoiceSync`: of the delivery of a webhook that is not lost, of each worker's loop, of the reconciler's
  (`startReconciler` runs a pass every five minutes), and of a request that was begun. People are not fair.
- `BridgeProcess`: the platform starts a process for one that ended; timers fire and calls return; QuickBooks
  sends a notification that was not answered again; a lease runs out. Nothing is assumed of LISTEN except
  that a connection being closed ends, so that no event's handling rests on a wake.
- `OAuthTokens`: requests go on, and one that failed is tried again (the worker's backoff, the next pass of
  the reconciler); a visit that has its pair saves it. Nobody need visit, time need not pass, and a request
  may lose every race: `RequestsGetTokens` promises that some request gets a token.
- `Console`: the browser's timer fires, and a request under way ends. Nothing is assumed of the bridge or of
  operators.

## Proofs

Each holds for every value of the constants that the module's assumptions allow, and for any bounds.

`Outbox_proofs`, for any sets of events and workers and any limits:

- `OutboxTypeOK`: the types, with no assumption beyond those in `Outbox`.
- `Exclusion`, `NothingFinishedUnserved`, `DeathsEarned`, `Implementation`: assume `Orderly`, that is
  `Prompt`, replays asked for of dead rows only (or refused, of rows in processing) and at most one replay
  at a time. Each conjunct is needed: without it a run that outlives its lease, a replay of a pending row
  that is claimed meanwhile, or a second operator's late write breaks the property. The inductive invariant
  `IInv` says more than the properties: a worker that
  holds an event holds its lease, by name and with a lease no older than its run (`HoldersAreLeased`), an
  event has one holder (`OneHolder`), a row an operator has checked is still dead (`AskedAreDead`), and what
  a worker has read of its row is still what the row says (`LocalsAreCurrent`). Exclusion alone is not
  inductive: that nobody reclaims the row a worker holds follows from the row's age being at most the
  worker's own time, which is why ages must be in the invariant.
- `CrashCosts`: assumes `Orderly` and a positive `MaxAttempts`; its invariant `AttemptsPaid` charges each
  claim beyond the maximum to a crash or a failed statement that took the lease before away.
- `Implementation`: each action maps to an abstract one or to a stutter, with the invariant excluding the
  steps of a stale holder.

`Conflict_proofs`: an apply overwrites no change; the flag does not depend on which side's event came first;
two sides that differ are never skipped by both.

`InvoiceSync_proofs`, assuming that `None` is no record and no name (`NamesDiffer`, `NoneIsNoRecord`):

- `SyncTypeOK`. Its invariant `TypeInv` says of every place a handler, the reconciler or the operator can
  stand at what they hold there (`JobsFit`, `RecFits`, `OpFits`), and that what they hold exists on both
  sides (`StoresFit`, `StoresAgree`).
- `ConflictsAreHeld`: `HeldConflictIsHeld` with one worker (`Alone`), and with everything else: the reconciler,
  `Overlap`, entries, failures and resolutions. The invariant `Hold` says that a handler on its way to a write
  has read no link, or one that is linked; that, if the reconciler has no way to flag a link behind a handler
  (`Calm`), the link still is so; and that the reconciler has a candidate only while the invoice has no link.
  Where it is not `Calm`, the exception `RelinkedMeanwhile` takes over.
- `CreatesOneInvoice`: `NoDuplicateInvoice` with one worker (`Alone`), whatever else happens. The invariant
  `CreatedOnce` says that only one invoice carries a Request-Id of ours, and that none does while the worker is
  about to create: its search by DocNumber has just come back empty.

The other theorems of the module share `Core`, which holds in an `Orderly` system: one worker, no failures
(`MaxFaults = 0`), no entries under our DocNumber (`MaxEntries = 0`), and a reconciler that does not run, or
that no worker starts behind between its look at the link and its match (`~Overlap`). It says that there is one
invoice in QuickBooks at most, that only the handler that created it is between it and its link, and that what a
handler has read of link and invoice is the link, and a version the invoice has or had. Each condition keeps a
step out that breaks a property: a create that landed and failed is adopted and written over when it is tried
again, and so is an invoice that was entered; another worker, or the reconciler's match, writes a link behind a
handler's back. `EndCore` adds what being deleted or voided means for every handler under way. Edits of a
deleted invoice are out (`~EditsDeleted`) wherever it is used, and so is an operator's resolution (`MaxResolves = 0`),
whose link write between a handler's read and its push changes the snapshot, except in `FlagsAreReal`,
where an operator comes only after a flag.

- `PushesKeepEdits`: `PushKeepsQboEdits`, from `Core` alone. A push is over the snapshot it was decided by,
  and QuickBooks' version check turns it away when a person was faster.
- `FlagsAreReal`: `ConflictsAreReal`. Its invariant `RealInv` follows the two sides apart: as long as people
  have not changed the internal side, everything under way shows the link's snapshot there, and likewise
  for QuickBooks.
- `DivergenceShows`: `DivergenceIsVisible`, for any number of changes in QuickBooks, lasting or not.
  `VersionCore`: the link's version is not ahead of QuickBooks', and where it is QuickBooks' own, the invoice
  there shows the link's snapshot.
- `EchoesAreBounded`: `EchoesDieOut`, for any number of touches, edits, and lost webhooks. `EchoCore` keeps
  accounts: of the internal version and QuickBooks' versions the link has not `Seen`, and of QuickBooks' versions
  and the pushes that the internal side is still `Owed`. Each sum is at most the number of writes people made. A
  push pays for itself with what was owed, a pull with what was not seen, and an echo gate can pass only while
  there is something to pay with.

One more theorem rests on `Hold` and allows failures:

- `DeletionsReach`: `DeletionsArrive` in a system that is `Reaching`: one worker, with failures, crashes and
  retries at any step, any changes on both sides, also of the deleted invoice, and a reconciler that does not
  come between a worker's reads; nobody enters an invoice under our DocNumber or resolves a conflict. The
  invariant `Gone` says that while a deleted invoice is open in QuickBooks its event is coming, being handled or
  dead, or one of the two exceptions has happened, and that a handler at work on an earlier state of the invoice
  has that event coming behind it. Resolutions are out because of the step at `bridge/resolve.ts:44`, entries
  because the property asks for every invoice under our DocNumber, and the bridge voids only the one it has
  linked.

`OneWaySync_proofs`, with the assumptions `NoneIsNone`, `NoneIsNoRecord`, `SubjectsDiffer`:

- `OneWayTypeOK`, from an invariant that says what a job holds where it stands.
- `PaymentsOnce` and `PaymentsAreNotForgotten`, from `PaymentInv`: the payments in QuickBooks were recorded
  and their invoices are there; a link is of a payment that is made; a worker past the create has made it;
  and a payment neither made nor dead has an event in the queue or in hand. For any number of workers,
  retries and replays.
- `AccountsOnce`: `NothingTwice`, with one worker and accounts that are renamed only once they are linked
  (`OneAtATime`), for any number of tries and replays. What was made for an account without a link carries
  the name its next create looks for. Without the second condition an account can be created twice,
  as listed above.
- `SettledIsWhatIsShown`: `SettledIsShown`, as long as, besides, no account goes back to a name or kind it had
  before: the steps follow an order of each account's names and kinds (`Onward`), of which any strict one
  will do. `SettledInv` says that link, QuickBooks, the job and the row follow one another in that order, and that
  an event is pending while the row is ahead. The run takes one change of each kind, which is always such
  a history.

`InternalLedger_proofs`, with `AmountsAreNaturals` and `BoundsAreNaturals`, for any number of requests:

- `LedgerTypeOK`, `BalanceHolds` (the halves of the property are inductive only together: what may be taken
  off depends on the status that goes with the balance), and `AnnouncementsAreTrue`, whose invariant adds
  that two requests never hold the same change, and that an unheard write without an excuse has a request
  still on its way to announce it (`WriterIsAtIt`).

`BridgeProcess_proofs`, with `InvoicesAreEntities`, `NotificationLists`, `BoundsAreNaturals`, for any
notification:

- `ProcessTypeOK`; `Drained` and `NothingLate` (no event is claimed once the worker's `stop()` has
  resolved), from what each promise says of the place its loop stands at (`PromisesFit`) and the order in
  which the loops are stopped (`StopsInOrder`); `HandledOnce`.
- `EventsLive`: the process, with its restarts and QuickBooks' repeated notifications, implements
  `EventLifecycle` with a held event running and one that waits for its lease queued, as the outbox does with its
  rows. It needs that one event is held at a time (`OneHeld`).

`OAuthTokens_proofs`, with `TimesAreNaturals`, `HonouredIsPositive`, `SkewCoversDelays`, for any number of
requests:

- `TokensTypeOK`; `TokensOutliveCalls`, from an invariant that bounds how far the row's expiry is off and how
  long a token in hand still lives; this is where the skew has to cover two delays, one before the row was
  written and one after it was read; `LockoutsEarned`, from one that charges every newer refresh token to a
  slip or to somebody who is about to save.

`Console_proofs`, with `NoneIsNobody` and `SituationsFit`, for any events, conflicts and situations:

- `ConsoleTypeOK` and `ChosenOnScreen`, from one invariant `TypeInv`: a wanted read was made by the view that
  still waits for it (`ReadsFit`), the sheet's view asks about the sheet's conflict (`SideIsOfItsAsk`), what a
  page holds goes with the page (`PageFits`). `LateAnswersAreDropped` follows from it step by step.
- `HiddenIsDone`, with the added invariant that an answered request that says done was done since the page
  was opened, if the page is still there; `DemoIsTold`, which is about what the browser has under way:
  `WriteFails` ends a request and with it what the API does for it.

Only model-checked:

- Liveness, which is out of TLAPS' reach: `EventuallySettled`, `Converges`, `EveryInvoiceIsHandled`,
  `SignalEndsProcess`, `RequestsGetTokens`, `PollsComeTrue`, `SpinnersStop`.
- What a run has beyond the hypotheses of the theorem: `DivergenceIsVisible` where an invoice was entered, a
  call fails, a webhook is lost and an operator resolves (`InvoiceSync_entries`). There `Core` does not hold: an
  adopted invoice is linked without having been created, and a link can be another one than a handler read.

## Not modelled

- HTTP, signatures, authentication, parsing and formatting, spans and logs (`server.ts`, `auth.ts`,
  `telemetry.ts`): they keep no state that the bridge decides by. That a request is refused is modelled where
  it matters.
- The append-only audit rows: nothing reads them back to decide. That writing one may fail is modelled.
- The read-only pages and queries beyond what a page acts on, layout and wording, the paging of rows, toasts,
  the design page.
- Two operators in `InvoiceSync`: which side wins is up to the order of two people, and the loser's write is a
  change like any other. `Console` has both requests, without figures.
- The demo's fault budget: a failure may meet any call of the sync modules.

Hazards that no property forbids, and why:

- What the code means to do, or leaves open: the adoption of a match by DocNumber (`bridge/processor.ts:177`),
  several matches (`bridge/reconcile.ts:106`), two operators (`bridge/resolve.ts:32`), a lost webhook of a
  payment or an account (`bridge/reconcile.ts:90`), an event of the reconciler that died
  (`bridge/reconcile.ts:43`).
- What goes wrong in the code and the models have, as an exception named in a property or a switch the passing
  runs leave off: a run that outlives its lease (`bridge/worker.ts:81`), two workers
  (`bridge/processor.ts:173`), a worker that starts behind the reconciler's look (`bridge/reconcile.ts:93`), the
  lost link of a create that is then deleted (`bridge/processor.ts:113`), a resolution of a deleted invoice
  (`bridge/resolve.ts:44`), requests to the ledger that write over each other (`internal/service.ts:199`), an
  account that is changed back (`bridge/accounts.ts:39`).
- Two QuickBooks changes that share an event id (`bridge/qbo-ingest.ts:51`) amount to a lost webhook.
