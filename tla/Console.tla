--------------------------------- MODULE Console ---------------------------------
(***************************************************************************)
(* The dashboard in an operator's browser and the API behind it: the hook  *)
(* through which every page reads (useApi), the pages that act on what     *)
(* they show (replay of dead events, resolution of conflicts), and the     *)
(* routes that read the tables and carry the acts out.  The bridge goes on *)
(* working meanwhile: EventLifecycle says what it does to an event, and a  *)
(* conflict may be flagged, or settled by somebody else, at any time.      *)
(*                                                                         *)
(* A row of an answer is kept only as far as a page acts on it: which      *)
(* events are dead, which links are in conflict.                           *)
(***************************************************************************)
EXTENDS Naturals, FiniteSets

CONSTANTS
  Events,      \* the rows of sync_events, all of them among the newest 100
  Links,       \* the fully mapped links of invoices
  Sides,       \* the sides of a conflict
  DemoActions, \* the buttons of the demo panel
  None,        \* the null of the browser
  Starts       \* situations: how the tables may stand when the browser is opened
               \* and how much may happen then

ASSUME NoneIsNobody == None \notin Events \cup Links \cup Sides \cup DemoActions

Pages == {"overview", "events", "conflicts", "invoices", "event", "invoice"}

Situations == [dead : SUBSET Events, conflict : SUBSET Links, bury : Nat, flag : Nat,
               mishap : Nat, demos : Nat, reads : Nat, late : Nat, writes : Nat,
               pages : SUBSET Pages]

ASSUME SituationsFit == Starts \subseteq Situations

VARIABLES
  stage,      \* sync_events: where each event stands
  conflict,   \* links: the rows whose status is conflict
  path,       \* the page that is open, and the id in its address
  view,       \* its two useApi states: the page's list, and a detail beside it
  reads,      \* GET requests under way
  writes,     \* POST requests under way
  overrides,  \* events this page shows as processing since it replayed them
  replaying,  \* the event whose Replay button spins
  removed,    \* conflicts this page resolved and no longer lists
  sheet,      \* the sheet of a conflict, with its confirmation dialog
  running,    \* demo actions that run; the page and the panel share the store
  acted,      \* ghost: what the API requeued or settled since the page was opened
  left        \* the situation: how often the bridge may still bury, and flag, and
              \* something fail, and a demo action be run; it bounds the reads of a
              \* view, the reads for views that are gone, the writes under way and
              \* the pages the operator opens

server  == <<stage, conflict>>
local   == <<overrides, replaying, removed>>
vars    == <<server, path, view, reads, writes, local, sheet, running, acted, left>>

Life == INSTANCE EventLifecycle
--------------------------------------------------------------------------------
(***************************************************************************)
(* What can be asked of the API, and what it answers.                      *)
(***************************************************************************)
Ask(what, of) == [what |-> what, of |-> of]
NoAsk         == Ask("nothing", None)

EventAsks == {Ask("event", e) : e \in Events}
LinkAsks  == {Ask("link", l) : l \in Links}
SheetAsks == {Ask("conflict", l) : l \in Links}
ListAsks  == {Ask(w, None) : w \in {"events", "conflicts", "links", "links in conflict"}}
Asks == {NoAsk, Ask("status", None)} \cup ListAsks \cup EventAsks \cup LinkAsks \cup SheetAsks

NoRows == [dead |-> {}, conflict |-> {}]
Rows   == [dead : SUBSET Events, conflict : SUBSET Links]

Dead == {e \in Events : stage[e] = "dead"}

\* getStatus, listEvents, getEvent
DeadIn(ask) == CASE ask.what \in {"status", "events"} -> Dead
                 [] ask.what = "event"                -> Dead \cap {ask.of}
                 [] OTHER                             -> {}

\* getStatus, listConflicts, getConflict, listLinks, getLink
ConflictsIn(ask) ==
  CASE ask.what \in {"status", "conflicts", "links", "links in conflict"} -> conflict
    [] ask.what \in {"conflict", "link"}                                  -> conflict \cap {ask.of}
    [] OTHER                                                              -> {}

Answer(ask) == [dead |-> DeadIn(ask), conflict |-> ConflictsIn(ask)]

\* 404: the link of a conflict's sheet is no longer in conflict.
NotFound(ask) == ask.what = "conflict" /\ ask.of \notin conflict
--------------------------------------------------------------------------------
(***************************************************************************)
(* useApi: a view is a state of the hook.                                  *)
(***************************************************************************)
Slots == {"list", "side"}

Nothing == [of |-> NoAsk, rows |-> NoRows]
Data    == [of : Asks, rows : Rows]

Fresh(ask) ==
  [ask |-> ask, data |-> Nothing, loading |-> TRUE, error |-> FALSE, stale |-> FALSE]

Load(s, ask, silent) ==
  [slot |-> s, ask |-> ask, silent |-> silent, live |-> TRUE, at |-> "sent", rows |-> NoRows]

Loads(s, ask) == IF ask = NoAsk THEN {} ELSE {Load(s, ask, FALSE)}

\* The cleanup of an effect: what it asked for is on its way, and of no use.
Cancelled(S) == {[c EXCEPT !.live = @ /\ c.slot \notin S] : c \in reads}
FewAreLate(S) == Cardinality({c \in Cancelled(S) : ~c.live}) <= left.late

Polled(ask) == ask.what \in {"status", "events", "conflicts"}

LiveReads(s) == {c \in reads : c.slot = s /\ c.live}
--------------------------------------------------------------------------------
(***************************************************************************)
(* The pages, and the views each of them mounts.                           *)
(***************************************************************************)
Path(page, of) == [page |-> page, of |-> of]

Paths == {Path(p, None) : p \in {"overview", "events", "conflicts", "invoices"}}
         \cup {Path("event", e) : e \in Events} \cup {Path("invoice", l) : l \in Links}

\* The overview has two views, its recent events and its counts.
ListAsk(p) == CASE p.page \in {"overview", "events"} -> Ask("events", None)
                [] p.page = "conflicts" -> Ask("conflicts", None)
                [] p.page = "invoices"  -> Ask("links", None)
                [] OTHER                -> NoAsk

SideAsk(p) == CASE p.page = "overview" -> Ask("status", None)
                [] p.page = "event"    -> Ask("event", p.of)
                [] p.page = "invoice"  -> Ask("link", p.of)
                [] OTHER               -> NoAsk

NoSheet == [id |-> None, winner |-> None, shown |-> None, confirm |-> FALSE, resolving |-> FALSE]

SlotAsk(p, s) == IF s = "list" THEN ListAsk(p) ELSE SideAsk(p)
Mounted(p)    == [s \in Slots |-> Fresh(SlotAsk(p, s))]
FirstLoads(p) == UNION {Loads(s, SlotAsk(p, s)) : s \in Slots}

Init ==
  /\ left \in Starts
  /\ stage = [e \in Events |-> IF e \in left.dead THEN "dead" ELSE "absent"]
  /\ conflict = left.conflict
  /\ path \in {p \in Paths : p.page \in left.pages}
  /\ view = Mounted(path) /\ reads = FirstLoads(path)
  /\ writes = {} /\ overrides = {} /\ replaying = None /\ removed = {} /\ sheet = NoSheet
  /\ running = {} /\ acted = {}

\* Wrong: the panel keeps what runs in the page, which forgets it.
GoForgets(p) ==
  /\ p # path /\ p.page \in left.pages
  /\ FewAreLate(Slots)
  /\ path' = p
  /\ view' = Mounted(p)
  /\ reads' = Cancelled(Slots) \cup FirstLoads(p)
  /\ writes' = {[w EXCEPT !.page = FALSE, !.sheet = FALSE] : w \in writes}
  /\ overrides' = {} /\ replaying' = None /\ removed' = {} /\ sheet' = NoSheet
  /\ acted' = {} /\ running' = {}
  /\ UNCHANGED <<server, left>>

\* What a page holds, its views included, goes when another is opened; its requests
\* go on without it.  The palette, the sidebar and the rows of a list all come here.
Go(p) ==
  /\ p # path /\ p.page \in left.pages
  /\ FewAreLate(Slots)
  /\ path' = p
  /\ view' = Mounted(p)
  /\ reads' = Cancelled(Slots) \cup FirstLoads(p)
  /\ writes' = {[w EXCEPT !.page = FALSE, !.sheet = FALSE] : w \in writes}
  /\ overrides' = {} /\ replaying' = None /\ removed' = {} /\ sheet' = NoSheet
  /\ acted' = {}
  /\ UNCHANGED <<server, running, left>>
--------------------------------------------------------------------------------
(***************************************************************************)
(* The life of a read.                                                     *)
(***************************************************************************)
\* Wrong: a view that shows an error is polled no more.
PollUntilError(s) ==
  /\ Polled(view[s].ask) /\ ~view[s].error
  /\ Cardinality(LiveReads(s)) < left.reads
  /\ reads' = reads \cup {Load(s, view[s].ask, TRUE)}
  /\ UNCHANGED <<server, path, view, writes, local, sheet, running, acted, left>>

\* setInterval
Poll(s) ==
  /\ Polled(view[s].ask)
  /\ Cardinality(LiveReads(s)) < left.reads
  /\ reads' = reads \cup {Load(s, view[s].ask, TRUE)}
  /\ UNCHANGED <<server, path, view, writes, local, sheet, running, acted, left>>

Moves(c, d) == reads' = (reads \ {c}) \cup {d}

ReadOnly == UNCHANGED <<server, path, view, writes, local, sheet, running, acted>>

\* getStatus counts the events in one statement and the conflicts in a later one.
Count(c) ==
  /\ c.at = "sent" /\ c.ask.what = "status"
  /\ Moves(c, [c EXCEPT !.at = "counted", !.rows.dead = DeadIn(c.ask)])
  /\ ReadOnly /\ UNCHANGED <<left>>

RowsFor(c) == IF c.at = "counted" THEN [Answer(c.ask) EXCEPT !.dead = c.rows.dead]
              ELSE Answer(c.ask)

Serve(c) ==
  /\ \/ c.at = "sent" /\ c.ask.what # "status"
     \/ c.at = "counted"
  /\ Moves(c, IF NotFound(c.ask) THEN [c EXCEPT !.at = "failed"]
              ELSE [c EXCEPT !.at = "served", !.rows = RowsFor(c)])
  /\ ReadOnly /\ UNCHANGED <<left>>

Spend(kind) == left[kind] > 0 /\ left' = [left EXCEPT ![kind] = @ - 1]

Mishap == Spend("mishap")

\* fetch throws, the route answers 500, or the answer does not parse.
ReadFails(c) ==
  /\ c.at # "failed" /\ Mishap
  /\ Moves(c, [c EXCEPT !.at = "failed", !.rows = NoRows])
  /\ ReadOnly

Loaded(c) == [view[c.slot] EXCEPT !.data = [of |-> c.ask, rows |-> c.rows],
                                  !.loading = FALSE, !.error = FALSE, !.stale = FALSE]

NotLoaded(c) ==
  [view[c.slot] EXCEPT !.data = IF c.silent THEN @ ELSE Nothing,
                       !.loading = FALSE, !.error = TRUE,
                       !.stale = c.silent /\ view[c.slot].data # Nothing]

\* Wrong: the answer is shown whatever became of the effect that asked for it.
ArriveAnyway(c) ==
  /\ c.at \in {"served", "failed"}
  /\ reads' = reads \ {c}
  /\ view' = [view EXCEPT ![c.slot] = IF c.at = "served" THEN Loaded(c) ELSE NotLoaded(c)]
  /\ UNCHANGED <<server, path, writes, local, sheet, running, acted, left>>

Arrive(c) ==
  /\ c.at \in {"served", "failed"}
  /\ reads' = reads \ {c}
  /\ view' = IF ~c.live THEN view
             ELSE [view EXCEPT ![c.slot] = IF c.at = "served" THEN Loaded(c) ELSE NotLoaded(c)]
  /\ UNCHANGED <<server, path, writes, local, sheet, running, acted, left>>

\* The Retry button of a view that shows an error, and Run reconcile of the overview,
\* which reloads both its views and asks the reconciler for nothing.
Reload(S) ==
  /\ \/ path.page = "overview" /\ S = Slots
     \/ \E s \in Slots :
          /\ S = {s} /\ view[s].error /\ view[s].ask # NoAsk
          /\ path.page = "overview" => view[s].data = Nothing
  /\ FewAreLate(S)
  /\ view' = [s \in Slots |-> IF s \in S THEN [view[s] EXCEPT !.loading = TRUE, !.error = FALSE]
                                         ELSE view[s]]
  /\ reads' = Cancelled(S) \cup {Load(s, view[s].ask, FALSE) : s \in S}
  /\ UNCHANGED <<server, path, writes, local, sheet, running, acted, left>>

\* Wrong: the filter changes what is asked for and asks nothing.
FilterAsksNothing(what) ==
  /\ path.page = "invoices"
  /\ what \in {"links", "links in conflict"} /\ what # view["list"].ask.what
  /\ view' = [view EXCEPT !["list"].ask = Ask(what, None)]
  /\ UNCHANGED <<server, path, reads, writes, local, sheet, running, acted, left>>

\* The status filter of the invoices page is part of what it asks for: the old rows
\* stay until the new ones arrive.
Filter(what) ==
  /\ path.page = "invoices"
  /\ what \in {"links", "links in conflict"} /\ what # view["list"].ask.what
  /\ FewAreLate({"list"})
  /\ view' = [view EXCEPT !["list"].ask = Ask(what, None)]
  /\ reads' = Cancelled({"list"}) \cup Loads("list", Ask(what, None))
  /\ UNCHANGED <<server, path, writes, local, sheet, running, acted, left>>
--------------------------------------------------------------------------------
(***************************************************************************)
(* Replay.                                                                 *)
(***************************************************************************)
\* `page` and `sheet` say whether the component that waits for the answer is still there.
Request(what, id, side, shown) ==
  [what |-> what, id |-> id, side |-> side, shown |-> shown,
   page |-> TRUE, sheet |-> what = "resolve", at |-> "sent"]

FewRequests(new) == Cardinality(writes \cup new) <= left.writes

\* The dead-letter section of the events page is there when nothing is being loaded and
\* nothing failed.
DeadListed == IF path.page = "events" /\ ~view["list"].loading /\ ~view["list"].error
              THEN view["list"].data.rows.dead \ overrides ELSE {}

\* The page of one event shows what it last had.
DeadOpened == IF path.page = "event" /\ ~view["side"].error
              THEN view["side"].data.rows.dead \ overrides ELSE {}

Replay(e) ==
  /\ e \in DeadListed \cup DeadOpened /\ e # replaying
  /\ FewRequests({Request("replay", e, None, e)})
  /\ replaying' = e
  /\ writes' = writes \cup {Request("replay", e, None, e)}
  /\ UNCHANGED <<server, path, view, reads, overrides, removed, sheet, running, acted, left>>

\* The spinner moves from row to row and stays at the last.
ReplayAll ==
  /\ DeadListed # {}
  /\ FewRequests({Request("replay", e, None, e) : e \in DeadListed})
  /\ replaying' \in DeadListed
  /\ writes' = writes \cup {Request("replay", e, None, e) : e \in DeadListed}
  /\ UNCHANGED <<server, path, view, reads, overrides, removed, sheet, running, acted, left>>

Proceeds(w, v) == writes' = (writes \ {w}) \cup {v}

InApi == UNCHANGED <<path, view, reads, local, sheet, running>>

\* replayEvent reads the row; a 409 refuses what is being processed.
CheckReplay(w) ==
  /\ w.what = "replay" /\ w.at = "sent"
  /\ Proceeds(w, [w EXCEPT !.at = IF stage[w.id] = "running" THEN "refused" ELSE "checked"])
  /\ InApi /\ UNCHANGED <<server, acted, left>>

\* It then writes the row, whatever has become of it.
Requeue(w) ==
  /\ w.what = "replay" /\ w.at = "checked"
  /\ Proceeds(w, [w EXCEPT !.at = "done"])
  /\ stage' = [stage EXCEPT ![w.id] = "queued"]
  /\ acted' = acted \cup {w.id}
  /\ InApi /\ UNCHANGED <<conflict, left>>

\* Wrong: the row is flipped as soon as the API answers anything.
ReplayAnswersAnything(w) ==
  /\ w.what = "replay" /\ w.at \in {"done", "refused", "failed"}
  /\ writes' = writes \ {w}
  /\ replaying' = IF w.page THEN None ELSE replaying
  /\ overrides' = IF w.page THEN overrides \cup {w.id} ELSE overrides
  /\ UNCHANGED <<server, path, view, reads, removed, sheet, running, acted, left>>

\* Wrong: a refused replay leaves the button as it is.
ReplayAnswersGood(w) ==
  /\ w.what = "replay" /\ w.at \in {"done", "refused", "failed"}
  /\ writes' = writes \ {w}
  /\ replaying' = IF w.page /\ w.at = "done" THEN None ELSE replaying
  /\ overrides' = IF w.page /\ w.at = "done" THEN overrides \cup {w.id} ELSE overrides
  /\ UNCHANGED <<server, path, view, reads, removed, sheet, running, acted, left>>

\* Any answer stops the spinner, whichever row it is on.
ReplayAnswers(w) ==
  /\ w.what = "replay" /\ w.at \in {"done", "refused", "failed"}
  /\ writes' = writes \ {w}
  /\ replaying' = IF w.page THEN None ELSE replaying
  /\ overrides' = IF w.page /\ w.at = "done" THEN overrides \cup {w.id} ELSE overrides
  /\ UNCHANGED <<server, path, view, reads, removed, sheet, running, acted, left>>
--------------------------------------------------------------------------------
(***************************************************************************)
(* Resolve.                                                                *)
(***************************************************************************)
Listed == IF path.page = "conflicts" /\ ~view["list"].error
          THEN view["list"].data.rows.conflict \ removed ELSE {}

\* The sheet goes, and its requests go on without it.
Unmounted(ws) == {[w EXCEPT !.sheet = FALSE] : w \in ws}

\* Wrong: the sheet has no key, and another conflict inherits what was chosen for this.
SelectWithoutKey(l) ==
  /\ l \in Listed /\ l # sheet.id /\ FewAreLate({"side"})
  /\ sheet' = [sheet EXCEPT !.id = l]
  /\ view' = [view EXCEPT !["side"].ask = Ask("conflict", l)]
  /\ reads' = Cancelled({"side"}) \cup Loads("side", Ask("conflict", l))
  /\ UNCHANGED <<server, path, writes, local, running, acted, left>>

\* The sheet covers the rows and does not keep the keyboard from them; it is mounted
\* anew for another conflict.
Select(l) ==
  /\ l \in Listed /\ l # sheet.id /\ FewAreLate({"side"})
  /\ sheet' = [NoSheet EXCEPT !.id = l]
  /\ view' = [view EXCEPT !["side"] = Fresh(Ask("conflict", l))]
  /\ reads' = Cancelled({"side"}) \cup Loads("side", Ask("conflict", l))
  /\ writes' = Unmounted(writes)
  /\ UNCHANGED <<server, path, local, running, acted, left>>

CloseSheet ==
  /\ sheet.id # None
  /\ FewAreLate({"side"})
  /\ sheet' = NoSheet
  /\ view' = [view EXCEPT !["side"] = Fresh(NoAsk)]
  /\ reads' = Cancelled({"side"})
  /\ writes' = Unmounted(writes)
  /\ UNCHANGED <<server, path, local, running, acted, left>>

Detail == view["side"].data

Pick(side) ==
  /\ sheet.id # None /\ Detail # Nothing /\ ~sheet.confirm
  /\ sheet' = [sheet EXCEPT !.winner = side, !.shown = Detail.of.of]
  /\ UNCHANGED <<server, path, view, reads, writes, local, running, acted, left>>

AskToConfirm ==
  /\ sheet.winner # None /\ Detail # Nothing /\ ~sheet.confirm
  /\ sheet' = [sheet EXCEPT !.confirm = TRUE]
  /\ UNCHANGED <<server, path, view, reads, writes, local, running, acted, left>>

\* The buttons of the dialog are disabled while the request is under way.
Think ==
  /\ sheet.confirm /\ ~sheet.resolving
  /\ sheet' = [sheet EXCEPT !.confirm = FALSE]
  /\ UNCHANGED <<server, path, view, reads, writes, local, running, acted, left>>

Resolve ==
  /\ sheet.confirm /\ ~sheet.resolving
  /\ FewRequests({Request("resolve", sheet.id, sheet.winner, sheet.shown)})
  /\ sheet' = [sheet EXCEPT !.resolving = TRUE]
  /\ writes' = writes \cup {Request("resolve", sheet.id, sheet.winner, sheet.shown)}
  /\ UNCHANGED <<server, path, view, reads, local, running, acted, left>>

\* resolveConflict reads the link first: 409 unless it is in conflict.
CheckResolve(w) ==
  /\ w.what = "resolve" /\ w.at = "sent"
  /\ Proceeds(w, [w EXCEPT !.at = IF w.id \in conflict THEN "checked" ELSE "refused"])
  /\ InApi /\ UNCHANGED <<server, acted, left>>

\* The winner's side has been applied; the link is linked again, whatever it was.
Settle(w) ==
  /\ w.what = "resolve" /\ w.at = "checked"
  /\ Proceeds(w, [w EXCEPT !.at = "done"])
  /\ conflict' = conflict \ {w.id}
  /\ acted' = acted \cup {w.id}
  /\ InApi /\ UNCHANGED <<stage, left>>

\* The page drops the row and closes the sheet, be it of this conflict or another.
ResolveAnswers(w) ==
  /\ w.what = "resolve" /\ w.at \in {"done", "refused", "failed"}
  /\ LET good == w.page /\ w.at = "done" IN
     /\ removed' = IF good THEN removed \cup {w.id} ELSE removed
     /\ sheet' = IF good THEN NoSheet
                 ELSE IF w.sheet THEN [sheet EXCEPT !.resolving = FALSE, !.confirm = FALSE]
                 ELSE sheet
     /\ view' = IF good THEN [view EXCEPT !["side"] = Fresh(NoAsk)] ELSE view
     /\ reads' = IF good THEN Cancelled({"side"}) ELSE reads
     /\ writes' = IF good THEN Unmounted(writes \ {w}) ELSE writes \ {w}
  /\ UNCHANGED <<server, path, overrides, replaying, running, acted, left>>

\* A request is lost, a statement or QuickBooks fails, or the act is done and the answer lost.
WriteFails(w) ==
  /\ w.at # "failed" /\ Mishap
  /\ Proceeds(w, [w EXCEPT !.at = "failed"])
  /\ InApi /\ UNCHANGED <<server, acted>>
--------------------------------------------------------------------------------
(***************************************************************************)
(* The demo panel.                                                         *)
(***************************************************************************)
RunDemo(a) ==
  /\ a \notin running /\ Spend("demos")
  /\ running' = running \cup {a}
  /\ writes' = writes \cup {Request("demo", a, None, a)}
  /\ UNCHANGED <<server, path, view, reads, local, sheet, acted>>

\* create-invoice, inject-fault and edit-both end in an invoice written and an event;
\* what reconcile finds is enqueued and flagged as at any other time.
ServeDemo(w) ==
  /\ w.what = "demo" /\ w.at = "sent"
  /\ Proceeds(w, [w EXCEPT !.at = "done"])
  /\ IF w.id = "reconcile" THEN UNCHANGED stage ELSE \E e \in Events : Life!Enqueue(e)
  /\ w.id = "edit-both" => conflict # Links
  /\ InApi /\ UNCHANGED <<conflict, acted, left>>

\* edit-both finds nothing that is linked.
RefuseDemo(w) ==
  /\ w.what = "demo" /\ w.at = "sent" /\ w.id = "edit-both" /\ conflict = Links
  /\ Proceeds(w, [w EXCEPT !.at = "refused"])
  /\ InApi /\ UNCHANGED <<server, acted, left>>

DemoAnswers(w) ==
  /\ w.what = "demo" /\ w.at \in {"done", "refused", "failed"}
  /\ writes' = writes \ {w}
  /\ running' = running \ {w.id}
  /\ UNCHANGED <<server, path, view, reads, local, sheet, acted, left>>
--------------------------------------------------------------------------------
(***************************************************************************)
(* The bridge, and other operators, as the tables show them.               *)
(***************************************************************************)
Elsewhere == UNCHANGED <<path, view, reads, writes, local, sheet, running, acted>>

Run(e)     == Life!Start(e) /\ Elsewhere /\ UNCHANGED <<conflict, left>>
Finish(e)  == Life!Finish(e) /\ Elsewhere /\ UNCHANGED <<conflict, left>>
Release(e) == Life!Release(e) /\ Spend("bury") /\ Elsewhere /\ UNCHANGED conflict
Bury(e)    == Life!Bury(e) /\ Spend("bury") /\ Elsewhere /\ UNCHANGED conflict

Flag(l) ==
  /\ l \notin conflict /\ Spend("flag")
  /\ conflict' = conflict \cup {l}
  /\ Elsewhere /\ UNCHANGED stage

SettledElsewhere(l) ==
  /\ l \in conflict /\ Spend("flag")
  /\ conflict' = conflict \ {l}
  /\ Elsewhere /\ UNCHANGED stage
--------------------------------------------------------------------------------
Bridge ==
  \/ \E e \in Events : Run(e) \/ Finish(e) \/ Release(e) \/ Bury(e)
  \/ \E l \in Links : Flag(l) \/ SettledElsewhere(l)

Operator ==
  \/ \E p \in Paths : Go(p)
  \/ \E S \in SUBSET Slots : Reload(S)
  \/ \E what \in {"links", "links in conflict"} : Filter(what)
  \/ \E e \in Events : Replay(e)
  \/ ReplayAll
  \/ \E l \in Links : Select(l)
  \/ CloseSheet
  \/ \E side \in Sides : Pick(side)
  \/ AskToConfirm \/ Think \/ Resolve
  \/ \E a \in DemoActions : RunDemo(a)

Reading(c) == Count(c) \/ Serve(c) \/ ReadFails(c) \/ Arrive(c)

ReplayMoves(w)  == CheckReplay(w) \/ Requeue(w) \/ ReplayAnswers(w)
ResolveMoves(w) == CheckResolve(w) \/ Settle(w) \/ ResolveAnswers(w)
DemoMoves(w)    == ServeDemo(w) \/ RefuseDemo(w) \/ DemoAnswers(w)

Next ==
  \/ Bridge
  \/ Operator
  \/ \E s \in Slots : Poll(s)
  \/ \E c \in reads : Reading(c)
  \/ \E w \in writes : ReplayMoves(w) \/ ResolveMoves(w) \/ DemoMoves(w) \/ WriteFails(w)

Spec == Init /\ [][Next]_vars

\* The browser's timer fires, and the API answers or fails: fetch and pg have no limit
\* of their own but a connection ends.  Nothing is assumed of the bridge and operators.
Fairness ==
  /\ \A s \in Slots :
       /\ WF_vars(Poll(s))
       /\ WF_vars(\E c \in LiveReads(s) : Count(c))
       /\ WF_vars(\E c \in LiveReads(s) : Serve(c))
       /\ WF_vars(\E c \in LiveReads(s) : Arrive(c))
  /\ WF_vars(\E w \in writes : CheckReplay(w))
  /\ WF_vars(\E w \in writes : Requeue(w))
  /\ WF_vars(\E w \in writes : ReplayAnswers(w))
  /\ WF_vars(\E w \in writes : CheckResolve(w))
  /\ WF_vars(\E w \in writes : Settle(w))
  /\ WF_vars(\E w \in writes : ResolveAnswers(w))
  /\ WF_vars(\E w \in writes : ServeDemo(w) \/ RefuseDemo(w))
  /\ WF_vars(\E w \in writes : DemoAnswers(w))

FairSpec == Spec /\ Fairness
--------------------------------------------------------------------------------
View == [ask : Asks, data : Data, loading : BOOLEAN, error : BOOLEAN, stale : BOOLEAN]
Read == [slot : Slots, ask : Asks, silent : BOOLEAN, live : BOOLEAN,
         at : {"sent", "counted", "served", "failed"}, rows : Rows]
Write == [what : {"replay"}, id : Events, side : {None}, shown : Events,
          page : BOOLEAN, sheet : {FALSE}, at : {"sent", "checked", "done", "refused", "failed"}]
         \cup
         [what : {"resolve"}, id : Links, side : Sides, shown : Links,
          page : BOOLEAN, sheet : BOOLEAN, at : {"sent", "checked", "done", "refused", "failed"}]
         \cup
         [what : {"demo"}, id : DemoActions, side : {None}, shown : DemoActions,
          page : BOOLEAN, sheet : {FALSE}, at : {"sent", "done", "refused", "failed"}]
Sheet == [id : Links \cup {None}, winner : Sides \cup {None}, shown : Links \cup {None},
          confirm : BOOLEAN, resolving : BOOLEAN]

Types ==
  /\ stage \in [Events -> Life!Stage]
  /\ conflict \in SUBSET Links
  /\ path \in Paths
  /\ view \in [Slots -> View]
  /\ reads \in SUBSET Read /\ writes \in SUBSET Write
  /\ overrides \in SUBSET Events /\ replaying \in Events \cup {None}
  /\ removed \in SUBSET Links
  /\ sheet \in Sheet
  /\ running \in SUBSET DemoActions /\ acted \in SUBSET (Events \cup Links)
  /\ left \in Situations

\* A request that is still wanted was made by the view that is still there, and a view
\* that waits has asked: no page waits for an answer nobody owes it.
ReadsFit ==
  /\ \A c \in reads : c.live => c.ask = view[c.slot].ask /\ c.ask # NoAsk
  /\ \A s \in Slots : view[s].loading /\ view[s].ask # NoAsk =>
       \E c \in reads : c.slot = s /\ c.live /\ ~c.silent

TypeOK == Types /\ ReadsFit
--------------------------------------------------------------------------------
(***************************************************************************)
(* Properties.                                                             *)
(***************************************************************************)
\* A side is picked while the figures of a conflict are on the screen.  The sheet that
\* acts on the choice, and the request that carries it, are for that very conflict,
\* whatever was opened, closed or loaded since: `key={selectedId}` in the page.
PickedOnScreen ==
  /\ sheet.winner # None => sheet.shown = sheet.id
  /\ \A w \in writes : w.shown = w.id

\* What a page no longer lists because it acted on it was really requeued, or settled, by
\* the API since the page was opened: a refused or failed request hides nothing.
OnlyDoneIsHidden == overrides \cup removed \subseteq acted

\* The store of the demo panel says an action runs exactly while the browser waits for its
\* request, whatever pages are opened meanwhile, so that no two requests of one action are
\* under way.  What the API still does for a request the browser has given up is not known
\* here: it is the bridge's work, and InvoiceSync has it.
DemoRuns == {w \in writes : w.what = "demo"}

DemoRunsOnce ==
  /\ running = {w.id : w \in DemoRuns}
  /\ \A v, w \in DemoRuns : v.id = w.id => v = w

\* Once a view shows what it asks for, no answer to what it asked for earlier takes its
\* place: the effect's `cancelled` in useApi.
NoLateAnswer ==
  [][\A s \in Slots :
       /\ view[s].data.of = view[s].ask
       /\ view'[s].ask = view[s].ask
       /\ view'[s].data # Nothing
       => view'[s].data.of = view[s].ask]_vars

\* A page that is left alone comes to hold what the tables say once they are at rest,
\* although polls overtake each other, and although some failed.  What it lists is that,
\* but for the events it replayed and the conflicts it settled since it was opened: as long
\* as it stays open it never lists those again, not even one that died again or came back
\* (the overrides of events/page.tsx and the removed of conflicts/page.tsx).
LeftAlone(p) == <>[](path = p) /\ <>[][\A S \in SUBSET Slots : ~Reload(S)]_vars

HoldsTruth(p) == \A s \in {x \in Slots : Polled(SlotAsk(p, x))} :
  ~view[s].loading /\ ~view[s].error /\ view[s].data.rows = Answer(view[s].ask)

ListsTruth(p) ==
  /\ p.page = "events"    => DeadListed = Dead \ overrides
  /\ p.page = "conflicts" => Listed = conflict \ removed

PollsComeTrue ==
  \A p \in {q \in Paths : q.page \in {"overview", "events", "conflicts"}} :
    LeftAlone(p) => <>[](HoldsTruth(p) /\ ListsTruth(p))

\* No button spins for ever.
SpinnersStop ==
  /\ \A e \in Events : replaying = e ~> replaying # e
  /\ sheet.resolving ~> ~sheet.resolving
  /\ \A a \in DemoActions : a \in running ~> a \notin running
================================================================================
