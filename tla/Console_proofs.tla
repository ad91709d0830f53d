----------------------------- MODULE Console_proofs -----------------------------
(***************************************************************************)
(* Proofs about Console for any events, links, sides and demo actions, and *)
(* any situations to start from.                                           *)
(***************************************************************************)
EXTENDS Console, TLAPS

\* What is in the side view is of what the view asks for: only the list changes what it
\* asks for and keeps its rows.
SideIsOfItsAsk ==
  view["side"].data = Nothing \/ view["side"].data.of = view["side"].ask

\* The sheet and the requests that will close one are on the page of conflicts, and the
\* sheet's view is of its conflict; the overview has two views.
PageFits ==
  /\ path.page = "overview" => \A s \in Slots : view[s].ask # NoAsk
  /\ sheet.id # None => path.page = "conflicts" /\ view["side"].ask = Ask("conflict", sheet.id)
  /\ sheet.winner # None => sheet.id # None
  /\ sheet.confirm => sheet.winner # None
  /\ \A w \in writes : w.what = "resolve" /\ w.page => path.page = "conflicts"

TypeInv == Types /\ ReadsFit /\ SideIsOfItsAsk /\ PageFits /\ PickedOnScreen
--------------------------------------------------------------------------------
(***************************************************************************)
(* Types of the records.                                                   *)
(***************************************************************************)
LEMMA AsksType ==
  /\ NoAsk \in Asks /\ NoRows \in Rows /\ Nothing \in Data
  /\ \A p \in Paths, s \in Slots : SlotAsk(p, s) \in Asks
  /\ \A l \in Links : Ask("conflict", l) \in Asks /\ Ask("conflict", l) # NoAsk
  /\ \A what \in {"links", "links in conflict"} : Ask(what, None) \in Asks
<1>1. NoAsk \in Asks /\ NoRows \in Rows
  BY DEF Asks, NoRows, Rows
<1>2. Nothing \in Data
  BY <1>1 DEF Nothing, Data
<1>3. ASSUME NEW p \in Paths, NEW s \in Slots PROVE SlotAsk(p, s) \in Asks
  <2>1. CASE p \in {Path(q, None) : q \in {"overview", "events", "conflicts", "invoices"}}
    <3>1. /\ p.page \in {"overview", "events", "conflicts", "invoices"}
      BY <2>1 DEF Path
    <3>2. ListAsk(p) \in {Ask("events", None), Ask("conflicts", None), Ask("links", None), NoAsk}
      BY <3>1 DEF ListAsk
    <3>3. SideAsk(p) \in {Ask("status", None), NoAsk}
      BY <3>1 DEF SideAsk
    <3>4. \A w \in {"events", "conflicts", "links"} : Ask(w, None) \in Asks
      BY DEF Asks, ListAsks
    <3>5. Ask("status", None) \in Asks
      BY DEF Asks
    <3> QED BY <1>1, <3>2, <3>3, <3>4, <3>5 DEF SlotAsk
  <2>2. CASE p \in {Path("event", e) : e \in Events}
    BY <2>2, <1>1 DEF SlotAsk, ListAsk, SideAsk, Path, Asks, EventAsks
  <2>3. CASE p \in {Path("invoice", l) : l \in Links}
    BY <2>3, <1>1 DEF SlotAsk, ListAsk, SideAsk, Path, Asks, LinkAsks
  <2>4. \/ p \in {Path(q, None) : q \in {"overview", "events", "conflicts", "invoices"}}
        \/ p \in {Path("event", e) : e \in Events}
        \/ p \in {Path("invoice", l) : l \in Links}
    BY Zenon DEF Paths
  <2> QED BY <2>1, <2>2, <2>3, <2>4
<1>4. \A l \in Links : Ask("conflict", l) \in Asks /\ Ask("conflict", l) # NoAsk
  BY DEF Asks, SheetAsks, Ask, NoAsk
<1>5. \A what \in {"links", "links in conflict"} : Ask(what, None) \in Asks
  BY DEF Asks, ListAsks
<1> QED BY <1>1, <1>2, <1>3, <1>4, <1>5

LEMMA FreshType == ASSUME NEW ask \in Asks PROVE Fresh(ask) \in View
  BY AsksType DEF Fresh, View

LEMMA FreshShows ==
  ASSUME NEW ask PROVE Fresh(ask).ask = ask /\ Fresh(ask).data = Nothing
  BY DEF Fresh

LEMMA LoadType ==
  ASSUME NEW ask \in Asks, NEW s \in Slots, NEW b \in BOOLEAN
  PROVE  Load(s, ask, b) \in Read
  BY AsksType DEF Load, Read

LEMMA AnswerType ==
  ASSUME NEW ask, conflict \subseteq Links
  PROVE  DeadIn(ask) \in SUBSET Events /\ Answer(ask) \in Rows
<1>1. DeadIn(ask) \in SUBSET Events
  BY DEF DeadIn, Dead
<1>2. ConflictsIn(ask) \in SUBSET Links
  BY DEF ConflictsIn
<1> QED BY <1>1, <1>2 DEF Answer, Rows

LEMMA SpendType ==
  ASSUME left \in Situations, NEW kind \in {"bury", "flag", "mishap", "demos"}, Spend(kind)
  PROVE  left' \in Situations
<1>1. left' = [left EXCEPT ![kind] = left[kind] - 1] /\ left[kind] \in Nat /\ left[kind] > 0
  BY DEF Spend, Situations
<1>2. left[kind] - 1 \in Nat
  BY <1>1
<1> QED BY <1>1, <1>2 DEF Situations

\* A request that goes on is a request.
LEMMA WriteMoves ==
  ASSUME NEW w \in Write, NEW at \in {"done", "refused", "failed", "checked"},
         at = "checked" => w.what # "demo"
  PROVE  /\ [w EXCEPT !.at = at] \in Write
         /\ [w EXCEPT !.at = at].what = w.what /\ [w EXCEPT !.at = at].id = w.id
         /\ [w EXCEPT !.at = at].shown = w.shown /\ [w EXCEPT !.at = at].page = w.page
         /\ [w EXCEPT !.at = at].at = at
  BY DEF Write

LEMMA WriteLeaves ==
  ASSUME NEW w \in Write, NEW v,
         v \in {[w EXCEPT !.sheet = FALSE], [w EXCEPT !.page = FALSE, !.sheet = FALSE]}
  PROVE  /\ v \in Write
         /\ v.what = w.what /\ v.id = w.id /\ v.shown = w.shown /\ v.at = w.at
         /\ v.page = IF v = [w EXCEPT !.sheet = FALSE] THEN w.page ELSE FALSE
         /\ v = [w EXCEPT !.page = FALSE, !.sheet = FALSE] => ~v.page
  BY DEF Write

\* What becomes of the reads of views that go.
LEMMA CancelledType ==
  ASSUME Types, NEW S \in SUBSET Slots
  PROVE  /\ Cancelled(S) \in SUBSET Read
         /\ \A c \in Cancelled(S) : c.live => c \in reads /\ c.slot \notin S
         /\ \A c \in reads : c.slot \notin S => c \in Cancelled(S)
<1>1. ASSUME NEW c \in reads
      PROVE  LET d == [c EXCEPT !.live = @ /\ c.slot \notin S]
             IN  /\ d \in Read /\ d.slot = c.slot
                 /\ d.live = (c.live /\ c.slot \notin S)
                 /\ (c.slot \notin S => d = c)
                 /\ (d.live => d = c)
  <2>1. c \in Read BY DEF Types
  <2>2. c.live \in BOOLEAN BY <2>1 DEF Read
  <2>3. [c EXCEPT !.live = c.live] = c BY <2>1 DEF Read
  <2> QED BY <2>1, <2>2, <2>3 DEF Read
<1> QED BY <1>1 DEF Cancelled

\* Views that are mounted anew, or ask something new, leave the others with what they
\* asked for.
LEMMA RemountFits ==
  ASSUME Types, ReadsFit, NEW S \in SUBSET Slots, view' \in [Slots -> View],
         \A s \in Slots \ S : view'[s] = view[s],
         reads' = Cancelled(S) \cup UNION {Loads(s, view'[s].ask) : s \in S}
  PROVE  reads' \in SUBSET Read /\ ReadsFit'
<1>1. ASSUME NEW s \in S, view'[s].ask # NoAsk
      PROVE  /\ Loads(s, view'[s].ask) = {Load(s, view'[s].ask, FALSE)}
             /\ Load(s, view'[s].ask, FALSE) \in Read
  BY <1>1, LoadType DEF Loads, View
<1>2. ASSUME NEW s \in S, view'[s].ask = NoAsk PROVE Loads(s, view'[s].ask) = {}
  BY <1>2 DEF Loads
<1>3. ASSUME NEW c \in reads', c \notin Cancelled(S)
      PROVE  \E s \in S : view'[s].ask # NoAsk /\ c = Load(s, view'[s].ask, FALSE)
  <2>1. PICK s \in S : c \in Loads(s, view'[s].ask) BY <1>3
  <2> QED BY <1>1, <1>2, <2>1
<1>4. ASSUME NEW c \in reads' PROVE c \in Read
  <2>1. CASE c \in Cancelled(S)
    BY <2>1, CancelledType
  <2>2. CASE c \notin Cancelled(S)
    BY <1>1, <1>3, <2>2
  <2> QED BY <2>1, <2>2
<1>5. ASSUME NEW c \in reads', c.live PROVE c.ask = view'[c.slot].ask /\ c.ask # NoAsk
  <2>1. CASE c \in Cancelled(S)
    <3>1. c \in reads /\ c.slot \notin S /\ c.slot \in Slots
      BY <1>5, <2>1, CancelledType DEF Read
    <3> QED BY <1>5, <3>1 DEF ReadsFit
  <2>2. CASE c \notin Cancelled(S)
    BY <1>3, <2>2 DEF Load
  <2> QED BY <2>1, <2>2
<1>6. ASSUME NEW s \in Slots, view'[s].loading, view'[s].ask # NoAsk
      PROVE  \E c \in reads' : c.slot = s /\ c.live /\ ~c.silent
  <2>1. CASE s \in S
    <3>1. Load(s, view'[s].ask, FALSE) \in reads' BY <1>1, <1>6, <2>1
    <3> QED BY <3>1 DEF Load
  <2>2. CASE s \notin S
    <3>1. PICK c \in reads : c.slot = s /\ c.live /\ ~c.silent
      BY <1>6, <2>2 DEF ReadsFit
    <3>2. c \in reads' BY <2>2, <3>1, CancelledType
    <3> QED BY <3>1, <3>2
  <2> QED BY <2>1, <2>2
<1> QED BY <1>4, <1>5, <1>6 DEF ReadsFit

LEMMA TypeInvInit == Init => TypeInv
<1> SUFFICES ASSUME Init PROVE TypeInv
  OBVIOUS
<1>1. left \in Situations /\ path \in Paths
  BY SituationsFit DEF Init
<1>2. view \in [Slots -> View]
      /\ \A s \in Slots : view[s] = Fresh(SlotAsk(path, s))
  BY <1>1, AsksType, FreshType DEF Init, Mounted
<1>3. \A c \in reads : \E s \in Slots : /\ SlotAsk(path, s) # NoAsk
                                        /\ c = Load(s, SlotAsk(path, s), FALSE)
  BY DEF Init, FirstLoads, Loads
<1>4. reads \in SUBSET Read
  BY <1>1, <1>3, AsksType, LoadType
<1>5. Types
  BY <1>1, <1>2, <1>4 DEF Init, Types, Situations, Life!Stage, NoSheet, Sheet
<1>6. ASSUME NEW s \in Slots, SlotAsk(path, s) # NoAsk
      PROVE  Load(s, SlotAsk(path, s), FALSE) \in reads
  BY <1>6 DEF Init, FirstLoads, Loads
<1>7. ReadsFit
  <2>1. \A s \in Slots : view[s].ask = SlotAsk(path, s)
    BY <1>2 DEF Fresh
  <2>3. ASSUME NEW c \in reads PROVE c.ask = view[c.slot].ask /\ c.ask # NoAsk
    <3>1. PICK s \in Slots : SlotAsk(path, s) # NoAsk /\ c = Load(s, SlotAsk(path, s), FALSE)
      BY <1>3
    <3> QED BY <2>1, <3>1 DEF Load
  <2>4. ASSUME NEW s \in Slots, view[s].ask # NoAsk
        PROVE  \E c \in reads : c.slot = s /\ c.live /\ ~c.silent
    <3>1. Load(s, SlotAsk(path, s), FALSE) \in reads
      BY <1>6, <2>1, <2>4
    <3> QED BY <3>1 DEF Load
  <2> QED BY <2>3, <2>4 DEF ReadsFit
<1>8. SideIsOfItsAsk
  BY <1>2 DEF SideIsOfItsAsk, Fresh, Slots
<1>9. path.page = "overview" => \A s \in Slots : SlotAsk(path, s) # NoAsk
  BY DEF SlotAsk, ListAsk, SideAsk, Ask, NoAsk
<1>10. PageFits /\ PickedOnScreen
  BY <1>2, <1>9 DEF Init, PageFits, PickedOnScreen, NoSheet, Fresh
<1> QED BY <1>5, <1>7, <1>8, <1>10 DEF TypeInv
--------------------------------------------------------------------------------
(***************************************************************************)
(* The steps, by what they change.                                         *)
(***************************************************************************)
\* The bridge and other operators change the tables.
LEMMA BridgeTypes == TypeInv /\ Bridge => TypeInv'
<1> SUFFICES ASSUME TypeInv, Bridge PROVE TypeInv'
  OBVIOUS
<1> USE DEF Elsewhere, local
<1>1. stage' \in [Events -> Life!Stage] /\ left' \in Situations /\ conflict' \in SUBSET Links
      /\ Elsewhere
  <2>1. ASSUME NEW e \in Events, Run(e) \/ Finish(e) \/ Release(e) \/ Bury(e)
        PROVE  /\ stage' \in [Events -> Life!Stage] /\ left' \in Situations
               /\ conflict' \in SUBSET Links /\ Elsewhere
    <3>1. stage' \in [Events -> Life!Stage] /\ conflict' = conflict /\ Elsewhere
      BY <2>1 DEF Run, Finish, Release, Bury, Life!Start, Life!Finish, Life!Release, Life!Bury,
                  Life!Move, Life!Stage, TypeInv, Types
    <3>2. left' \in Situations
      BY <2>1, SpendType DEF Run, Finish, Release, Bury, TypeInv, Types
    <3> QED BY <3>1, <3>2 DEF TypeInv, Types
  <2>2. ASSUME NEW l \in Links, Flag(l) \/ SettledElsewhere(l)
        PROVE  /\ stage' \in [Events -> Life!Stage] /\ left' \in Situations
               /\ conflict' \in SUBSET Links /\ Elsewhere
    BY <2>2, SpendType DEF Flag, SettledElsewhere, TypeInv, Types
  <2> QED BY <2>1, <2>2 DEF Bridge
<1>2. Types'
  BY <1>1 DEF TypeInv, Types
<1> QED BY <1>1, <1>2 DEF TypeInv, ReadsFit, SideIsOfItsAsk, PageFits, PickedOnScreen

\* A read that moves on is still its view's.
LEMMA ReadMoves ==
  ASSUME TypeInv, NEW c \in reads, NEW d \in Read, Moves(c, d), ReadOnly, left' \in Situations,
         d.slot = c.slot, d.ask = c.ask, d.live = c.live, d.silent = c.silent
  PROVE  TypeInv'
<1> USE DEF ReadOnly, server, local, Moves
<1>1. Types'
  BY DEF TypeInv, Types
<1>2. ReadsFit'
  <2>1. ASSUME NEW x \in reads' PROVE x.live => x.ask = view[x.slot].ask /\ x.ask # NoAsk
    BY <2>1 DEF TypeInv, ReadsFit
  <2>2. ASSUME NEW s \in Slots, view[s].loading, view[s].ask # NoAsk
        PROVE  \E x \in reads' : x.slot = s /\ x.live /\ ~x.silent
    <3>1. PICK x \in reads : x.slot = s /\ x.live /\ ~x.silent
      BY <2>2 DEF TypeInv, ReadsFit
    <3>2. CASE x = c BY <3>1, <3>2
    <3>3. CASE x # c BY <3>1, <3>3
    <3> QED BY <3>2, <3>3
  <2> QED BY <2>1, <2>2 DEF ReadsFit
<1> QED BY <1>1, <1>2 DEF TypeInv, SideIsOfItsAsk, PageFits, PickedOnScreen

\* What an answer, or the lack of one, makes of its view.
LEMMA ShownType ==
  ASSUME Types, NEW c \in reads
  PROVE  /\ Loaded(c) \in View /\ NotLoaded(c) \in View
         /\ Loaded(c).ask = view[c.slot].ask /\ NotLoaded(c).ask = view[c.slot].ask
         /\ ~Loaded(c).loading /\ ~NotLoaded(c).loading
         /\ Loaded(c).data.of = c.ask
         /\ NotLoaded(c).data \in {Nothing, view[c.slot].data}
<1>1. c \in Read /\ view[c.slot] \in View
  BY DEF Types, Read
<1>2. [of |-> c.ask, rows |-> c.rows] \in Data
  BY <1>1 DEF Read, Data
<1>3. c.silent \in BOOLEAN /\ Nothing \in Data
  BY <1>1, AsksType DEF Read
<1>4. Loaded(c) \in View /\ Loaded(c).ask = view[c.slot].ask /\ ~Loaded(c).loading
      /\ Loaded(c).data.of = c.ask
  BY <1>1, <1>2 DEF Loaded, View
<1>5. NotLoaded(c) \in View /\ NotLoaded(c).ask = view[c.slot].ask /\ ~NotLoaded(c).loading
  BY <1>1, <1>3 DEF NotLoaded, View
<1>6. NotLoaded(c).data = IF c.silent THEN view[c.slot].data ELSE Nothing
  BY <1>1 DEF NotLoaded, View
<1> QED BY <1>4, <1>5, <1>6

LEMMA ReadingTypes ==
  ASSUME TypeInv, NEW c \in reads, Reading(c)
  PROVE  TypeInv'
<1> USE DEF ReadOnly, server, local
<1>c. c \in Read /\ left \in Situations /\ conflict \subseteq Links
  BY DEF TypeInv, Types
<1>1. CASE Count(c)
  <2> DEFINE d == [c EXCEPT !.at = "counted", !.rows.dead = DeadIn(c.ask)]
  <2>1. c.rows \in Rows /\ [c.rows EXCEPT !.dead = DeadIn(c.ask)] \in Rows
    BY <1>c, AnswerType DEF Read, Rows
  <2>2. d = [c EXCEPT !.at = "counted", !.rows = [c.rows EXCEPT !.dead = DeadIn(c.ask)]]
    BY <1>c DEF Read
  <2>3. d \in Read /\ d.slot = c.slot /\ d.ask = c.ask /\ d.live = c.live /\ d.silent = c.silent
    BY <1>c, <2>1, <2>2 DEF Read
  <2>4. Moves(c, d) BY <1>1 DEF Count
  <2> HIDE DEF d
  <2> QED BY <1>1, <1>c, <2>3, <2>4, ReadMoves DEF Count
<1>2. CASE Serve(c)
  <2> DEFINE d == IF NotFound(c.ask) THEN [c EXCEPT !.at = "failed"]
                  ELSE [c EXCEPT !.at = "served", !.rows = RowsFor(c)]
  <2>1. RowsFor(c) \in Rows
    BY <1>c, AnswerType DEF RowsFor, Read, Rows
  <2>2. d \in Read /\ d.slot = c.slot /\ d.ask = c.ask /\ d.live = c.live /\ d.silent = c.silent
    BY <1>c, <2>1 DEF Read
  <2>3. Moves(c, d) BY <1>2 DEF Serve
  <2> HIDE DEF d
  <2> QED BY <1>2, <1>c, <2>2, <2>3, ReadMoves DEF Serve
<1>3. CASE ReadFails(c)
  <2> DEFINE d == [c EXCEPT !.at = "failed", !.rows = NoRows]
  <2>1. d \in Read /\ d.slot = c.slot /\ d.ask = c.ask /\ d.live = c.live /\ d.silent = c.silent
    BY <1>c, AsksType DEF Read
  <2>2. left' \in Situations
    BY <1>3, <1>c, SpendType DEF ReadFails, Mishap
  <2> QED BY <1>3, <2>1, <2>2, ReadMoves DEF ReadFails
<1>4. CASE Arrive(c)
  <2>1. c.slot \in Slots BY <1>c DEF Read
  <2>2. view' \in [Slots -> View] /\ \A s \in Slots : view'[s].ask = view[s].ask
    BY <1>4, <2>1, ShownType DEF Arrive, TypeInv, Types
  <2>3. Types'
    BY <1>4, <2>2 DEF Arrive, TypeInv, Types
  <2>4. ReadsFit'
    <3>1. ASSUME NEW x \in reads' PROVE x.live => x.ask = view'[x.slot].ask /\ x.ask # NoAsk
      <4>1. x \in reads /\ x.slot \in Slots
        BY <1>4 DEF Arrive, TypeInv, Types, Read
      <4> QED BY <2>2, <4>1 DEF TypeInv, ReadsFit
    <3>2. ASSUME NEW s \in Slots, view'[s].loading, view'[s].ask # NoAsk
          PROVE  \E x \in reads' : x.slot = s /\ x.live /\ ~x.silent
      <4>1. ~(c.live /\ c.slot = s)
        BY <1>4, <3>2, ShownType DEF Arrive, TypeInv, Types
      <4>2. view'[s] = view[s]
        BY <1>4, <4>1 DEF Arrive, TypeInv, Types
      <4>3. PICK x \in reads : x.slot = s /\ x.live /\ ~x.silent
        BY <3>2, <4>2 DEF TypeInv, ReadsFit
      <4> QED BY <1>4, <4>1, <4>3 DEF Arrive
    <3> QED BY <3>1, <3>2 DEF ReadsFit
  <2>5. SideIsOfItsAsk'
    <3>1. CASE c.live /\ c.slot = "side"
      <4>1. c.ask = view["side"].ask /\ "side" \in Slots
        BY <3>1 DEF TypeInv, ReadsFit, Slots
      <4>2. view'["side"] \in {Loaded(c), NotLoaded(c)}
        BY <1>4, <3>1, <4>1 DEF Arrive, TypeInv, Types
      <4> QED BY <2>2, <3>1, <4>1, <4>2, ShownType DEF TypeInv, SideIsOfItsAsk
    <3>2. CASE ~(c.live /\ c.slot = "side")
      <4>1. view'["side"] = view["side"]
        BY <1>4, <3>2 DEF Arrive, TypeInv, Types
      <4> QED BY <4>1 DEF TypeInv, SideIsOfItsAsk
    <3> QED BY <3>1, <3>2
  <2>6. PageFits' /\ PickedOnScreen'
    BY <1>4, <2>2 DEF Arrive, TypeInv, PageFits, PickedOnScreen, Slots
  <2> QED BY <2>3, <2>4, <2>5, <2>6 DEF TypeInv
<1> QED BY <1>1, <1>2, <1>3, <1>4 DEF Reading

LEMMA PollTypes ==
  ASSUME TypeInv, NEW s \in Slots, Poll(s)
  PROVE  TypeInv'
<1> USE DEF server, local
<1> DEFINE c == Load(s, view[s].ask, TRUE)
<1>1. c \in Read /\ view[s].ask # NoAsk
  <2>1. view[s].ask \in Asks BY DEF TypeInv, Types, View
  <2>2. NoAsk.what = "nothing" BY DEF NoAsk, Ask
  <2>3. view[s].ask.what # "nothing" BY DEF Poll, Polled
  <2> QED BY <2>1, <2>2, <2>3, LoadType
<1>2. c.slot = s /\ c.ask = view[s].ask
  BY DEF Load
<1>3. reads' = reads \cup {c}
  BY DEF Poll
<1> HIDE DEF c
<1>4. Types'
  BY <1>1, <1>3 DEF Poll, TypeInv, Types
<1>5. ReadsFit'
  <2>1. ASSUME NEW x \in reads' PROVE x.live => x.ask = view[x.slot].ask /\ x.ask # NoAsk
    BY <1>1, <1>2, <1>3 DEF TypeInv, ReadsFit
  <2>2. ASSUME NEW t \in Slots, view[t].loading, view[t].ask # NoAsk
        PROVE  \E x \in reads' : x.slot = t /\ x.live /\ ~x.silent
    BY <1>3, <2>2 DEF TypeInv, ReadsFit
  <2>3. view' = view BY DEF Poll
  <2> QED BY <2>1, <2>2, <2>3 DEF ReadsFit
<1> QED BY <1>4, <1>5 DEF Poll, TypeInv, SideIsOfItsAsk, PageFits, PickedOnScreen

\* The sheet opens for a conflict, or closes.
LEMMA SideMounts ==
  ASSUME TypeInv, NEW ask \in Asks, view' = [view EXCEPT !["side"] = Fresh(ask)],
         reads' = Cancelled({"side"}) \cup Loads("side", ask), sheet' \in Sheet,
         \/ sheet' = NoSheet
         \/ sheet'.id # None /\ ask = Ask("conflict", sheet'.id) /\ ~sheet'.confirm,
         sheet'.winner = None, path.page = "conflicts", removed' \in SUBSET Links,
         \A w \in writes' : \E v \in writes : w = [v EXCEPT !.sheet = FALSE],
         UNCHANGED <<server, path, overrides, replaying, running, acted, left>>
  PROVE  TypeInv'
<1> USE DEF server
<1>1. view' \in [Slots -> View] /\ view'["side"] = Fresh(ask) /\ view'["list"] = view["list"]
  BY FreshType DEF TypeInv, Types, Slots
<1>2. view'["side"].ask = ask /\ view'["side"].data = Nothing
  BY <1>1, FreshShows
<1>3. UNION {Loads(s, view'[s].ask) : s \in {"side"}} = Loads("side", ask)
  BY <1>2
<1>4. reads' = Cancelled({"side"}) \cup UNION {Loads(s, view'[s].ask) : s \in {"side"}}
  BY <1>3
<1>5. {"side"} \in SUBSET Slots /\ \A s \in Slots \ {"side"} : view'[s] = view[s]
  BY <1>1 DEF Slots
<1>6. Types /\ ReadsFit
  BY DEF TypeInv
<1>7. reads' \in SUBSET Read /\ ReadsFit'
  BY <1>1, <1>4, <1>5, <1>6, RemountFits
<1>8. \A w \in writes' : w \in Write /\ w.shown = w.id
  <2> TAKE w \in writes'
  <2>1. PICK v \in writes : w = [v EXCEPT !.sheet = FALSE]
    OBVIOUS
  <2>2. v \in Write BY DEF TypeInv, Types
  <2>3. w \in Write /\ w.shown = v.shown /\ w.id = v.id
    BY <2>1, <2>2, WriteLeaves
  <2> QED BY <2>3 DEF TypeInv, PickedOnScreen
<1>9. Types'
  BY <1>1, <1>7, <1>8 DEF TypeInv, Types
<1>10. NoSheet.id = None /\ ~NoSheet.confirm
  BY DEF NoSheet
<1>11. SideIsOfItsAsk'
  BY <1>2 DEF SideIsOfItsAsk
<1>12. PageFits'
  BY <1>2, <1>10 DEF PageFits
<1>13. PickedOnScreen'
  BY <1>8 DEF PickedOnScreen
<1> QED BY <1>7, <1>9, <1>11, <1>12, <1>13 DEF TypeInv

\* The pages and the sheet: views go and come.
LEMMA RemountTypes ==
  ASSUME TypeInv, \/ \E p \in Paths : Go(p)
                  \/ \E S \in SUBSET Slots : Reload(S)
                  \/ \E what \in {"links", "links in conflict"} : Filter(what)
                  \/ \E l \in Links : Select(l)
                  \/ CloseSheet
  PROVE  TypeInv'
<1> USE DEF server, local
<1>t. Types /\ ReadsFit BY DEF TypeInv
<1>w. \A w \in writes : w \in Write BY DEF TypeInv, Types
<1>s. NoSheet \in Sheet BY DEF NoSheet, Sheet
<1>1. ASSUME NEW p \in Paths, Go(p) PROVE TypeInv'
  <2>1. view' \in [Slots -> View] /\ \A s \in Slots : view'[s] = Fresh(SlotAsk(p, s))
    BY <1>1, AsksType, FreshType DEF Go, Mounted
  <2>2. \A s \in Slots : view'[s].ask = SlotAsk(p, s)
    BY <2>1, FreshShows
  <2>3. reads' = Cancelled(Slots) \cup UNION {Loads(s, view'[s].ask) : s \in Slots}
    BY <1>1, <2>2 DEF Go, FirstLoads
  <2>4. reads' \in SUBSET Read /\ ReadsFit'
    BY <1>t, <2>1, <2>3, RemountFits
  <2>5. \A w \in writes' : \E v \in writes : w = [v EXCEPT !.page = FALSE, !.sheet = FALSE]
    BY <1>1 DEF Go
  <2>6. \A w \in writes' : w \in Write /\ ~w.page /\ w.shown = w.id
    <3> TAKE w \in writes'
    <3>1. PICK v \in writes : w = [v EXCEPT !.page = FALSE, !.sheet = FALSE]
      BY <2>5
    <3>2. w \in Write /\ w.shown = v.shown /\ w.id = v.id /\ ~w.page
      BY <1>w, <3>1, WriteLeaves
    <3> QED BY <3>2 DEF TypeInv, PickedOnScreen
  <2>7. Types'
    BY <1>1, <1>s, <2>1, <2>4, <2>6 DEF Go, TypeInv, Types
  <2>8. SideIsOfItsAsk'
    BY <2>1, FreshShows DEF SideIsOfItsAsk, Slots
  <2>9. p.page = "overview" => \A s \in Slots : SlotAsk(p, s) # NoAsk
    BY DEF SlotAsk, ListAsk, SideAsk, Ask, NoAsk
  <2>10. PageFits' /\ PickedOnScreen'
    BY <1>1, <2>2, <2>6, <2>9 DEF Go, PageFits, PickedOnScreen, NoSheet
  <2> QED BY <2>4, <2>7, <2>8, <2>10 DEF TypeInv
<1>2. ASSUME NEW S \in SUBSET Slots, Reload(S) PROVE TypeInv'
  <2>1. \A s \in S : view[s].ask # NoAsk
    BY <1>2 DEF Reload, TypeInv, PageFits
  <2>2. \A s \in Slots : view[s] \in View
    BY DEF TypeInv, Types
  <2>3. ASSUME NEW s \in Slots
        PROVE  /\ view'[s] \in View /\ view'[s].ask = view[s].ask /\ view'[s].data = view[s].data
               /\ s \notin S => view'[s] = view[s]
    BY <1>2, <2>2 DEF Reload, View
  <2>4. view' \in [Slots -> View]
    BY <1>2, <2>3 DEF Reload
  <2>5. \A s \in S : Loads(s, view'[s].ask) = {Load(s, view[s].ask, FALSE)}
    BY <2>1, <2>3 DEF Loads
  <2>6. reads' = Cancelled(S) \cup UNION {Loads(s, view'[s].ask) : s \in S}
    <3>1. UNION {Loads(s, view'[s].ask) : s \in S} = {Load(s, view[s].ask, FALSE) : s \in S}
      BY <2>5
    <3> QED BY <1>2, <3>1 DEF Reload
  <2>7. reads' \in SUBSET Read /\ ReadsFit'
    BY <1>t, <2>3, <2>4, <2>6, RemountFits
  <2>8. Types'
    BY <1>2, <2>4, <2>7 DEF Reload, TypeInv, Types
  <2>9. SideIsOfItsAsk' /\ PageFits' /\ PickedOnScreen'
    BY <1>2, <2>3 DEF Reload, TypeInv, SideIsOfItsAsk, PageFits, PickedOnScreen, Slots
  <2> QED BY <2>7, <2>8, <2>9 DEF TypeInv
<1>3. ASSUME NEW what \in {"links", "links in conflict"}, Filter(what) PROVE TypeInv'
  <2>1. view["list"] \in View /\ Ask(what, None) \in Asks
    BY AsksType DEF TypeInv, Types, Slots
  <2>2. view' \in [Slots -> View] /\ view'["list"].ask = Ask(what, None)
        /\ view'["side"] = view["side"]
    BY <1>3, <2>1 DEF Filter, TypeInv, Types, View, Slots
  <2>3. UNION {Loads(s, view'[s].ask) : s \in {"list"}} = Loads("list", Ask(what, None))
    BY <2>2
  <2>4. reads' = Cancelled({"list"}) \cup UNION {Loads(s, view'[s].ask) : s \in {"list"}}
    BY <1>3, <2>3 DEF Filter
  <2>5. {"list"} \in SUBSET Slots /\ \A s \in Slots \ {"list"} : view'[s] = view[s]
    BY <2>2 DEF Slots
  <2>6. reads' \in SUBSET Read /\ ReadsFit'
    BY <1>t, <2>2, <2>4, <2>5, RemountFits
  <2>7. Types'
    BY <1>3, <2>2, <2>6 DEF Filter, TypeInv, Types
  <2>8. SideIsOfItsAsk' /\ PageFits' /\ PickedOnScreen'
    BY <1>3, <2>2 DEF Filter, TypeInv, SideIsOfItsAsk, PageFits, PickedOnScreen
  <2> QED BY <2>6, <2>7, <2>8 DEF TypeInv
<1>u. \A w \in Unmounted(writes) : \E v \in writes : w = [v EXCEPT !.sheet = FALSE]
  BY DEF Unmounted
<1>5. ASSUME NEW l \in Links, Select(l) PROVE TypeInv'
  <2>1. path.page = "conflicts" BY <1>5 DEF Select, Listed
  <2>2. sheet'.id = l /\ sheet' \in Sheet /\ sheet'.winner = None /\ ~sheet'.confirm
    BY <1>5 DEF Select, NoSheet, Sheet
  <2>3. l # None BY NoneIsNobody
  <2> QED BY <1>5, <1>t, <1>u, <2>1, <2>2, <2>3, AsksType, SideMounts DEF Select, Types
<1>6. CASE CloseSheet
  <2>1. path.page = "conflicts" BY <1>6 DEF CloseSheet, TypeInv, PageFits
  <2>2. Loads("side", NoAsk) = {} BY DEF Loads
  <2>3. NoSheet.winner = None BY DEF NoSheet
  <2> QED BY <1>6, <1>s, <1>t, <1>u, <2>1, <2>2, <2>3, AsksType, SideMounts DEF CloseSheet, Types
<1> QED BY <1>1, <1>2, <1>3, <1>5, <1>6

\* What is chosen in the sheet.
LEMMA SheetTypes == TypeInv /\ (AskToConfirm \/ Think \/ \E side \in Sides : Pick(side)) => TypeInv'
<1> SUFFICES ASSUME TypeInv, AskToConfirm \/ Think \/ \E side \in Sides : Pick(side)
             PROVE  TypeInv'
  OBVIOUS
<1> USE DEF server, local
<1>1. sheet \in Sheet BY DEF TypeInv, Types
<1>2. /\ sheet' \in Sheet /\ sheet'.id = sheet.id
      /\ sheet'.winner # None => sheet'.shown = sheet'.id /\ sheet'.id # None
      /\ sheet'.confirm => sheet'.winner # None
  <2>1. CASE AskToConfirm
    BY <1>1, <2>1 DEF AskToConfirm, Sheet, TypeInv, PageFits, PickedOnScreen
  <2>2. CASE Think
    BY <1>1, <2>2 DEF Think, Sheet, TypeInv, PageFits, PickedOnScreen
  <2>3. ASSUME NEW side \in Sides, Pick(side)
        PROVE  /\ sheet' \in Sheet /\ sheet'.id = sheet.id
               /\ sheet'.winner # None => sheet'.shown = sheet'.id /\ sheet'.id # None
               /\ sheet'.confirm => sheet'.winner # None
    <3>1. Detail.of = Ask("conflict", sheet.id)
      BY <2>3 DEF Pick, Detail, TypeInv, PageFits, SideIsOfItsAsk
    <3>2. Detail.of.of = sheet.id BY <3>1 DEF Ask
    <3> QED BY <1>1, <2>3, <3>2 DEF Pick, Sheet
  <2> QED BY <2>1, <2>2, <2>3
<1>3. UNCHANGED <<server, path, view, reads, writes, local, running, acted, left>>
  BY DEF AskToConfirm, Think, Pick
<1>4. Types'
  BY <1>2, <1>3 DEF TypeInv, Types
<1> QED BY <1>2, <1>3, <1>4 DEF TypeInv, ReadsFit, SideIsOfItsAsk, PageFits, PickedOnScreen

\* A request is made, goes on, or is answered while the sheet stays as it is or gives up
\* a request of its own.
LEMMA WritesFit ==
  ASSUME TypeInv, writes' \in SUBSET Write, stage' \in [Events -> Life!Stage],
         conflict' \in SUBSET Links, left' \in Situations, acted' \in SUBSET (Events \cup Links),
         overrides' \in SUBSET Events, replaying' \in Events \cup {None},
         removed' \in SUBSET Links, running' \in SUBSET DemoActions,
         UNCHANGED <<path, view, reads>>,
         \A w \in writes' : /\ w.shown = w.id
                            /\ w.what = "resolve" /\ w.page => path.page = "conflicts",
         \/ sheet' = sheet
         \/ sheet' = [sheet EXCEPT !.resolving = TRUE]
         \/ sheet' = [sheet EXCEPT !.resolving = FALSE, !.confirm = FALSE]
  PROVE  TypeInv'
<1>1. sheet \in Sheet BY DEF TypeInv, Types
<1>2. /\ sheet' \in Sheet /\ sheet'.id = sheet.id /\ sheet'.winner = sheet.winner
      /\ sheet'.shown = sheet.shown /\ (sheet'.confirm => sheet.confirm)
  BY <1>1 DEF Sheet
<1>3. Types'
  BY <1>2 DEF TypeInv, Types
<1>4. ReadsFit' /\ SideIsOfItsAsk'
  BY DEF TypeInv, ReadsFit, SideIsOfItsAsk
<1> QED BY <1>2, <1>3, <1>4 DEF TypeInv, PageFits, PickedOnScreen

LEMMA RequestType ==
  /\ \A e \in Events : Request("replay", e, None, e) \in Write
  /\ \A l \in Links, side \in Sides : Request("resolve", l, side, l) \in Write
  /\ \A a \in DemoActions : Request("demo", a, None, a) \in Write
  BY DEF Request, Write

\* The operator asks for a replay, a resolution or a demo action.
LEMMA RequestTypes ==
  ASSUME TypeInv, ReplayAll \/ Resolve \/ (\E e \in Events : Replay(e))
                  \/ \E a \in DemoActions : RunDemo(a)
  PROVE  TypeInv'
<1> USE DEF server, local
<1>t. Types /\ \A w \in writes : /\ w \in Write /\ w.shown = w.id
                                 /\ w.what = "resolve" /\ w.page => path.page = "conflicts"
  BY DEF TypeInv, Types, PageFits, PickedOnScreen
<1>n. \A what, id, side, shown :
        LET w == Request(what, id, side, shown) IN w.what = what /\ w.id = id /\ w.shown = shown
  BY DEF Request
<1>1. ASSUME NEW e \in Events, Replay(e) PROVE TypeInv'
  <2>1. writes' = writes \cup {Request("replay", e, None, e)} BY <1>1 DEF Replay
  <2>2. writes' \in SUBSET Write BY <1>t, <2>1, RequestType
  <2>3. \A w \in writes' : /\ w.shown = w.id
                           /\ w.what = "resolve" /\ w.page => path.page = "conflicts"
    BY <1>t, <1>n, <2>1
  <2> QED BY <1>1, <1>t, <2>2, <2>3, WritesFit DEF Replay, Types
<1>2. CASE ReplayAll
  <2>1. DeadListed \subseteq Events
    <3>1. view["list"].data.rows \in Rows BY <1>t DEF Types, View, Data, Slots
    <3> QED BY <3>1 DEF DeadListed, Rows
  <2>2. \A w \in writes' : w \in writes \/ \E e \in Events : w = Request("replay", e, None, e)
    BY <1>2, <2>1 DEF ReplayAll
  <2>3. writes' \in SUBSET Write BY <1>t, <2>2, RequestType
  <2>4. \A w \in writes' : /\ w.shown = w.id
                           /\ w.what = "resolve" /\ w.page => path.page = "conflicts"
    BY <1>t, <1>n, <2>2
  <2> QED BY <1>2, <1>t, <2>1, <2>3, <2>4, WritesFit DEF ReplayAll, Types
<1>3. CASE Resolve
  <2>1. sheet.id \in Links /\ sheet.winner \in Sides /\ sheet.shown = sheet.id
        /\ path.page = "conflicts"
    BY <1>3 DEF Resolve, TypeInv, Types, PageFits, PickedOnScreen, Sheet
  <2>2. writes' = writes \cup {Request("resolve", sheet.id, sheet.winner, sheet.id)}
    BY <1>3, <2>1 DEF Resolve
  <2>3. writes' \in SUBSET Write BY <1>t, <2>1, <2>2, RequestType
  <2>4. \A w \in writes' : /\ w.shown = w.id
                           /\ w.what = "resolve" /\ w.page => path.page = "conflicts"
    BY <1>t, <1>n, <2>1, <2>2
  <2> QED BY <1>3, <1>t, <2>3, <2>4, WritesFit DEF Resolve, Types
<1>4. ASSUME NEW a \in DemoActions, RunDemo(a) PROVE TypeInv'
  <2>1. writes' = writes \cup {Request("demo", a, None, a)} BY <1>4 DEF RunDemo
  <2>2. writes' \in SUBSET Write BY <1>t, <2>1, RequestType
  <2>3. \A w \in writes' : /\ w.shown = w.id
                           /\ w.what = "resolve" /\ w.page => path.page = "conflicts"
    BY <1>t, <1>n, <2>1
  <2>4. left' \in Situations BY <1>4, <1>t, SpendType DEF RunDemo, Types
  <2> QED BY <1>4, <1>t, <2>2, <2>3, <2>4, WritesFit DEF RunDemo, Types
<1> QED BY <1>1, <1>2, <1>3, <1>4

\* The API carries out a request, and the browser gets its answer.
LEMMA ServingTypes ==
  ASSUME TypeInv, NEW w \in writes,
         ReplayMoves(w) \/ ResolveMoves(w) \/ DemoMoves(w) \/ WriteFails(w)
  PROVE  TypeInv'
<1> USE DEF server, local, InApi
<1>t. /\ Types /\ w \in Write
      /\ \A v \in writes : /\ v \in Write /\ v.shown = v.id
                           /\ v.what = "resolve" /\ v.page => path.page = "conflicts"
  BY DEF TypeInv, Types, PageFits, PickedOnScreen
<1>p. ASSUME NEW at \in {"done", "refused", "failed", "checked"}, at = "checked" => w.what # "demo",
             Proceeds(w, [w EXCEPT !.at = at])
      PROVE  /\ writes' \in SUBSET Write
             /\ \A v \in writes' : /\ v.shown = v.id
                                   /\ v.what = "resolve" /\ v.page => path.page = "conflicts"
  <2> DEFINE x == [w EXCEPT !.at = at]
  <2>1. x \in Write /\ x.shown = w.shown /\ x.id = w.id /\ x.what = w.what /\ x.page = w.page
    BY <1>t, <1>p, WriteMoves
  <2>2. writes' = (writes \ {w}) \cup {x} BY <1>p DEF Proceeds
  <2> HIDE DEF x
  <2> QED BY <1>t, <2>1, <2>2
<1>1. CASE CheckReplay(w)
  <2>1. PICK at \in {"refused", "checked"} : Proceeds(w, [w EXCEPT !.at = at])
    BY <1>1 DEF CheckReplay
  <2>2. w.what = "replay" /\ UNCHANGED <<server, acted, left, path, view, reads, local, sheet, running>>
    BY <1>1 DEF CheckReplay
  <2> QED BY <1>t, <1>p, <2>1, <2>2, WritesFit DEF Types
<1>2. CASE Requeue(w)
  <2>1. w.id \in Events BY <1>2, <1>t DEF Requeue, Write
  <2>2. stage' \in [Events -> Life!Stage] BY <1>2, <1>t, <2>1 DEF Requeue, Types, Life!Stage
  <2>3. Proceeds(w, [w EXCEPT !.at = "done"]) BY <1>2 DEF Requeue
  <2> QED BY <1>2, <1>t, <1>p, <2>1, <2>2, <2>3, WritesFit DEF Requeue, Types
<1>3. CASE ReplayAnswers(w)
  <2>1. w.id \in Events BY <1>3, <1>t DEF ReplayAnswers, Write
  <2>2. writes' \subseteq writes BY <1>3 DEF ReplayAnswers
  <2> QED BY <1>3, <1>t, <2>1, <2>2, WritesFit DEF ReplayAnswers, Types
<1>4. CASE CheckResolve(w)
  <2>1. PICK at \in {"refused", "checked"} : Proceeds(w, [w EXCEPT !.at = at])
    BY <1>4 DEF CheckResolve
  <2>2. w.what = "resolve" /\ UNCHANGED <<server, acted, left, path, view, reads, local, sheet, running>>
    BY <1>4 DEF CheckResolve
  <2> QED BY <1>t, <1>p, <2>1, <2>2, WritesFit DEF Types
<1>5. CASE Settle(w)
  <2>1. w.id \in Links BY <1>5, <1>t DEF Settle, Write
  <2>2. Proceeds(w, [w EXCEPT !.at = "done"]) BY <1>5 DEF Settle
  <2>3. conflict' \in SUBSET Links /\ acted' \in SUBSET (Events \cup Links)
    BY <1>5, <1>t, <2>1 DEF Settle, Types
  <2>4. UNCHANGED <<stage, left, path, view, reads, local, sheet, running>>
    BY <1>5 DEF Settle
  <2> QED BY <1>t, <1>p, <2>2, <2>3, <2>4, WritesFit DEF Types
<1>6. CASE ResolveAnswers(w)
  <2>1. w.what = "resolve" /\ w.id \in Links BY <1>6, <1>t DEF ResolveAnswers, Write
  <2>2. removed' \in SUBSET Links BY <1>6, <1>t, <2>1 DEF ResolveAnswers, Types
  <2>3. UNCHANGED <<server, path, overrides, replaying, running, acted, left>>
    BY <1>6 DEF ResolveAnswers
  <2>4. CASE w.page /\ w.at = "done"
    <3>1. path.page = "conflicts" BY <1>t, <2>1, <2>4
    <3>2. /\ view' = [view EXCEPT !["side"] = Fresh(NoAsk)] /\ reads' = Cancelled({"side"})
          /\ sheet' = NoSheet /\ writes' = Unmounted(writes \ {w})
      BY <1>6, <2>4 DEF ResolveAnswers
    <3>3. \A x \in writes' : \E v \in writes : x = [v EXCEPT !.sheet = FALSE]
      BY <3>2 DEF Unmounted
    <3>4. Loads("side", NoAsk) = {} BY DEF Loads
    <3>5. NoSheet \in Sheet /\ NoSheet.winner = None BY DEF NoSheet, Sheet
    <3> QED BY <2>2, <2>3, <3>1, <3>2, <3>3, <3>4, <3>5, AsksType, SideMounts
  <2>5. CASE ~(w.page /\ w.at = "done")
    <3>1. /\ UNCHANGED <<view, reads>> /\ writes' = writes \ {w}
          /\ \/ sheet' = sheet
             \/ sheet' = [sheet EXCEPT !.resolving = FALSE, !.confirm = FALSE]
      BY <1>6, <2>5 DEF ResolveAnswers
    <3> QED BY <1>t, <2>2, <2>3, <3>1, WritesFit DEF Types
  <2> QED BY <2>4, <2>5
<1>7. CASE WriteFails(w)
  <2>1. Proceeds(w, [w EXCEPT !.at = "failed"]) BY <1>7 DEF WriteFails
  <2>2. left' \in Situations BY <1>7, <1>t, SpendType DEF WriteFails, Mishap, Types
  <2>3. UNCHANGED <<server, acted, path, view, reads, local, sheet, running>>
    BY <1>7 DEF WriteFails
  <2> QED BY <1>t, <1>p, <2>1, <2>2, <2>3, WritesFit DEF Types
<1>8. CASE ServeDemo(w)
  <2>1. Proceeds(w, [w EXCEPT !.at = "done"]) BY <1>8 DEF ServeDemo
  <2>2. stage' \in [Events -> Life!Stage]
    BY <1>8, <1>t DEF ServeDemo, Life!Enqueue, Life!Move, Life!Stage, Types
  <2>3. UNCHANGED <<conflict, acted, left, path, view, reads, local, sheet, running>>
    BY <1>8 DEF ServeDemo
  <2> QED BY <1>t, <1>p, <2>1, <2>2, <2>3, WritesFit DEF Types
<1>9. CASE RefuseDemo(w)
  <2>1. Proceeds(w, [w EXCEPT !.at = "refused"]) BY <1>9 DEF RefuseDemo
  <2>2. UNCHANGED <<server, acted, left, path, view, reads, local, sheet, running>>
    BY <1>9 DEF RefuseDemo
  <2> QED BY <1>t, <1>p, <2>1, <2>2, WritesFit DEF Types
<1>10. CASE DemoAnswers(w)
  <2>1. writes' \subseteq writes /\ running' \subseteq running
        /\ UNCHANGED <<server, acted, left, path, view, reads, local, sheet>>
    BY <1>10 DEF DemoAnswers
  <2> QED BY <1>t, <2>1, WritesFit DEF Types
<1> QED
  BY <1>1, <1>2, <1>3, <1>4, <1>5, <1>6, <1>7, <1>8, <1>9, <1>10
  DEF ReplayMoves, ResolveMoves, DemoMoves

LEMMA TypeInvStep == TypeInv /\ [Next]_vars => TypeInv'
<1> SUFFICES ASSUME TypeInv, [Next]_vars PROVE TypeInv'
  OBVIOUS
<1>1. CASE Operator
  BY <1>1, RemountTypes, SheetTypes, RequestTypes DEF Operator
<1>2. CASE UNCHANGED vars
  BY <1>2 DEF vars, server, local, TypeInv, Types, ReadsFit, SideIsOfItsAsk, PageFits,
              PickedOnScreen
<1> QED BY <1>1, <1>2, BridgeTypes, PollTypes, ReadingTypes, ServingTypes DEF Next

\* Every record keeps its type; a read that is still wanted was made by the view that is
\* still there, and a view that waits has asked.
THEOREM ConsoleTypeOK == Spec => []TypeOK
<1>1. TypeInv => TypeOK BY DEF TypeInv, TypeOK
<1> QED BY <1>1, TypeInvInit, TypeInvStep, PTL DEF Spec

\* The side that is sent was picked while the figures of that very conflict were shown.
THEOREM ChosenOnScreen == Spec => []PickedOnScreen
<1>1. TypeInv => PickedOnScreen BY DEF TypeInv
<1> QED BY <1>1, TypeInvInit, TypeInvStep, PTL DEF Spec
--------------------------------------------------------------------------------
(***************************************************************************)
(* What pages hide, what runs, and what is shown.                          *)
(***************************************************************************)
\* A request that was carried out for the page that is open has done something.
DoneIsActed ==
  \A w \in writes : w.page /\ w.at = "done" /\ w.what # "demo" => w.id \in acted

HidingInv == OnlyDoneIsHidden /\ DoneIsActed

LEMMA HidingStep == TypeInv /\ HidingInv /\ [Next]_vars => HidingInv'
<1> SUFFICES ASSUME TypeInv, HidingInv, [Next]_vars PROVE HidingInv'
  OBVIOUS
<1> USE DEF server, local
<1>t. \A w \in writes : w \in Write
  BY DEF TypeInv, Types
\* Requests come and go, and none of them is carried out.
<1>k. ASSUME overrides' \cup removed' \subseteq overrides \cup removed,
             acted \subseteq acted',
             \A w \in writes' : \/ w \in writes
                                \/ w.at # "done" \/ w.what = "demo"
                                \/ \E v \in writes : w = [v EXCEPT !.sheet = FALSE]
      PROVE  HidingInv'
  <2>1. ASSUME NEW w \in writes', w.page, w.at = "done", w.what # "demo"
        PROVE  w.id \in acted'
    <3>1. CASE w \in writes
      BY <1>k, <2>1, <3>1 DEF HidingInv, DoneIsActed
    <3>2. ASSUME NEW v \in writes, w = [v EXCEPT !.sheet = FALSE] PROVE w.id \in acted'
      <4>1. v.page = w.page /\ v.at = w.at /\ v.what = w.what /\ v.id = w.id
        BY <1>t, <3>2, WriteLeaves
      <4> QED BY <1>k, <2>1, <4>1 DEF HidingInv, DoneIsActed
    <3> QED BY <1>k, <2>1, <3>1, <3>2
  <2> QED BY <1>k, <2>1 DEF HidingInv, OnlyDoneIsHidden, DoneIsActed
<1>p. ASSUME NEW w \in writes, NEW at \in {"done", "refused", "failed", "checked"},
             at = "checked" => w.what # "demo", Proceeds(w, [w EXCEPT !.at = at])
      PROVE  \A v \in writes' : v \in writes \/ (v.at = at /\ v.what = w.what /\ v.id = w.id)
  <2> DEFINE x == [w EXCEPT !.at = at]
  <2>1. x.at = at /\ x.what = w.what /\ x.id = w.id
    BY <1>t, <1>p, WriteMoves
  <2>2. writes' = (writes \ {w}) \cup {x} BY <1>p DEF Proceeds
  <2> HIDE DEF x
  <2> QED BY <2>1, <2>2
<1>r. \A what, id, side, shown : Request(what, id, side, shown).at = "sent"
  BY DEF Request
<1>1. CASE Bridge
  BY <1>1, <1>k DEF Bridge, Run, Finish, Release, Bury, Flag, SettledElsewhere, Elsewhere
<1>2. ASSUME NEW p \in Paths, Go(p) PROVE HidingInv'
  <2>1. ASSUME NEW w \in writes' PROVE ~w.page
    <3>1. PICK v \in writes : w = [v EXCEPT !.page = FALSE, !.sheet = FALSE]
      BY <1>2 DEF Go
    <3> QED BY <1>t, <3>1, WriteLeaves
  <2> QED BY <1>2, <2>1 DEF Go, HidingInv, OnlyDoneIsHidden, DoneIsActed
<1>3. CASE \/ \E S \in SUBSET Slots : Reload(S)
           \/ \E what \in {"links", "links in conflict"} : Filter(what)
           \/ \E s \in Slots : Poll(s)
           \/ AskToConfirm \/ Think \/ \E side \in Sides : Pick(side)
  BY <1>3, <1>k DEF Reload, Filter, Poll, AskToConfirm, Think, Pick
<1>4. ASSUME NEW c \in reads, Reading(c) PROVE HidingInv'
  BY <1>4, <1>k DEF Reading, Count, Serve, ReadFails, Arrive, ReadOnly
<1>5. CASE CloseSheet \/ \E l \in Links : Select(l)
  BY <1>5, <1>k DEF CloseSheet, Select, Unmounted
<1>6. ASSUME NEW e \in Events, Replay(e) PROVE HidingInv'
  BY <1>6, <1>k, <1>r DEF Replay
<1>7. CASE ReplayAll
  BY <1>7, <1>k, <1>r DEF ReplayAll
<1>8. CASE Resolve
  BY <1>8, <1>k, <1>r DEF Resolve
<1>9. ASSUME NEW a \in DemoActions, RunDemo(a) PROVE HidingInv'
  BY <1>9, <1>k, <1>r DEF RunDemo
<1>10. ASSUME NEW w \in writes,
              CheckReplay(w) \/ CheckResolve(w) \/ WriteFails(w) \/ RefuseDemo(w) \/ ServeDemo(w)
       PROVE  HidingInv'
  <2>1. PICK at \in {"done", "refused", "failed", "checked"} :
          /\ Proceeds(w, [w EXCEPT !.at = at])
          /\ at = "checked" => w.what # "demo"
          /\ at = "done" => w.what = "demo"
    BY <1>10 DEF CheckReplay, CheckResolve, WriteFails, RefuseDemo, ServeDemo
  <2>2. UNCHANGED <<overrides, removed, acted>>
    BY <1>10 DEF CheckReplay, CheckResolve, WriteFails, RefuseDemo, ServeDemo, InApi
  <2> QED BY <1>k, <1>p, <2>1, <2>2
<1>11. ASSUME NEW w \in writes, Requeue(w) \/ Settle(w) PROVE HidingInv'
  <2>1. Proceeds(w, [w EXCEPT !.at = "done"]) /\ acted' = acted \cup {w.id}
        /\ UNCHANGED <<overrides, removed>>
    BY <1>11 DEF Requeue, Settle, InApi
  <2>2. \A v \in writes' : v \in writes \/ v.id = w.id
    BY <1>p, <2>1
  <2> QED BY <2>1, <2>2 DEF HidingInv, OnlyDoneIsHidden, DoneIsActed
<1>12. ASSUME NEW w \in writes, ReplayAnswers(w) PROVE HidingInv'
  <2>1. w.page /\ w.at = "done" => w.id \in acted
    BY <1>12 DEF ReplayAnswers, HidingInv, DoneIsActed
  <2>2. /\ writes' \subseteq writes /\ acted' = acted /\ removed' = removed
        /\ overrides' = IF w.page /\ w.at = "done" THEN overrides \cup {w.id} ELSE overrides
    BY <1>12 DEF ReplayAnswers
  <2> QED BY <2>1, <2>2 DEF HidingInv, OnlyDoneIsHidden, DoneIsActed
<1>13. ASSUME NEW w \in writes, ResolveAnswers(w) PROVE HidingInv'
  <2>1. w.page /\ w.at = "done" => w.id \in acted
    BY <1>13 DEF ResolveAnswers, HidingInv, DoneIsActed
  <2>2. /\ acted' = acted /\ overrides' = overrides
        /\ removed' = IF w.page /\ w.at = "done" THEN removed \cup {w.id} ELSE removed
        /\ writes' \in {writes \ {w}, Unmounted(writes \ {w})}
    BY <1>13 DEF ResolveAnswers
  <2>3. ASSUME NEW x \in writes', x.page, x.at = "done", x.what # "demo"
        PROVE  x.id \in acted
    <3>1. CASE x \in writes
      BY <2>3, <3>1 DEF HidingInv, DoneIsActed
    <3>2. ASSUME NEW v \in writes, x = [v EXCEPT !.sheet = FALSE] PROVE x.id \in acted
      <4>1. v.page = x.page /\ v.at = x.at /\ v.what = x.what /\ v.id = x.id
        BY <1>t, <3>2, WriteLeaves
      <4> QED BY <2>3, <4>1 DEF HidingInv, DoneIsActed
    <3> QED BY <2>2, <3>1, <3>2 DEF Unmounted
  <2> QED BY <2>1, <2>2, <2>3 DEF HidingInv, OnlyDoneIsHidden, DoneIsActed
<1>14. ASSUME NEW w \in writes, DemoAnswers(w) PROVE HidingInv'
  BY <1>14, <1>k DEF DemoAnswers
<1>15. CASE UNCHANGED vars
  BY <1>15, <1>k DEF vars
<1> QED
  BY <1>1, <1>2, <1>3, <1>4, <1>5, <1>6, <1>7, <1>8, <1>9, <1>10, <1>11, <1>12, <1>13, <1>14, <1>15
  DEF Next, Operator, ReplayMoves, ResolveMoves, DemoMoves

\* What a page no longer lists was requeued or settled since the page was opened.
THEOREM HiddenIsDone == Spec => []OnlyDoneIsHidden
<1>1. Init => HidingInv
  BY DEF Init, HidingInv, OnlyDoneIsHidden, DoneIsActed
<1>2. HidingInv => OnlyDoneIsHidden
  BY DEF HidingInv
<1> QED BY <1>1, <1>2, HidingStep, TypeInvInit, TypeInvStep, PTL DEF Spec
--------------------------------------------------------------------------------
LEMMA DemoStep == TypeInv /\ DemoRunsOnce /\ [Next]_vars => DemoRunsOnce'
<1> SUFFICES ASSUME TypeInv, DemoRunsOnce, [Next]_vars PROVE DemoRunsOnce'
  OBVIOUS
<1> USE DEF server, local
<1>t. \A w \in writes : w \in Write
  BY DEF TypeInv, Types
\* Demo requests are left alone.
<1>l. ASSUME running' = running,
             \A w : w \in writes' /\ w.what = "demo" <=> w \in writes /\ w.what = "demo"
      PROVE  DemoRunsOnce'
  <2>1. DemoRuns' = DemoRuns BY <1>l DEF DemoRuns
  <2> QED BY <1>l, <2>1 DEF DemoRunsOnce
\* Requests lose their sheet, or their page.
<1>m. ASSUME NEW X \in SUBSET writes, \A v \in writes \ X : v.what # "demo", running' = running,
             NEW f, writes' = {f[v] : v \in X},
             \A v \in X : f[v].what = v.what /\ f[v].id = v.id
      PROVE  DemoRunsOnce'
  <2>1. DemoRuns \subseteq X
    BY <1>m DEF DemoRuns
  <2>2. DemoRuns' = {f[v] : v \in DemoRuns}
    <3>1. ASSUME NEW w \in DemoRuns' PROVE \E v \in DemoRuns : w = f[v]
      BY <1>m DEF DemoRuns
    <3>2. ASSUME NEW v \in DemoRuns PROVE f[v] \in DemoRuns'
      BY <1>m, <2>1 DEF DemoRuns
    <3> QED BY <3>1, <3>2
  <2>3. \A v \in DemoRuns : f[v].id = v.id
    BY <1>m, <2>1
  <2>4. \A v, w \in DemoRuns' : v.id = w.id => v = w
    BY <2>2, <2>3 DEF DemoRunsOnce
  <2>5. {w.id : w \in DemoRuns'} = {w.id : w \in DemoRuns}
    BY <2>2, <2>3
  <2> QED BY <1>m, <2>4, <2>5 DEF DemoRunsOnce
<1>o. ASSUME NEW X \in SUBSET writes, \A v \in writes \ X : v.what # "demo", running' = running,
             \/ writes' = {[v EXCEPT !.sheet = FALSE] : v \in X}
             \/ writes' = {[v EXCEPT !.page = FALSE, !.sheet = FALSE] : v \in X}
      PROVE  DemoRunsOnce'
  <2>1. CASE writes' = {[v EXCEPT !.sheet = FALSE] : v \in X}
    <3> DEFINE f == [v \in X |-> [v EXCEPT !.sheet = FALSE]]
    <3>1. \A v \in X : f[v] = [v EXCEPT !.sheet = FALSE] OBVIOUS
    <3>2. \A v \in X : f[v].what = v.what /\ f[v].id = v.id
      BY <1>t, <3>1, WriteLeaves
    <3>3. writes' = {f[v] : v \in X} BY <2>1, <3>1
    <3>4. \A v \in writes \ X : v.what # "demo" BY <1>o
    <3>5. running' = running BY <1>o
    <3> HIDE DEF f
    <3> QED BY <1>m, <3>2, <3>3, <3>4, <3>5, Zenon
  <2>2. CASE writes' = {[v EXCEPT !.page = FALSE, !.sheet = FALSE] : v \in X}
    <3> DEFINE f == [v \in X |-> [v EXCEPT !.page = FALSE, !.sheet = FALSE]]
    <3>1. \A v \in X : f[v] = [v EXCEPT !.page = FALSE, !.sheet = FALSE] OBVIOUS
    <3>2. \A v \in X : f[v].what = v.what /\ f[v].id = v.id
      BY <1>t, <3>1, WriteLeaves
    <3>3. writes' = {f[v] : v \in X} BY <2>2, <3>1
    <3>4. \A v \in writes \ X : v.what # "demo" BY <1>o
    <3>5. running' = running BY <1>o
    <3> HIDE DEF f
    <3> QED BY <1>m, <3>2, <3>3, <3>4, <3>5, Zenon
  <2> QED BY <1>o, <2>1, <2>2
\* A request goes on.
<1>p. ASSUME NEW w \in writes, NEW at \in {"done", "refused", "failed", "checked"},
             at = "checked" => w.what # "demo", Proceeds(w, [w EXCEPT !.at = at]),
             running' = running
      PROVE  DemoRunsOnce'
  <2> DEFINE x == [w EXCEPT !.at = at]
  <2>1. x.what = w.what /\ x.id = w.id
    BY <1>t, <1>p, WriteMoves
  <2>2. writes' = (writes \ {w}) \cup {x} BY <1>p DEF Proceeds
  <2> HIDE DEF x
  <2>3. DemoRuns' = IF w.what = "demo" THEN (DemoRuns \ {w}) \cup {x} ELSE DemoRuns
    BY <2>1, <2>2 DEF DemoRuns
  <2>4. w.what = "demo" => w \in DemoRuns BY DEF DemoRuns
  <2> QED BY <1>p, <2>1, <2>3, <2>4 DEF DemoRunsOnce
<1>r. \A what, id, side, shown :
        LET w == Request(what, id, side, shown) IN w.what = what /\ w.id = id
  BY DEF Request
<1>1. CASE \/ Bridge
           \/ \E S \in SUBSET Slots : Reload(S)
           \/ \E what \in {"links", "links in conflict"} : Filter(what)
           \/ \E s \in Slots : Poll(s)
           \/ AskToConfirm \/ Think \/ \E side \in Sides : Pick(side)
           \/ \E c \in reads : Reading(c)
  <2>1. UNCHANGED <<writes, running>>
    BY <1>1 DEF Bridge, Run, Finish, Release, Bury, Flag, SettledElsewhere, Elsewhere, Reload, Filter,
                Poll, AskToConfirm, Think, Pick, Reading, Count, Serve, ReadFails, Arrive, ReadOnly
  <2> QED BY <1>l, <2>1
<1>2. CASE (\E p \in Paths : Go(p)) \/ CloseSheet \/ \E l \in Links : Select(l)
  BY <1>2, <1>o DEF Go, CloseSheet, Select, Unmounted
<1>3. CASE (\E e \in Events : Replay(e)) \/ ReplayAll \/ Resolve
  <2>1. running' = running /\ writes \subseteq writes'
        /\ \A w \in writes' \ writes : \E what, id, side, shown :
             what # "demo" /\ w = Request(what, id, side, shown)
    BY <1>3 DEF Replay, ReplayAll, Resolve
  <2>2. \A w \in writes' \ writes : w.what # "demo"
    BY <1>r, <2>1
  <2> QED BY <1>l, <2>1, <2>2
<1>4. ASSUME NEW a \in DemoActions, RunDemo(a) PROVE DemoRunsOnce'
  <2> DEFINE x == Request("demo", a, None, a)
  <2>1. x.what = "demo" /\ x.id = a BY <1>r
  <2>2. writes' = writes \cup {x} /\ running' = running \cup {a} /\ a \notin running
    BY <1>4 DEF RunDemo
  <2> HIDE DEF x
  <2>3. DemoRuns' = DemoRuns \cup {x} BY <2>1, <2>2 DEF DemoRuns
  <2> QED BY <2>1, <2>2, <2>3 DEF DemoRunsOnce
<1>5. ASSUME NEW w \in writes,
             \/ CheckReplay(w) \/ CheckResolve(w) \/ WriteFails(w) \/ RefuseDemo(w) \/ ServeDemo(w)
             \/ Requeue(w) \/ Settle(w)
      PROVE  DemoRunsOnce'
  <2>1. PICK at \in {"done", "refused", "failed", "checked"} :
          Proceeds(w, [w EXCEPT !.at = at]) /\ (at = "checked" => w.what # "demo")
    BY <1>5 DEF CheckReplay, CheckResolve, WriteFails, RefuseDemo, ServeDemo, Requeue, Settle
  <2>2. running' = running
    BY <1>5 DEF CheckReplay, CheckResolve, WriteFails, RefuseDemo, ServeDemo, Requeue, Settle, InApi
  <2> QED BY <1>p, <2>1, <2>2
<1>6. ASSUME NEW w \in writes, ReplayAnswers(w) PROVE DemoRunsOnce'
  BY <1>6, <1>l DEF ReplayAnswers
<1>7. ASSUME NEW w \in writes, ResolveAnswers(w) PROVE DemoRunsOnce'
  <2>1. w.what = "resolve" /\ running' = running
        /\ writes' \in {writes \ {w}, Unmounted(writes \ {w})}
    BY <1>7 DEF ResolveAnswers
  <2>2. CASE writes' = writes \ {w} BY <1>l, <2>1, <2>2
  <2>3. CASE writes' = Unmounted(writes \ {w}) BY <1>o, <2>1, <2>3 DEF Unmounted
  <2> QED BY <2>1, <2>2, <2>3
<1>8. ASSUME NEW w \in writes, DemoAnswers(w) PROVE DemoRunsOnce'
  <2>1. w \in DemoRuns /\ DemoRuns' = DemoRuns \ {w} /\ running' = running \ {w.id}
    BY <1>8 DEF DemoAnswers, DemoRuns
  <2> QED BY <2>1 DEF DemoRunsOnce
<1>9. CASE UNCHANGED vars
  BY <1>9, <1>l DEF vars
<1> QED
  BY <1>1, <1>2, <1>3, <1>4, <1>5, <1>6, <1>7, <1>8, <1>9
  DEF Next, Operator, ReplayMoves, ResolveMoves, DemoMoves

\* The panel says that an action runs exactly while its request is under way.
THEOREM DemoIsTold == Spec => []DemoRunsOnce
<1>1. Init => DemoRunsOnce
  BY DEF Init, DemoRunsOnce, DemoRuns
<1> QED BY <1>1, DemoStep, TypeInvInit, TypeInvStep, PTL DEF Spec
--------------------------------------------------------------------------------
\* No step of a view that shows what it asks for makes it show anything else.
LEMMA KeepsShowing ==
  ASSUME TypeInv, [Next]_vars, NEW s \in Slots,
         view[s].data.of = view[s].ask, view'[s].ask = view[s].ask, view'[s].data # Nothing
  PROVE  view'[s].data.of = view[s].ask
<1> USE DEF server, local
<1>t. view \in [Slots -> View] BY DEF TypeInv, Types
<1>1. CASE view'[s].data = view[s].data
  BY <1>1
<1>2. ASSUME NEW p \in Paths, Go(p) PROVE FALSE
  <2>1. view'[s] = Fresh(SlotAsk(p, s)) BY <1>2 DEF Go, Mounted
  <2> QED BY <2>1, FreshShows
<1>3. ASSUME NEW S \in SUBSET Slots, Reload(S) PROVE view'[s].data = view[s].data
  BY <1>3, <1>t DEF Reload, View
<1>4. ASSUME NEW what \in {"links", "links in conflict"}, Filter(what)
      PROVE  view'[s].data = view[s].data
  BY <1>4, <1>t DEF Filter, View
<1>5. ASSUME NEW ask, view' = [view EXCEPT !["side"] = Fresh(ask)]
      PROVE  view'[s].data = view[s].data
  <2>1. CASE s = "side"
    <3>1. view'[s] = Fresh(ask) BY <1>5, <1>t, <2>1
    <3> QED BY <3>1, FreshShows
  <2>2. CASE s # "side"
    BY <1>5, <1>t, <2>2
  <2> QED BY <2>1, <2>2
<1>6. CASE CloseSheet \/ \E l \in Links : Select(l)
  BY <1>1, <1>5, <1>6 DEF CloseSheet, Select
<1>7. ASSUME NEW c \in reads, Arrive(c) PROVE view'[s].data.of = view[s].ask
  <2>1. CASE c.live /\ c.slot = s
    <3>1. c.ask = view[s].ask BY <2>1 DEF TypeInv, ReadsFit
    <3>2. view'[s] \in {Loaded(c), NotLoaded(c)} BY <1>7, <1>t, <2>1 DEF Arrive
    <3>3. CASE view'[s] = Loaded(c)
      BY <3>1, <3>3, ShownType DEF TypeInv
    <3>4. CASE view'[s] = NotLoaded(c)
      BY <1>1, <2>1, <3>4, ShownType DEF TypeInv
    <3> QED BY <3>2, <3>3, <3>4
  <2>2. CASE ~(c.live /\ c.slot = s)
    <3>1. view'[s] = view[s] BY <1>7, <1>t, <2>2 DEF Arrive
    <3> QED BY <1>1, <3>1
  <2> QED BY <2>1, <2>2
<1>8. ASSUME NEW w \in writes, ResolveAnswers(w) PROVE view'[s].data = view[s].data
  BY <1>5, <1>8 DEF ResolveAnswers
<1>9. CASE Bridge \/ UNCHANGED vars
  BY <1>1, <1>9 DEF Bridge, Run, Finish, Release, Bury, Flag, SettledElsewhere, Elsewhere, vars
<1>10. CASE \/ \E e \in Events : Replay(e)
            \/ ReplayAll \/ Resolve \/ AskToConfirm \/ Think
            \/ \E side \in Sides : Pick(side)
            \/ \E a \in DemoActions : RunDemo(a)
            \/ \E x \in Slots : Poll(x)
            \/ \E c \in reads : Count(c) \/ Serve(c) \/ ReadFails(c)
  BY <1>1, <1>10 DEF Replay, ReplayAll, Resolve, AskToConfirm, Think, Pick, RunDemo, Poll, Count, Serve,
                     ReadFails, ReadOnly
<1>11. ASSUME NEW w \in writes,
              ReplayMoves(w) \/ CheckResolve(w) \/ Settle(w) \/ DemoMoves(w) \/ WriteFails(w)
       PROVE  view'[s].data = view[s].data
  BY <1>11 DEF ReplayMoves, DemoMoves, CheckReplay, Requeue, ReplayAnswers, CheckResolve, Settle,
               ServeDemo, RefuseDemo, DemoAnswers, WriteFails, InApi
<1> QED
  BY <1>1, <1>2, <1>3, <1>4, <1>6, <1>7, <1>8, <1>9, <1>10, <1>11
  DEF Next, Operator, Reading, ResolveMoves

\* No answer to what a view asked for earlier takes the place of what it shows.
THEOREM LateAnswersAreDropped == Spec => NoLateAnswer
<1>1. TypeInv /\ [Next]_vars =>
        [\A s \in Slots : /\ view[s].data.of = view[s].ask
                          /\ view'[s].ask = view[s].ask
                          /\ view'[s].data # Nothing
                          => view'[s].data.of = view[s].ask]_vars
  BY KeepsShowing
<1> QED BY <1>1, TypeInvInit, TypeInvStep, PTL DEF Spec, NoLateAnswer
================================================================================
