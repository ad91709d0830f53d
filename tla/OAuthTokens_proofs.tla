--------------------------- MODULE OAuthTokens_proofs ---------------------------
(***************************************************************************)
(* Proofs about OAuthTokens for any number of requests under way, any      *)
(* lifetimes with a skew that covers two delays, and any number of         *)
(* refresh tokens that Intuit takes.                                       *)
(***************************************************************************)
EXTENDS OAuthTokens, TLAPS

Request == [pc : Pc, age : 0..Delay, pair : Pair]
Row     == [connected : BOOLEAN, expires : 0..Life, pair : Pair]
Visitor == [pc : {"idle", "consenting", "exchanging", "saving"}, age : 0..Delay,
            state : 0..StateTtl, pair : Pair]

\* Every pair is a pair after a tick or another's refresh.
LEMMA PairTypes ==
  /\ NoPair \in Pair /\ Issued \in Pair
  /\ \A p \in Pair : /\ Newer(p) \in Pair /\ Newer(p).left = p.left
                     /\ Newer(p).behind = IF p.behind < Honoured THEN p.behind + 1
                                          ELSE p.behind
  /\ \A p \in Pair : /\ Older(p) \in Pair /\ Older(p).behind = p.behind
                     /\ Older(p).left = Less(p.left)
<1> USE TimesAreNaturals, HonouredIsPositive
<1>1. NoPair \in Pair /\ Issued \in Pair
  BY DEF NoPair, Issued, Pair
<1>2. ASSUME NEW p \in Pair
      PROVE  /\ Newer(p) \in Pair /\ Newer(p).left = p.left
             /\ Newer(p).behind = IF p.behind < Honoured THEN p.behind + 1 ELSE p.behind
  BY DEF Newer, Pair
<1>3. ASSUME NEW p \in Pair
      PROVE  /\ Older(p) \in Pair /\ Older(p).behind = p.behind
             /\ Older(p).left = Less(p.left)
  BY DEF Older, Less, Pair
<1> QED BY <1>1, <1>2, <1>3

LEMMA RequestIdle == Idle \in Request
  BY PairTypes, TimesAreNaturals DEF Idle, Request, Pc

LEMMA VisitIdle == NoVisit \in Visitor
  BY PairTypes, TimesAreNaturals DEF NoVisit, Visitor

\* The ghost is counted within its bounds, whoever counts.
LEMMA SlipTypes ==
  ASSUME TypeOK
  PROVE  /\ Slip => slips' \in 0..Honoured
         /\ \A S, b : CountRace(S, b) => slips' \in 0..Honoured
         /\ \A p, S, b : Kept(p, S, b) => slips' \in 0..Honoured
  BY HonouredIsPositive DEF TypeOK, Slip, CountRace, Kept

LEMMA MishapType == TypeOK /\ Mishap => mishaps' \in 0..MaxMishaps
  BY TimesAreNaturals DEF TypeOK, Mishap

\* Every step keeps the types.
LEMMA NextTypeOK == TypeOK /\ [Next]_vars => TypeOK'
<1> SUFFICES ASSUME TypeOK, [Next]_vars PROVE TypeOK'
  OBVIOUS
<1>0. /\ row \in Row /\ request \in [Requests -> Request] /\ visit \in Visitor
      /\ slips \in 0..Honoured /\ mishaps \in 0..MaxMishaps
      /\ \A r \in Requests : request[r].pc = "idle" => request[r].age = 0
  BY DEF TypeOK, Row, Request, Visitor, InFlight
<1>T. ASSUME row' \in Row, request' \in [Requests -> Request], visit' \in Visitor,
             slips' \in 0..Honoured, mishaps' \in 0..MaxMishaps,
             \A r \in Requests : request'[r].pc = "idle" => request'[r].age = 0
      PROVE  TypeOK'
  BY <1>T DEF TypeOK, Row, Request, Visitor, InFlight
<1> USE TimesAreNaturals
<1>I. ASSUME NEW r \in Requests, request' = [request EXCEPT ![r] = Idle]
      PROVE  /\ request' \in [Requests -> Request]
             /\ \A q \in Requests : request'[q].pc = "idle" => request'[q].age = 0
  BY <1>0, <1>I, RequestIdle DEF Idle
<1>1. ASSUME NEW r \in Requests, Begin(r) PROVE TypeOK'
  BY <1>0, <1>1, <1>T DEF Begin, Goto, Request, Pc
<1>2. ASSUME NEW r \in Requests, NotConnected(r) \/ Refused(r) \/ Call(r) PROVE TypeOK'
  BY <1>0, <1>2, <1>I, <1>T DEF NotConnected, Refused, Call
<1>3. ASSUME NEW r \in Requests, HandOut(r) \/ NeedsRefresh(r) PROVE TypeOK'
  <2>1. request' \in [Requests -> Request]
    BY <1>0, <1>3 DEF HandOut, NeedsRefresh, Request, Row, Pc
  <2>2. \A q \in Requests : request'[q].pc = "idle" => request'[q].age = 0
    BY <1>0, <1>3 DEF HandOut, NeedsRefresh, Request
  <2> QED BY <1>0, <1>3, <1>T, <2>1, <2>2 DEF HandOut, NeedsRefresh
<1>4. ASSUME NEW r \in Requests, Refresh(r) PROVE TypeOK'
  <2>1. row' \in Row
    BY <1>0, <1>4, PairTypes DEF Refresh, Reissue, Row
  <2>2. request' \in [Requests -> Request]
    <3>1. ASSUME NEW q \in Requests PROVE [request[q] EXCEPT !.pair = Newer(@)] \in Request
      BY <1>0, PairTypes DEF Request
    <3>2. [request[r] EXCEPT !.pc = "saving", !.pair = Issued] \in Request
      BY <1>0, PairTypes DEF Request, Pc
    <3> QED BY <1>4, <3>1, <3>2 DEF Refresh, Reissue
  <2>3. visit' \in Visitor
    BY <1>0, <1>4, PairTypes DEF Refresh, Reissue, Visitor
  <2>4. \A q \in Requests : request'[q].pc = "idle" => request'[q].age = 0
    BY <1>0, <1>4 DEF Refresh, Reissue, Request
  <2> QED BY <1>0, <1>4, <1>T, <2>1, <2>2, <2>3, <2>4, SlipTypes DEF Refresh
<1>5. ASSUME NEW r \in Requests, Save(r) PROVE TypeOK'
  <2>1. Life - request[r].age \in 0..Life
    BY <1>0, SkewCoversDelays DEF Request
  <2>2. row' \in Row
    BY <1>0, <1>5, <2>1 DEF Save, Saved, Row, Request
  <2> QED BY <1>0, <1>5, <1>T, <2>2, SlipTypes DEF Save, Goto, Request, Pc
<1>6. ASSUME NEW r \in Requests, Fail(r) PROVE TypeOK'
  <2>1. slips' \in 0..Honoured
    BY <1>0, <1>6, SlipTypes DEF Fail
  <2> QED BY <1>0, <1>6, <2>1, <1>I, <1>T, MishapType DEF Fail
<1>7. CASE Connect \/ Callback
  <2>1. visit' \in Visitor
    <3>1. CASE Connect
      <4>1. StateTtl \in 0..StateTtl OBVIOUS
      <4> QED BY <1>0, <3>1, <4>1 DEF Connect, Visitor
    <3>2. CASE Callback
      BY <1>0, <3>2 DEF Callback, Visitor
    <3> QED BY <1>7, <3>1, <3>2
  <2>2. UNCHANGED <<row, request, slips, mishaps>>
    BY <1>7 DEF Connect, Callback
  <2> QED BY <1>0, <1>T, <2>1, <2>2
<1>8. CASE Rejected
  BY <1>0, <1>8, <1>T, VisitIdle DEF Rejected
<1>9. CASE Exchange
  <2>1. row' \in Row
    BY <1>0, <1>9, PairTypes DEF Exchange, Row
  <2>2. request' \in [Requests -> Request]
    BY <1>0, <1>9, PairTypes DEF Exchange, Request
  <2>3. visit' \in Visitor
    BY <1>0, <1>9, PairTypes DEF Exchange, Visitor
  <2>4. \A q \in Requests : request'[q].pc = "idle" => request'[q].age = 0
    BY <1>0, <1>9 DEF Exchange, Request
  <2> QED BY <1>0, <1>9, <1>T, <2>1, <2>2, <2>3, <2>4, SlipTypes DEF Exchange
<1>10. CASE SaveVisit
  <2>1. row' \in Row
    BY <1>0, <1>10 DEF SaveVisit, Saved, Row, Visitor
  <2> QED BY <1>0, <1>10, <1>T, <2>1, VisitIdle, SlipTypes DEF SaveVisit
<1>11. CASE VisitFails
  <2>1. slips' \in 0..Honoured
    BY <1>0, <1>11, SlipTypes DEF VisitFails
  <2> QED BY <1>0, <1>11, <1>T, <2>1, VisitIdle, MishapType DEF VisitFails
<1>12. CASE Tick
  <2>L. \A m \in Nat : \A n \in 0..m : Less(n) \in 0..m
    BY DEF Less
  <2>1. row' \in Row
    <3>1. Less(row.expires) \in 0..Life /\ Older(row.pair) \in Pair
      BY <1>0, <2>L, PairTypes DEF Row
    <3>2. row' = [row EXCEPT !.expires = Less(row.expires), !.pair = Older(row.pair)]
      BY <1>12 DEF Tick
    <3> QED BY <1>0, <3>1, <3>2 DEF Row
  <2>2. request' \in [Requests -> Request]
    <3>1. ASSUME NEW r \in Requests
          PROVE  [request[r] EXCEPT !.age = IF InFlight(r) THEN @ + 1 ELSE @,
                                    !.pair = Older(@)] \in Request
      <4>1. Older(request[r].pair) \in Pair
        BY <1>0, PairTypes DEF Request
      <4>2. (IF InFlight(r) THEN request[r].age + 1 ELSE request[r].age) \in 0..Delay
        <5>1. request[r].age \in 0..Delay BY <1>0 DEF Request
        <5>2. InFlight(r) => request[r].age < Delay BY <1>12 DEF Tick
        <5> QED BY <5>1, <5>2
      <4> QED BY <1>0, <4>1, <4>2 DEF Request
    <3> QED BY <1>12, <3>1 DEF Tick
  <2>3. visit' \in Visitor
    <3>1. Less(visit.state) \in 0..StateTtl /\ Older(visit.pair) \in Pair
      BY <1>0, <2>L, PairTypes DEF Visitor
    <3>2. (IF visit.pc = "saving" THEN visit.age + 1 ELSE visit.age) \in 0..Delay
      <4>1. visit.age \in 0..Delay BY <1>0 DEF Visitor
      <4>2. visit.pc = "saving" => visit.age < Delay BY <1>12 DEF Tick
      <4> QED BY <4>1, <4>2
    <3>3. visit' = [visit EXCEPT !.age = IF visit.pc = "saving" THEN @ + 1 ELSE @,
                                 !.state = Less(@), !.pair = Older(@)]
      BY <1>12 DEF Tick
    <3> QED BY <1>0, <3>1, <3>2, <3>3 DEF Visitor
  <2>4. \A q \in Requests : request'[q].pc = "idle" => request'[q].age = 0
    BY <1>0, <1>12 DEF Tick, Request, InFlight
  <2> QED BY <1>0, <1>12, <1>T, <2>1, <2>2, <2>3, <2>4 DEF Tick
<1>13. CASE UNCHANGED vars
  BY <1>0, <1>13, <1>T DEF vars
<1> QED
  BY <1>1, <1>2, <1>3, <1>4, <1>5, <1>6, <1>7, <1>8, <1>9, <1>10, <1>11, <1>12, <1>13
  DEF Next, Serve, Visit

LEMMA InitTypeOK == Init => TypeOK
  BY PairTypes, TimesAreNaturals, HonouredIsPositive DEF Init, TypeOK, Pc, InFlight

\* The row, the requests and the visit keep their types.
THEOREM TokensTypeOK == Spec => []TypeOK
  BY InitTypeOK, NextTypeOK, PTL DEF Spec
--------------------------------------------------------------------------------
\* What the row says is off by a delay at most, and to whoever holds a pair remains
\* what its time to the end of its call may take.
Alive ==
  /\ row.pair.left + Delay >= row.expires
  /\ \A r \in Requests :
       /\ request[r].pc = "calling" => request[r].pair.left > Delay - request[r].age
       /\ request[r].pc = "saving" => request[r].pair.left >= Life - request[r].age
  /\ visit.pc = "saving" => visit.pair.left >= Life - visit.age
  /\ visit.pc # "saving" => visit.age = 0

LEMMA NextAlive == TypeOK /\ Alive /\ [Next]_vars => Alive'
<1> SUFFICES ASSUME TypeOK, Alive, [Next]_vars PROVE Alive'
  OBVIOUS
<1>0. /\ row \in Row /\ request \in [Requests -> Request] /\ visit \in Visitor
  BY DEF TypeOK, Row, Request, Visitor
<1>P. /\ row.pair \in Pair /\ visit.pair \in Pair /\ visit.age \in 0..Delay
      /\ row.expires \in 0..Life
      /\ \A r \in Requests : request[r].pair \in Pair /\ request[r].age \in 0..Delay
  BY <1>0 DEF Row, Request, Visitor
<1>L. /\ row.pair.left \in 0..Life /\ visit.pair.left \in 0..Life
      /\ \A r \in Requests : request[r].pair.left \in 0..Life
  BY <1>P DEF Pair
<1> USE TimesAreNaturals, SkewCoversDelays
<1>I. ASSUME NEW r \in Requests, request' = [request EXCEPT ![r] = Idle],
             UNCHANGED <<row, visit>>
      PROVE  Alive'
  BY <1>0, <1>I DEF Alive, Idle
<1>1. ASSUME NEW r \in Requests, Begin(r) PROVE Alive'
  BY <1>0, <1>1 DEF Begin, Goto, Alive, Request
<1>2. ASSUME NEW r \in Requests, NotConnected(r) \/ Refused(r) \/ Call(r) \/ Fail(r)
      PROVE  Alive'
  BY <1>2, <1>I DEF NotConnected, Refused, Call, Fail
<1>3. ASSUME NEW r \in Requests, HandOut(r) PROVE Alive'
  <2>1. row.pair.left > Delay - request[r].age
    BY <1>3, <1>P, <1>L DEF HandOut, Outlives, Alive
  <2> QED BY <1>0, <1>3, <2>1 DEF HandOut, Alive, Request
<1>4. ASSUME NEW r \in Requests, NeedsRefresh(r) PROVE Alive'
  BY <1>0, <1>4 DEF NeedsRefresh, Alive, Request
<1>5. ASSUME NEW r \in Requests, Refresh(r) PROVE Alive'
  <2>1. row'.pair.left = row.pair.left /\ row'.expires = row.expires
    BY <1>0, <1>5, <1>P, PairTypes DEF Refresh, Reissue, Row
  <2>2. /\ visit'.pair.left = visit.pair.left
        /\ visit'.pc = visit.pc /\ visit'.age = visit.age
    BY <1>0, <1>5, <1>P, PairTypes DEF Refresh, Reissue, Visitor
  <2>3. /\ request'[r].pc = "saving" /\ request'[r].pair.left = Life
        /\ request'[r].age = request[r].age
    BY <1>0, <1>5 DEF Refresh, Reissue, Request, Issued
  <2>4. ASSUME NEW q \in Requests, q # r
        PROVE  /\ request'[q].pc = request[q].pc /\ request'[q].age = request[q].age
               /\ request'[q].pair.left = request[q].pair.left
    BY <1>0, <1>5, <1>P, <2>4, PairTypes DEF Refresh, Reissue, Request
  <2> QED BY <1>P, <1>L, <2>1, <2>2, <2>3, <2>4 DEF Alive
<1>6. ASSUME NEW r \in Requests, Save(r) PROVE Alive'
  <2>1. request[r].pair.left >= Life - request[r].age
    BY <1>6 DEF Save, Alive
  <2>2. row'.pair.left = request[r].pair.left /\ row'.expires = Life - request[r].age
    BY <1>6 DEF Save, Saved
  <2>3. /\ request'[r].pc = "calling" /\ request'[r].pair = request[r].pair
        /\ request'[r].age = request[r].age
        /\ \A q \in Requests : q # r => request'[q] = request[q]
        /\ visit' = visit
    BY <1>0, <1>6 DEF Save, Goto, Request
  <2> QED BY <1>P, <1>L, <2>1, <2>2, <2>3 DEF Alive
<1>7. CASE Connect \/ Callback
  <2>1. /\ visit'.pc # "saving" /\ visit.pc # "saving" /\ visit'.age = visit.age
        /\ UNCHANGED <<row, request>>
    BY <1>0, <1>7 DEF Connect, Callback, Visitor
  <2> QED BY <2>1 DEF Alive
<1>8. CASE Rejected \/ VisitFails
  BY <1>8 DEF Rejected, VisitFails, NoVisit, Alive
<1>9. CASE Exchange
  <2>1. row'.pair.left = row.pair.left /\ row'.expires = row.expires
    BY <1>0, <1>9, <1>P, PairTypes DEF Exchange, Row
  <2>2. /\ visit'.pc = "saving" /\ visit'.pair.left = Life /\ visit'.age = visit.age
    BY <1>0, <1>9 DEF Exchange, Visitor, Issued
  <2>3. ASSUME NEW q \in Requests
        PROVE  /\ request'[q].pc = request[q].pc /\ request'[q].age = request[q].age
               /\ request'[q].pair.left = request[q].pair.left
    BY <1>0, <1>9, <1>P, <2>3, PairTypes DEF Exchange, Request
  <2> QED BY <1>P, <1>L, <2>1, <2>2, <2>3 DEF Alive
<1>10. CASE SaveVisit
  <2>1. /\ row'.expires = Life /\ row'.pair = visit.pair
        /\ visit.pair.left >= Life - visit.age
        /\ visit'.pc = "idle" /\ visit'.age = 0 /\ request' = request
    BY <1>10 DEF SaveVisit, Saved, NoVisit, Alive
  <2> QED BY <1>P, <1>L, <2>1 DEF Alive
<1>11. CASE Tick
  <2>1. row'.expires = Less(row.expires) /\ row'.pair.left = Less(row.pair.left)
    BY <1>0, <1>11, <1>P, PairTypes DEF Tick, Row
  <2>2. row'.pair.left + Delay >= row'.expires
    BY <1>P, <1>L, <2>1 DEF Alive, Less
  <2>3. ASSUME NEW r \in Requests
        PROVE  /\ request'[r].pc = "calling" => request'[r].pair.left > Delay - request'[r].age
               /\ request'[r].pc = "saving" => request'[r].pair.left >= Life - request'[r].age
    <3>1. /\ request'[r].pc = request[r].pc
          /\ request'[r].pair.left = Less(request[r].pair.left)
          /\ request[r].pc \in {"calling", "saving"} =>
               request'[r].age = request[r].age + 1 /\ request[r].age < Delay
      BY <1>0, <1>11, <1>P, PairTypes DEF Tick, Request, InFlight
    <3> QED BY <1>P, <1>L, <3>1 DEF Alive, Less
  <2>4. /\ visit'.pc = "saving" => visit'.pair.left >= Life - visit'.age
        /\ visit'.pc # "saving" => visit'.age = 0
    <3>1. /\ visit'.pc = visit.pc /\ visit'.pair.left = Less(visit.pair.left)
          /\ visit'.age = IF visit.pc = "saving" THEN visit.age + 1 ELSE visit.age
          /\ visit.pc = "saving" => visit.age < Delay
      BY <1>0, <1>11, <1>P, PairTypes DEF Tick, Visitor
    <3> QED BY <1>P, <1>L, <3>1 DEF Alive, Less
  <2> QED BY <2>2, <2>3, <2>4 DEF Alive
<1>12. CASE UNCHANGED vars
  BY <1>12 DEF vars, Alive
<1> QED
  BY <1>1, <1>2, <1>3, <1>4, <1>5, <1>6, <1>7, <1>8, <1>9, <1>10, <1>11, <1>12
  DEF Next, Serve, Visit

\* A token that is handed out is good until its call is answered, however requests
\* and visits interleave, if the skew covers two delays.
THEOREM TokensOutliveCalls == Spec => []TokenOutlivesItsCall
<1>1. Init => Alive
  BY TimesAreNaturals DEF Init, Alive, NoPair
<1>2. TypeOK /\ Alive => TokenOutlivesItsCall
  <2> SUFFICES ASSUME TypeOK, Alive, NEW r \in Requests, request[r].pc = "calling"
               PROVE  request[r].pair.left > 0
    BY DEF TokenOutlivesItsCall
  <2>1. request[r].pair.left > Delay - request[r].age /\ request[r].age \in 0..Delay
        /\ request[r].pair.left \in 0..Life
    BY DEF Alive, TypeOK, Pair
  <2> QED BY <2>1, TimesAreNaturals
<1> QED BY <1>1, <1>2, NextAlive, TokensTypeOK, PTL DEF Spec
--------------------------------------------------------------------------------
\* The stored refresh token is behind by what slipped, and by one more while a newer
\* pair is on its way to the row; a pair on its way is behind by what slipped.
Accounted ==
  /\ row.connected => row.pair.behind <= IF NobodySaves THEN slips ELSE slips + 1
  /\ \A r \in Requests : request[r].pc = "saving" => request[r].pair.behind <= slips
  /\ visit.pc = "saving" => visit.pair.behind <= slips

LEMMA NextAccounted == TypeOK /\ Accounted /\ [Next]_vars => Accounted'
<1> SUFFICES ASSUME TypeOK, Accounted, [Next]_vars PROVE Accounted'
  OBVIOUS
<1>0. /\ row \in Row /\ request \in [Requests -> Request] /\ visit \in Visitor
  BY DEF TypeOK, Row, Request, Visitor
<1>P. /\ row.pair \in Pair /\ visit.pair \in Pair
      /\ \A r \in Requests : request[r].pair \in Pair
  BY <1>0 DEF Row, Request, Visitor
<1>B. /\ row.pair.behind \in 0..Honoured /\ visit.pair.behind \in 0..Honoured
      /\ \A r \in Requests : request[r].pair.behind \in 0..Honoured
      /\ slips \in 0..Honoured
  BY <1>P DEF Pair, TypeOK
<1>N. \A p \in Pair : Newer(p).behind <= p.behind + 1 /\ Newer(p).behind <= Honoured
                     /\ Newer(p).behind \in Nat
  BY PairTypes, HonouredIsPositive DEF Pair
<1> USE HonouredIsPositive
<1>I. ASSUME NEW r \in Requests, request[r].pc # "saving",
             request'[r].pc # "saving", \A q \in Requests : q # r => request'[q] = request[q],
             UNCHANGED <<row, visit, slips>>
      PROVE  Accounted'
  BY <1>I DEF Accounted, NobodySaves
<1>1. ASSUME NEW r \in Requests,
             Begin(r) \/ NotConnected(r) \/ HandOut(r) \/ NeedsRefresh(r) \/ Refused(r)
               \/ Call(r)
      PROVE  Accounted'
  <2>1. /\ request[r].pc # "saving" /\ request'[r].pc # "saving"
        /\ \A q \in Requests : q # r => request'[q] = request[q]
        /\ UNCHANGED <<row, visit, slips>>
    BY <1>0, <1>1 DEF Begin, Goto, NotConnected, HandOut, NeedsRefresh, Refused, Call, Idle,
       Request
  <2> QED BY <1>I, <2>1
<1>2. ASSUME NEW r \in Requests, Refresh(r) PROVE Accounted'
  <2>1. /\ request'[r].pc = "saving" /\ request'[r].pair.behind = 0
        /\ request[r].pc = "refreshing"
    BY <1>0, <1>2 DEF Refresh, Reissue, Request, Issued
  <2>2. /\ row'.connected = row.connected /\ row'.pair = Newer(row.pair)
        /\ visit'.pc = visit.pc /\ visit'.pair = Newer(visit.pair)
        /\ \A q \in Requests : q # r => /\ request'[q].pc = request[q].pc
                                      /\ request'[q].pair = Newer(request[q].pair)
    BY <1>0, <1>2 DEF Refresh, Reissue, Request, Row, Visitor
  <2>3. CASE Alone(BusyRequests \ {r}, BusyVisit)
    <3>1. /\ slips' = slips /\ visit.pc # "saving"
          /\ \A q \in Requests : q # r => request[q].pc # "saving"
      BY <1>2, <2>3 DEF Refresh, CountRace, Alone, BusyRequests, BusyVisit
    <3>2. NobodySaves
      BY <2>1, <3>1 DEF NobodySaves
    <3> QED BY <1>B, <1>P, <1>N, <2>1, <2>2, <3>1, <3>2 DEF Accounted, NobodySaves
  <2>4. CASE ~Alone(BusyRequests \ {r}, BusyVisit)
    <3>1. slips' = IF slips < Honoured THEN slips + 1 ELSE slips
      BY <1>2, <2>4 DEF Refresh, CountRace, Slip
    <3>2. row.connected => row'.pair.behind <= slips' + 1
      BY <1>B, <1>P, <1>N, <2>2, <3>1 DEF Accounted
    <3>3. ASSUME NEW q \in Requests, request'[q].pc = "saving"
          PROVE  request'[q].pair.behind <= slips'
      BY <1>B, <1>P, <1>N, <2>1, <2>2, <3>1, <3>3 DEF Accounted
    <3>4. visit'.pc = "saving" => visit'.pair.behind <= slips'
      BY <1>B, <1>P, <1>N, <2>2, <3>1 DEF Accounted
    <3> QED BY <2>1, <2>2, <3>2, <3>3, <3>4 DEF Accounted, NobodySaves
  <2> QED BY <2>3, <2>4
<1>3. ASSUME NEW r \in Requests, Save(r) PROVE Accounted'
  <2>1. /\ row'.pair = request[r].pair /\ request[r].pc = "saving"
        /\ request'[r].pc = "calling" /\ visit' = visit
        /\ \A q \in Requests : q # r => request'[q] = request[q]
    BY <1>0, <1>3 DEF Save, Saved, Goto, Request
  <2>2. row'.pair.behind <= slips
    BY <2>1 DEF Accounted
  <2>3. CASE request[r].pair.behind = 0 /\ Alone(BusyRequests \ {r}, BusyVisit)
    <3>1. /\ slips' = 0 /\ visit.pc # "saving"
          /\ \A q \in Requests : q # r => request[q].pc # "saving"
      BY <1>3, <2>3 DEF Save, Kept, Alone, BusyRequests, BusyVisit
    <3> QED BY <2>1, <2>3, <3>1 DEF Accounted, NobodySaves
  <2>4. CASE ~(request[r].pair.behind = 0 /\ Alone(BusyRequests \ {r}, BusyVisit))
    <3>1. slips' = slips
      BY <1>3, <2>4 DEF Save, Kept
    <3> QED BY <1>B, <2>1, <2>2, <3>1 DEF Accounted, NobodySaves
  <2> QED BY <2>3, <2>4
<1>4. ASSUME NEW r \in Requests, Fail(r) PROVE Accounted'
  <2>1. /\ request'[r].pc = "idle" /\ UNCHANGED <<row, visit>>
        /\ \A q \in Requests : q # r => request'[q] = request[q]
    BY <1>0, <1>4 DEF Fail, Idle
  <2>2. CASE request[r].pc = "saving"
    <3>1. slips' = IF slips < Honoured THEN slips + 1 ELSE slips
      BY <1>4, <2>2 DEF Fail, Slip
    <3> QED BY <1>B, <2>1, <3>1 DEF Accounted, NobodySaves
  <2>3. CASE request[r].pc # "saving"
    BY <1>4, <1>I, <2>1, <2>3 DEF Fail
  <2> QED BY <2>2, <2>3
<1>5. CASE Connect \/ Callback \/ Rejected
  <2>1. /\ visit.pc # "saving" /\ visit'.pc # "saving" /\ UNCHANGED <<row, request, slips>>
    <3>1. CASE Connect
      BY <1>0, <3>1 DEF Connect, Visitor
    <3>2. CASE Callback
      BY <1>0, <3>2 DEF Callback, Visitor
    <3>3. CASE Rejected
      BY <3>3 DEF Rejected, NoVisit
    <3> QED BY <1>5, <3>1, <3>2, <3>3
  <2> QED BY <2>1 DEF Accounted, NobodySaves
<1>6. CASE Exchange
  <2>1. /\ visit'.pc = "saving" /\ visit'.pair.behind = 0 /\ visit.pc = "exchanging"
    BY <1>0, <1>6 DEF Exchange, Visitor, Issued
  <2>2. /\ row'.connected = row.connected /\ row'.pair = Newer(row.pair)
        /\ \A q \in Requests : /\ request'[q].pc = request[q].pc
                              /\ request'[q].pair = Newer(request[q].pair)
    BY <1>0, <1>6 DEF Exchange, Request, Row
  <2>3. CASE Alone(BusyRequests, FALSE)
    <3>1. slips' = slips /\ \A q \in Requests : request[q].pc # "saving"
      BY <1>6, <2>3 DEF Exchange, CountRace, Alone, BusyRequests
    <3>2. NobodySaves
      BY <2>1, <3>1 DEF NobodySaves
    <3> QED BY <1>B, <1>P, <1>N, <2>1, <2>2, <3>1, <3>2 DEF Accounted, NobodySaves
  <2>4. CASE ~Alone(BusyRequests, FALSE)
    <3>1. slips' = IF slips < Honoured THEN slips + 1 ELSE slips
      BY <1>6, <2>4 DEF Exchange, CountRace, Slip
    <3>2. row.connected => row'.pair.behind <= slips' + 1
      BY <1>B, <1>P, <1>N, <2>2, <3>1 DEF Accounted
    <3>3. ASSUME NEW q \in Requests, request'[q].pc = "saving"
          PROVE  request'[q].pair.behind <= slips'
      BY <1>B, <1>P, <1>N, <2>2, <3>1, <3>3 DEF Accounted
    <3> QED BY <1>B, <2>1, <2>2, <3>1, <3>2, <3>3 DEF Accounted, NobodySaves
  <2> QED BY <2>3, <2>4
<1>7. CASE SaveVisit
  <2>1. /\ row'.pair = visit.pair /\ visit.pc = "saving" /\ visit'.pc = "idle"
        /\ request' = request
    BY <1>7 DEF SaveVisit, Saved, NoVisit
  <2>2. row'.pair.behind <= slips
    BY <2>1 DEF Accounted
  <2>3. CASE visit.pair.behind = 0 /\ Alone(BusyRequests, FALSE)
    <3>1. slips' = 0 /\ \A q \in Requests : request[q].pc # "saving"
      BY <1>7, <2>3 DEF SaveVisit, Kept, Alone, BusyRequests
    <3> QED BY <2>1, <2>3, <3>1 DEF Accounted, NobodySaves
  <2>4. CASE ~(visit.pair.behind = 0 /\ Alone(BusyRequests, FALSE))
    <3>1. slips' = slips
      BY <1>7, <2>4 DEF SaveVisit, Kept
    <3> QED BY <1>B, <2>1, <2>2, <3>1 DEF Accounted, NobodySaves
  <2> QED BY <2>3, <2>4
<1>8. CASE VisitFails
  <2>1. visit'.pc = "idle" /\ UNCHANGED <<row, request>>
    BY <1>8 DEF VisitFails, NoVisit
  <2>2. CASE visit.pc = "saving"
    <3>1. slips' = IF slips < Honoured THEN slips + 1 ELSE slips
      BY <1>8, <2>2 DEF VisitFails, Slip
    <3> QED BY <1>B, <2>1, <3>1 DEF Accounted, NobodySaves
  <2>3. CASE visit.pc # "saving"
    <3>1. slips' = slips
      BY <1>8, <2>3 DEF VisitFails
    <3> QED BY <1>B, <2>1, <2>3, <3>1 DEF Accounted, NobodySaves
  <2> QED BY <2>2, <2>3
<1>9. CASE Tick
  <2>1. /\ row'.connected = row.connected /\ row'.pair.behind = row.pair.behind
        /\ slips' = slips
    BY <1>0, <1>9, <1>P, PairTypes DEF Tick, Row
  <2>2. visit'.pc = visit.pc /\ visit'.pair.behind = visit.pair.behind
    <3>1. visit'.pc = visit.pc /\ visit'.pair = Older(visit.pair)
      BY <1>0, <1>9 DEF Tick, Visitor
    <3> QED BY <1>P, <3>1, PairTypes
  <2>3. ASSUME NEW q \in Requests
        PROVE  /\ request'[q].pc = request[q].pc
               /\ request'[q].pair.behind = request[q].pair.behind
    <3>1. request'[q].pc = request[q].pc /\ request'[q].pair = Older(request[q].pair)
      BY <1>0, <1>9 DEF Tick, Request
    <3> QED BY <1>P, <3>1, PairTypes
  <2>4. NobodySaves' <=> NobodySaves
    <3>1. \A q \in Requests : request'[q].pc = request[q].pc
      BY <2>3
    <3> QED BY <2>2, <3>1 DEF NobodySaves
  <2>5. (row.connected => row.pair.behind <= IF NobodySaves THEN slips ELSE slips + 1)'
    <3>1. CASE NobodySaves
      BY <2>1, <2>4, <3>1 DEF Accounted
    <3>2. CASE ~NobodySaves
      BY <2>1, <2>4, <3>2 DEF Accounted
    <3> QED BY <3>1, <3>2
  <2> QED BY <2>1, <2>2, <2>3, <2>5 DEF Accounted
<1>10. CASE UNCHANGED vars
  BY <1>10 DEF vars, Accounted, NobodySaves
<1> QED
  BY <1>1, <1>2, <1>3, <1>4, <1>5, <1>6, <1>7, <1>8, <1>9, <1>10
  DEF Next, Serve, Visit

\* It takes as many slips in a row as Intuit takes refresh tokens to lose the
\* connection.
THEOREM LockoutsEarned == Spec => []LockoutIsEarned
<1>1. Init => Accounted
  BY DEF Init, Accounted
<1>2. Accounted => LockoutIsEarned
  BY DEF Accounted, LockoutIsEarned
<1> QED BY <1>1, <1>2, NextAccounted, TokensTypeOK, PTL DEF Spec
================================================================================
