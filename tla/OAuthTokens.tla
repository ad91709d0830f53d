------------------------------ MODULE OAuthTokens ------------------------------
(***************************************************************************)
(* The tokens of the connected QuickBooks company: the requests that take  *)
(* an access token from the row of oauth_tokens, refresh it when it is     *)
(* about to expire and call QuickBooks with it (getValidAccessToken,       *)
(* qboRequest), and the person who connects the company (/oauth/connect    *)
(* and its callback).  The worker, the reconciler, the resolve route and   *)
(* the demo routes are requests that run at the same time.                 *)
(*                                                                         *)
(* Time passes in ticks and every deadline is the time that remains.       *)
(* Intuit issues an access and a refresh token together.  A refresh token  *)
(* is known by how many were issued after it (`behind`), and Intuit takes  *)
(* the last Honoured of them.                                              *)
(***************************************************************************)
EXTENDS Integers

CONSTANTS
  Requests,   \* the requests to QuickBooks that may be under way together
  Life,       \* expires_in of an access token
  Skew,       \* REFRESH_SKEW_MS
  Delay,      \* how long a request takes at most, from its `new Date()` on
  StateTtl,   \* STATE_TTL_MS
  Honoured,   \* how many of the last refresh tokens Intuit takes
  MaxMishaps  \* bound on calls and statements that fail

ASSUME TimesAreNaturals ==
  /\ Life \in Nat /\ Skew \in Nat /\ Delay \in Nat /\ StateTtl \in Nat
  /\ MaxMishaps \in Nat

ASSUME HonouredIsPositive == Honoured \in Nat \ {0}

\* Five minutes cover two requests that take their time, and an hour covers both.
ASSUME SkewCoversDelays == 2 * Delay <= Skew /\ Skew < Life

VARIABLES
  row,      \* the row of the realm: what it says and what Intuit knows of it
  request,  \* each request: where it stands, how long ago it took the time
  visit,    \* the browser that goes through the consent screen
  slips,    \* ghost: pairs issued and not kept, since one was kept undisturbed
  mishaps

vars == <<row, request, visit, slips, mishaps>>

Pc == {"idle", "reading", "refreshing", "saving", "calling"}

\* What a holder of a pair has: how long Intuit takes the access token, and how
\* many refresh tokens are newer.
Pair == [left : 0..Life, behind : 0..Honoured]

NoPair == [left |-> 0, behind |-> Honoured]

Init ==
  /\ row = [connected |-> FALSE, expires |-> 0, pair |-> NoPair]
  /\ request = [r \in Requests |-> [pc |-> "idle", age |-> 0, pair |-> NoPair]]
  /\ visit = [pc |-> "idle", age |-> 0, state |-> 0, pair |-> NoPair]
  /\ slips = 0 /\ mishaps = 0
--------------------------------------------------------------------------------
(***************************************************************************)
(* Time and Intuit.                                                        *)
(***************************************************************************)
Less(n)  == IF n > 0 THEN n - 1 ELSE 0
Newer(p) == [p EXCEPT !.behind = IF @ < Honoured THEN @ + 1 ELSE @]
Older(p) == [p EXCEPT !.left = Less(@)]
Issued   == [left |-> Life, behind |-> 0]

InFlight(r) == request[r].pc # "idle"

Tick ==
  /\ \A r \in Requests : InFlight(r) => request[r].age < Delay
  /\ visit.pc = "saving" => visit.age < Delay
  /\ row' = [row EXCEPT !.expires = Less(@), !.pair = Older(@)]
  /\ request' = [r \in Requests |->
       [request[r] EXCEPT !.age = IF InFlight(r) THEN @ + 1 ELSE @, !.pair = Older(@)]]
  /\ visit' = [visit EXCEPT !.age = IF visit.pc = "saving" THEN @ + 1 ELSE @,
                            !.state = Less(@), !.pair = Older(@)]
  /\ UNCHANGED <<slips, mishaps>>

Mishap == mishaps < MaxMishaps /\ mishaps' = mishaps + 1

Slip == slips' = IF slips < Honoured THEN slips + 1 ELSE slips

\* Somebody holds a pair that is not saved, or has read one to refresh it.
BusyRequests == {r \in Requests : request[r].pc \in {"refreshing", "saving"}}
BusyVisit    == visit.pc \in {"exchanging", "saving"}

\* A pair issued while somebody else is at it may overwrite the other's, or be
\* overwritten by it.
Alone(others, visitor) == others = {} /\ ~visitor

CountRace(others, visitor) == IF Alone(others, visitor) THEN UNCHANGED slips ELSE Slip
--------------------------------------------------------------------------------
(***************************************************************************)
(* getValidAccessToken and the request it is for.                          *)
(***************************************************************************)
Goto(r, to) == request' = [request EXCEPT ![r].pc = to]
Idle        == [pc |-> "idle", age |-> 0, pair |-> NoPair]

Begin(r) ==
  /\ request[r].pc = "idle"
  /\ Goto(r, "reading")
  /\ UNCHANGED <<row, visit, slips, mishaps>>

\* NoTokensError
NotConnected(r) ==
  /\ request[r].pc = "reading" /\ ~row.connected
  /\ request' = [request EXCEPT ![r] = Idle]
  /\ UNCHANGED <<row, visit, slips, mishaps>>

\* Wrong: any token that has not expired is good enough.
OutlivesBarely(r) == row.expires + request[r].age > 0

\* Wrong: a row is taken for valid as long as it is there.
OutlivesAlways(r) == row.connected

\* `now` was taken before the row was read.
Outlives(r) == row.expires + request[r].age > Skew

HandOut(r) ==
  /\ request[r].pc = "reading" /\ row.connected /\ Outlives(r)
  /\ request' = [request EXCEPT ![r].pc = "calling", ![r].pair = row.pair]
  /\ UNCHANGED <<row, visit, slips, mishaps>>

NeedsRefresh(r) ==
  /\ request[r].pc = "reading" /\ row.connected /\ ~Outlives(r)
  /\ request' = [request EXCEPT ![r].pc = "refreshing", ![r].pair = row.pair]
  /\ UNCHANGED <<row, visit, slips, mishaps>>

\* The pair of r's refresh; everyone else's is one older.
Reissue(r, pc) ==
  /\ request' = [q \in Requests |->
       IF q = r THEN [request[r] EXCEPT !.pc = pc, !.pair = Issued]
       ELSE [request[q] EXCEPT !.pair = Newer(@)]]
  /\ row' = [row EXCEPT !.pair = Newer(@)]
  /\ visit' = [visit EXCEPT !.pair = Newer(@)]

Refresh(r) ==
  /\ request[r].pc = "refreshing" /\ request[r].pair.behind < Honoured
  /\ Reissue(r, "saving")
  /\ CountRace(BusyRequests \ {r}, BusyVisit)
  /\ UNCHANGED mishaps

\* invalid_grant
Refused(r) ==
  /\ request[r].pc = "refreshing" /\ request[r].pair.behind = Honoured
  /\ request' = [request EXCEPT ![r] = Idle]
  /\ UNCHANGED <<row, visit, slips, mishaps>>

\* A pair that is kept with nobody else at it makes up for what slipped before.
Kept(pair, others, visitor) ==
  slips' = IF pair.behind = 0 /\ Alone(others, visitor) THEN 0 ELSE slips

\* Wrong: the new refresh token is not stored.
SavedKeepsOldRefresh(pair, expires) ==
  [connected |-> TRUE, expires |-> expires,
   pair |-> [left |-> pair.left, behind |-> row.pair.behind]]

\* Wrong: the skew is granted on top of the expiry.
SavedWithSkew(pair, expires) ==
  [connected |-> TRUE, expires |-> expires + Skew, pair |-> pair]

\* saveTokens
Saved(pair, expires) == [connected |-> TRUE, expires |-> expires, pair |-> pair]

\* The expiry counts from the request's `now`, before the refresh.
Save(r) ==
  /\ request[r].pc = "saving"
  /\ row' = Saved(request[r].pair, Life - request[r].age)
  /\ Goto(r, "calling")
  /\ Kept(request[r].pair, BusyRequests \ {r}, BusyVisit)
  /\ UNCHANGED <<visit, mishaps>>

\* qboRequest: QuickBooks answers, with a 401 if the token has expired.
Call(r) ==
  /\ request[r].pc = "calling"
  /\ request' = [request EXCEPT ![r] = Idle]
  /\ UNCHANGED <<row, visit, slips, mishaps>>

\* A statement or a call fails, its answer is lost, or the process dies: the caller
\* tries again later.
Fail(r) ==
  /\ InFlight(r) /\ Mishap
  /\ request' = [request EXCEPT ![r] = Idle]
  /\ IF request[r].pc = "saving" THEN Slip ELSE UNCHANGED slips
  /\ UNCHANGED <<row, visit>>
--------------------------------------------------------------------------------
(***************************************************************************)
(* /oauth/connect and /oauth/callback.                                     *)
(***************************************************************************)
NoVisit == [pc |-> "idle", age |-> 0, state |-> 0, pair |-> NoPair]

Connect ==
  /\ visit.pc = "idle"
  /\ visit' = [visit EXCEPT !.pc = "consenting", !.state = StateTtl]
  /\ UNCHANGED <<row, request, slips, mishaps>>

\* The browser comes back with the code, in time, and from the right company.
Callback ==
  /\ visit.pc = "consenting" /\ visit.state > 0
  /\ visit' = [visit EXCEPT !.pc = "exchanging"]
  /\ UNCHANGED <<row, request, slips, mishaps>>

\* 400: consent refused, a parameter missing, another company, the state too old.
\* The browser need not come back at all.
Rejected ==
  /\ visit.pc = "consenting"
  /\ visit' = NoVisit
  /\ UNCHANGED <<row, request, slips, mishaps>>

Exchange ==
  /\ visit.pc = "exchanging"
  /\ visit' = [visit EXCEPT !.pc = "saving", !.pair = Issued]
  /\ row' = [row EXCEPT !.pair = Newer(@)]
  /\ request' = [r \in Requests |-> [request[r] EXCEPT !.pair = Newer(@)]]
  /\ CountRace(BusyRequests, FALSE)
  /\ UNCHANGED mishaps

\* The expiry counts from now, when the answer is there.
SaveVisit ==
  /\ visit.pc = "saving"
  /\ row' = Saved(visit.pair, Life)
  /\ visit' = NoVisit
  /\ Kept(visit.pair, BusyRequests, FALSE)
  /\ UNCHANGED <<request, mishaps>>

\* The exchange or the save fails: 502.
VisitFails ==
  /\ BusyVisit /\ Mishap
  /\ visit' = NoVisit
  /\ IF visit.pc = "saving" THEN Slip ELSE UNCHANGED slips
  /\ UNCHANGED <<row, request>>
--------------------------------------------------------------------------------
Serve(r) ==
  Begin(r) \/ NotConnected(r) \/ HandOut(r) \/ NeedsRefresh(r) \/ Refresh(r)
  \/ Refused(r) \/ Save(r) \/ Call(r)

Visit == Connect \/ Callback \/ Rejected \/ Exchange \/ SaveVisit \/ VisitFails

Next ==
  \/ \E r \in Requests : Serve(r) \/ Fail(r)
  \/ Visit
  \/ Tick

Spec == Init /\ [][Next]_vars

\* Calls and statements return, and who failed tries again (the worker's backoff,
\* the reconciler's next pass).  Nobody need visit the consent screen.
FairSpec ==
  Spec /\ (\A r \in Requests : WF_vars(Serve(r))) /\ WF_vars(SaveVisit)
--------------------------------------------------------------------------------
(***************************************************************************)
(* Properties.                                                             *)
(***************************************************************************)

\* Types; and who is not under way holds nothing.
TypeOK ==
  /\ row \in [connected : BOOLEAN, expires : 0..Life, pair : Pair]
  /\ request \in [Requests -> [pc : Pc, age : 0..Delay, pair : Pair]]
  /\ visit \in [pc : {"idle", "consenting", "exchanging", "saving"}, age : 0..Delay,
                state : 0..StateTtl, pair : Pair]
  /\ slips \in 0..Honoured /\ mishaps \in 0..MaxMishaps
  /\ \A r \in Requests : ~InFlight(r) => request[r].age = 0

\* manager.ts:6: "so a request never races the expiry".  A token that is handed out
\* is good until the call it is for is answered: over a row that another request or a
\* visit writes meanwhile, an expiry counted from a moment before the refresh or from
\* one after the exchange, and a `now` that is older than the row read.
TokenOutlivesItsCall ==
  \A r \in Requests : request[r].pc = "calling" => request[r].pair.left > 0

NobodySaves == visit.pc # "saving" /\ \A r \in Requests : request[r].pc # "saving"

\* The stored refresh token is the newest, but for those that slipped: a pair lost
\* between Intuit and the row, or issued while somebody else was refreshing.  A pair
\* kept undisturbed makes up for them, so that it takes Honoured of them in a row to
\* lose the connection.
LockoutIsEarned == row.connected /\ NobodySaves => row.pair.behind <= slips

\* Intuit takes the stored refresh token no more, and a person must connect again.
LockedOut == row.pair.behind = Honoured /\ NobodySaves

\* When no more visits get in the way, requests that are tried again whenever they fail
\* get tokens that QuickBooks takes, unless the connection is lost.  It is one of them
\* that does: another may always find its refresh token used by then.
RequestsGetTokens ==
  <>[](visit.pc = "idle") =>
    ((row.connected /\ \E r \in Requests : request[r].pc = "reading")
       ~> LockedOut \/ \E r \in Requests : request[r].pc = "calling"
                                         /\ request[r].pair.left > 0)
================================================================================
