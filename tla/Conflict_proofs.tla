--------------------------- MODULE Conflict_proofs ---------------------------
(***************************************************************************)
(* What the comparison guarantees for every amount and every state of the  *)
(* two sides.                                                              *)
(***************************************************************************)
EXTENDS Conflict, TLAPS

Sources == {"internal", "quickbooks"}

\* The six outcomes, each with the condition that selects it.
LEMMA Outcomes ==
  ASSUME NEW s, NEW i, NEW q
  PROVE  /\ s = None => Analyze(s, i, q) = "no-basis"
         /\ s # None /\ i = s /\ q = s => Analyze(s, i, q) = "neither"
         /\ s # None /\ i # s /\ q = s => Analyze(s, i, q) = "internal-only"
         /\ s # None /\ i = s /\ q # s => Analyze(s, i, q) = "qbo-only"
         /\ s # None /\ i # s /\ q # s /\ i = q => Analyze(s, i, q) = "converged"
         /\ s # None /\ i # s /\ q # s /\ i # q => Analyze(s, i, q) = "conflict"
<1>1. CASE s = None
  BY <1>1 DEF Analyze
<1>2. CASE s # None /\ i = s /\ q = s
  BY <1>2 DEF Analyze
<1>3. CASE s # None /\ i # s /\ q = s
  BY <1>3 DEF Analyze
<1>4. CASE s # None /\ i = s /\ q # s
  BY <1>4 DEF Analyze
<1>5. CASE s # None /\ i # s /\ q # s
  BY <1>5 DEF Analyze
<1> QED BY <1>1, <1>2, <1>3, <1>4, <1>5

\* The action for each outcome.
LEMMA Actions ==
  /\ \A src \in Sources : ActionFor(src, "no-basis") = "apply"
  /\ \A src \in Sources : ActionFor(src, "neither") = "skip"
  /\ \A src \in Sources : ActionFor(src, "conflict") = "conflict"
  /\ \A src \in Sources : ActionFor(src, "converged") = "converged"
  /\ ActionFor("internal", "internal-only") = "apply"
  /\ ActionFor("quickbooks", "internal-only") = "skip"
  /\ ActionFor("internal", "qbo-only") = "skip"
  /\ ActionFor("quickbooks", "qbo-only") = "apply"
BY DEF ActionFor, OwnChange, Sources

\* With a basis to compare with, "apply" is chosen only when the side written to
\* still shows what both sides showed at the last sync and the other one does
\* not: applying overwrites no change (conflict.ts:60-64).
THEOREM ApplyOverwritesNothing ==
  ASSUME NEW s, NEW i, NEW q, s # None
  PROVE  /\ ActionFor("internal", Analyze(s, i, q)) = "apply" <=> i # s /\ q = s
         /\ ActionFor("quickbooks", Analyze(s, i, q)) = "apply" <=> i = s /\ q # s
<1>1. CASE i = s /\ q = s
  BY <1>1, Outcomes, Actions DEF Sources
<1>2. CASE i # s /\ q = s
  BY <1>2, Outcomes, Actions DEF Sources
<1>3. CASE i = s /\ q # s
  BY <1>3, Outcomes, Actions DEF Sources
<1>4. CASE i # s /\ q # s
  BY <1>4, Outcomes, Actions DEF Sources
<1> QED BY <1>1, <1>2, <1>3, <1>4

\* Whichever side's event is handled, "conflict" is chosen exactly when both sides
\* moved, apart: the flag depends on the states, never on which event came first.
THEOREM ConflictIsSymmetric ==
  ASSUME NEW s, NEW i, NEW q, s # None, NEW src \in Sources
  PROVE  ActionFor(src, Analyze(s, i, q)) = "conflict" <=> i # s /\ q # s /\ i # q
<1>1. CASE i # s /\ q # s
  BY <1>1, Outcomes, Actions DEF Sources
<1>2. CASE i = s \/ q = s
  BY <1>2, Outcomes, Actions DEF Sources
<1> QED BY <1>1, <1>2

\* When the sides differ, one of the two events does something about it: both
\* handlers skip only if neither side moved, so no divergence is skipped twice.
THEOREM NoDivergenceSkippedTwice ==
  ASSUME NEW s, NEW i, NEW q, i # q
  PROVE  \E src \in Sources : ActionFor(src, Analyze(s, i, q)) # "skip"
<1>1. CASE s = None
  BY <1>1, Outcomes, Actions DEF Sources
<1>2. CASE s # None /\ q = s
  <2>1. ActionFor("internal", Analyze(s, i, q)) = "apply"
    BY <1>2, ApplyOverwritesNothing
  <2> QED BY <2>1 DEF Sources
<1>3. CASE s # None /\ i = s
  <2>1. ActionFor("quickbooks", Analyze(s, i, q)) = "apply"
    BY <1>3, ApplyOverwritesNothing
  <2> QED BY <2>1 DEF Sources
<1>4. CASE s # None /\ i # s /\ q # s
  <2>1. ActionFor("internal", Analyze(s, i, q)) = "conflict"
    BY <1>4, ConflictIsSymmetric DEF Sources
  <2> QED BY <2>1 DEF Sources
<1> QED BY <1>1, <1>2, <1>3, <1>4
================================================================================
