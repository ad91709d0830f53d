------------------------------- MODULE Conflict -------------------------------
(***************************************************************************)
(* The three-way comparison both sync directions decide by: what each side *)
(* shows now against what both showed at the last sync.                    *)
(***************************************************************************)
CONSTANT None   \* the SQL null: a link without a snapshot

CanonicalFromInternal(i) ==
  [amount |-> i.amount, status |-> IF i.status = "deleted" THEN "deleted" ELSE "open"]

CanonicalFromQbo(d) ==
  [amount |-> d.amount, status |-> IF d.voided THEN "deleted" ELSE "open"]

Analyze(snapshot, internal, qbo) ==
  LET internalChanged == internal # snapshot
      qboChanged      == qbo # snapshot
  IN  IF snapshot = None THEN "no-basis"
      ELSE CASE ~internalChanged /\ ~qboChanged -> "neither"
             [] internalChanged /\ ~qboChanged  -> "internal-only"
             [] ~internalChanged /\ qboChanged  -> "qbo-only"
             [] internalChanged /\ qboChanged   ->
                  IF internal = qbo THEN "converged" ELSE "conflict"

\* What the processor of one side's event does about an outcome.
OwnChange(source) == IF source = "internal" THEN "internal-only" ELSE "qbo-only"

ActionFor(source, outcome) ==
  CASE outcome \in {"no-basis", OwnChange(source)} -> "apply"
    [] outcome \in {"conflict", "converged"}       -> outcome
    [] OTHER                                       -> "skip"
================================================================================
