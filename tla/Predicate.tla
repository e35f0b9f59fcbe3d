------------------------------ MODULE Predicate ------------------------------
(***************************************************************************)
(* What a market asks of the score feed: one stat, or two combined by an   *)
(* operator, compared with a threshold.  YES is the stored predicate, NO   *)
(* its negation (programs/finalwhistle/src/state.rs and its mirror         *)
(* packages/shared/src/predicate.ts).  To orient a predicate is to state   *)
(* what holds when a given side wins; only there does the width of the     *)
(* threshold matter.                                                       *)
(***************************************************************************)
EXTENDS Integers

Comparisons == {"GreaterThan", "LessThan"}
BinaryOps   == {"Add", "Subtract"}

Holds(value, comparison, threshold) ==
  \/ comparison = "GreaterThan" /\ value > threshold
  \/ comparison = "LessThan"    /\ value < threshold

\* An absent operator leaves the first stat as it is.
Combine(op, a, b) ==
  IF op = "Add" THEN a + b ELSE IF op = "Subtract" THEN a - b ELSE a

\* The clients' mirror: a JavaScript number has room for the step.
orientedPredicate(yes, comparison, threshold) ==
  IF yes THEN [comparison |-> comparison, threshold |-> threshold]
  ELSE IF comparison = "GreaterThan"
    THEN [comparison |-> "LessThan", threshold |-> threshold + 1]
    ELSE [comparison |-> "GreaterThan", threshold |-> threshold - 1]

\* The program's, with thresholds from lo to hi: none (MathOverflow) if the step
\* leaves that range.
oriented_predicate(lo, hi, yes, comparison, threshold) ==
  LET oriented == orientedPredicate(yes, comparison, threshold) IN
  IF oriented.threshold \in lo..hi THEN {oriented} ELSE {}
=============================================================================
