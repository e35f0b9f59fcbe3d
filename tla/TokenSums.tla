------------------------------ MODULE TokenSums ------------------------------
(***************************************************************************)
(* Adding up token amounts.  SumOver(f, S) is the sum of f[x] for x in S,  *)
(* defined without recursion: every base unit of the token held by x is    *)
(* the pair <<x, i>> with i \in 1..f[x], and the sum is the number of such *)
(* pairs.  The form lets the sums that appear in the invariants be proved  *)
(* about with the facts of FiniteSetTheorems; TLC evaluates it directly.   *)
(* None of this is code of the program: it is the vocabulary in which the  *)
(* properties of its ledgers are stated.                                   *)
(***************************************************************************)
EXTENDS Integers, FiniteSets

\* The base units that the members of S hold under f.
Units(f, S) == UNION {{x} \X (1..f[x]) : x \in S}

SumOver(f, S) == Cardinality(Units(f, S))
=============================================================================
