------------------------------ MODULE MCKeeper ------------------------------
(***************************************************************************)
(* Constants for model checking Keeper.                                    *)
(***************************************************************************)
EXTENDS Keeper, TLC

\* The HTTP slots are alike.
PostSymmetry == Permutations(Posts)
=============================================================================
