---------------------------- MODULE MCRefinement ----------------------------
(***************************************************************************)
(* Constants for model checking FinalWhistleRefinement: of the two markets *)
(* of "Two" (MCFinalWhistle), the first is watched.                        *)
(***************************************************************************)
EXTENDS MCFinalWhistle, FinalWhistleRefinement

FirstMarket == <<c1, 1>>
=============================================================================
