---------------------------- MODULE MCMarketPage ----------------------------
(***************************************************************************)
(* Constants for model checking MarketPage: its .cfg files give every one  *)
(* a literal value.                                                        *)
(***************************************************************************)
EXTENDS MarketPage
=============================================================================
