------------------------------ MODULE MCClient ------------------------------
(***************************************************************************)
(* Constants for model checking Client.  "Live": a market of one stat or   *)
(* of two, made, traded, settled and claimed by two users through the SDK  *)
(* alone, with two events of the fixture that lie on both sides.           *)
(***************************************************************************)
EXTENDS Client

Args(statKey2, op, threshold, comparison) ==
  [fixtureId |-> 1, seq |-> 0, statKey |-> 1, statKey2 |-> statKey2, op |-> op,
   period |-> 0, threshold |-> 2 * threshold, comparison |-> comparison, closeTs |-> 2,
   feeBps |-> 2, title |-> 80]

Param(key2, op, threshold, comparison) ==
  [fixture_id |-> 1, seq |-> 0, stat_key |-> 1, stat_key2 |-> key2, op |-> op,
   period |-> 0, threshold |-> threshold, comparison |-> comparison, close_ts |-> 2,
   fee_bps |-> 2, title |-> 80]

LiveArgs ==
  {Args(NoStat, NoOp, 1, "greaterThan"), Args(2, "subtract", 0, "lessThan")}
LiveParams ==
  {Param(NoStat, NoOp, 1, "GreaterThan"), Param(2, "Subtract", 0, "LessThan")}

Stat(seq, key, value) ==
  [fixture_id |-> 1, seq |-> seq, key |-> key, period |-> 0, value |-> value]

LiveAttestable == {Stat(0, 1, 2), Stat(1, 1, 1), Stat(0, 2, 3)}
\* 0.000002, 0.0000035 and 0.00002.
LiveTyped ==
  {[whole |-> 0, frac |-> 2, places |-> 6], [whole |-> 0, frac |-> 35, places |-> 7],
   [whole |-> 0, frac |-> 2, places |-> 5]}

LiveWallets    == [b \in Bettors |-> 5]
=============================================================================
