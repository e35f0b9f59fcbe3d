--------------------------- MODULE MCFinalWhistle ---------------------------
(***************************************************************************)
(* Constants for model checking FinalWhistle.  "One" is one market in      *)
(* depth: three bettors with stakes on both sides, fees that round, and    *)
(* two attested values of the market's stat, one on each side of the       *)
(* threshold.  "Two" is two markets of one creator, a one-stat and a       *)
(* two-stat one, among parameters that must be refused and stats of        *)
(* another fixture and of another event.                                   *)
(***************************************************************************)
EXTENDS FinalWhistle, TLC

CONSTANTS c1, b1

Param(key, key2, op, close, fee) ==
  [fixture_id |-> 1, seq |-> 1, stat_key |-> key, stat_key2 |-> key2, op |-> op,
   period |-> 0, threshold |-> 1, comparison |-> "GreaterThan", close_ts |-> close,
   fee_bps |-> fee, title |-> 10]

Stat(fixture, key, period, value) ==
  [fixture_id |-> fixture, seq |-> 1, key |-> key, period |-> period, value |-> value]

BettorSymmetry == Permutations(Bettors)

-----------------------------------------------------------------------------
OneParams ==
  {Param(1, NoStat, NoOp, 1, 2), Param(1, NoStat, NoOp, 1, 3),
   Param(1, NoStat, NoOp, 1, 4)}
OneAttestable == {Stat(1, 1, 0, 2), [Stat(1, 1, 0, 1) EXCEPT !.seq = 2]}
OneWallets    == [b \in Bettors |-> 7]

-----------------------------------------------------------------------------
TwoParams ==
  {Param(1, NoStat, NoOp, 1, 1), Param(1, 2, "Subtract", 1, 0),
   Param(1, 2, NoOp, 1, 0), Param(1, NoStat, NoOp, 0, 0),
   [Param(1, NoStat, NoOp, 1, 0) EXCEPT !.title = 81]}
TwoAttestable ==
  {Stat(1, 1, 0, 2), [Stat(1, 2, 0, 1) EXCEPT !.seq = 2], Stat(2, 1, 0, 0)}
TwoWallets == [b \in Bettors |-> IF b = b1 THEN 4 ELSE 2]
TwoPayees  == {<<c1, 1>>}

=============================================================================
