------------------------------- MODULE MCSite -------------------------------
(***************************************************************************)
(* Constants for model checking Site.  "Site": two users, a form that makes *)
(* a market of one stat with the choices of a second one hidden, callers   *)
(* who make markets of one stat and of two, and two events of the fixture, *)
(* the one that the page's markets name (seq 0) and a later one on the     *)
(* other side of the threshold.  "Preview": a form whose threshold is not  *)
(* an integer.                                                             *)
(***************************************************************************)
EXTENDS Site

Form(twoStat, statKey2, op, halves, comparison) ==
  [fixtureId |-> 1, statKey |-> 1, twoStat |-> twoStat, statKey2 |-> statKey2, op |-> op,
   period |-> 0, threshold |-> halves, comparison |-> comparison, closeIn |-> 1,
   feeBps |-> 1]

\* What callers ask for: a market of one stat or of two that closes at Minute.
Args(statKey2, op, halves, comparison) ==
  [fixtureId |-> 1, seq |-> 0, statKey |-> 1, statKey2 |-> statKey2, op |-> op,
   period |-> 0, threshold |-> halves, comparison |-> comparison,
   closeTs |-> Minute, feeBps |-> 1, title |-> TITLE_LEN]

Pascals == [add |-> "Add", subtract |-> "Subtract", greaterThan |-> "GreaterThan",
            lessThan |-> "LessThan"]

Stored(a) ==
  [fixture_id |-> a.fixtureId, seq |-> a.seq, stat_key |-> a.statKey,
   stat_key2 |-> a.statKey2, op |-> IF a.op = NoOp THEN NoOp ELSE Pascals[a.op],
   period |-> a.period, threshold |-> a.threshold \div 2,
   comparison |-> Pascals[a.comparison], close_ts |-> a.closeTs, fee_bps |-> a.feeBps,
   title |-> a.title]

MCParams == {Stored(a) : a \in CreateArgs}

Stat(seq, key, value) ==
  [fixture_id |-> 1, seq |-> seq, key |-> key, period |-> 0, value |-> value]

\* 0.000002.
MCTyped == {[whole |-> 0, frac |-> 2, places |-> 6]}

MCWallets == [b \in Bettors |-> 4]

-----------------------------------------------------------------------------
\* The market of two stats adds a stat to itself, to keep what is posted small.
SiteForms == {Form(FALSE, 1, "add", 2, "greaterThan")}
SiteArgs  == {Args(NoStat, NoOp, 2, "greaterThan"), Args(1, "add", 6, "lessThan")}
SiteAttestable == {Stat(0, 1, 2), Stat(1, 1, 1)}

\* The feed may also answer with the other event's stat, or a value nobody attests.
SiteFeed == {Stat(0, 1, 2), Stat(1, 1, 1), Stat(0, 1, 4)}

-----------------------------------------------------------------------------
PreviewForms == {Form(FALSE, 2, "subtract", 5, "lessThan"), Form(TRUE, 2, "subtract", 0, "lessThan")}
PreviewArgs  == {Args(NoStat, NoOp, 5, "lessThan"), Args(2, "subtract", 0, "lessThan")}
PreviewAttestable == {Stat(0, 1, 2)}
=============================================================================
