----------------------------- MODULE BettingPool -----------------------------
(***************************************************************************)
(* What one market promises its bettors, without accounts, proofs, clocks  *)
(* or integers that round: money is staked on one of two sides; the market *)
(* ends once, either way; from then on what each bettor is due stands, and *)
(* each bettor is paid that once, out of what was staked.                  *)
(***************************************************************************)
EXTENDS TokenSums

CONSTANTS Bettors, Amounts

VARIABLES
  phase,
  yes, no,   (* what each bettor has staked on either side                  *)
  due,       (* what each bettor is to be paid, once the market has ended   *)
  paid,      (* the bettors that have been paid                             *)
  pot        (* what is left of the stakes                                  *)

poolVars == <<phase, yes, no, due, paid, pot>>

Nothing == [b \in Bettors |-> 0]

Init ==
  /\ phase = "Absent"
  /\ yes = Nothing
  /\ no = Nothing
  /\ due = Nothing
  /\ paid = {}
  /\ pot = 0

Open ==
  /\ phase = "Absent"
  /\ phase' = "Open"
  /\ UNCHANGED <<yes, no, due, paid, pot>>

Back(b, amount) ==
  /\ phase = "Open"
  /\ amount > 0
  /\ \/ yes' = [yes EXCEPT ![b] = @ + amount] /\ UNCHANGED no
     \/ no' = [no EXCEPT ![b] = @ + amount] /\ UNCHANGED yes
  /\ pot' = pot + amount
  /\ UNCHANGED <<phase, due, paid>>

\* Somebody has backed the winning side.  The house keeps no more than the
\* losing stakes; every winner gets its stake back at least, a higher stake
\* never gets less than a lower one, and the pot has enough for all.
Win(winning, losing) ==
  /\ phase = "Open"
  /\ phase' = "Resolved"
  /\ \E b \in Bettors : winning[b] > 0
  /\ pot' <= pot
  /\ pot - pot' <= SumOver(losing, Bettors)
  /\ due' \in [Bettors -> Nat]
  /\ \A b \in Bettors :
       IF winning[b] = 0 THEN due'[b] = 0 ELSE winning[b] <= due'[b]
  /\ \A b, c \in Bettors : winning[b] <= winning[c] => due'[b] <= due'[c]
  /\ SumOver(due', Bettors) <= pot'
  /\ UNCHANGED <<yes, no, paid>>

\* Everybody gets back what they staked, on both sides.
Refund ==
  /\ phase = "Open"
  /\ phase' = "Voided"
  /\ due' = [b \in Bettors |-> yes[b] + no[b]]
  /\ UNCHANGED <<yes, no, paid, pot>>

Pay(b) ==
  /\ phase \in {"Resolved", "Voided"}
  /\ b \notin paid
  /\ due[b] > 0
  /\ due[b] <= pot
  /\ paid' = paid \cup {b}
  /\ pot' = pot - due[b]
  /\ UNCHANGED <<phase, yes, no, due>>

Next ==
  \/ Open
  \/ \E b \in Bettors, amount \in Amounts : Back(b, amount)
  \/ Win(yes, no)
  \/ Win(no, yes)
  \/ Refund
  \/ \E b \in Bettors : Pay(b)

Spec == Init /\ [][Next]_poolVars
=============================================================================
