-------------------------- MODULE MarketPageProofs --------------------------
(***************************************************************************)
(* What holds of the market page for any number of sends, reads and        *)
(* changes by others.                                                      *)
(***************************************************************************)
EXTENDS MarketPage, FiniteSetTheorems, TLAPS

(***************************************************************************)
(* Sequences of versions.                                                  *)
(***************************************************************************)

LEMMA VersionsGrow ==
  ASSUME NEW m \in Nat, NEW n \in Nat, m <= n, NEW s \in Seq(0..m)
  PROVE  s \in Seq(0..n)
OBVIOUS

LEMMA FewVersions ==
  ASSUME NEW n \in Nat, NEW v \in 0..n
  PROVE  <<>> \in Seq(0..n) /\ <<v>> \in Seq(0..n) /\ Last(<<v>>) = v
BY DEF Last

LEMMA AppendVersion ==
  ASSUME NEW n \in Nat, NEW s \in Seq(0..n), NEW v \in 0..n
  PROVE  /\ Append(s, v) \in Seq(0..n)
         /\ Append(s, v) # <<>>
         /\ Last(Append(s, v)) = v
BY DEF Last

LEMMA SomeVersions ==
  ASSUME NEW n \in Nat, NEW s \in Seq(0..n), s # <<>>
  PROVE  Len(s) \in Nat \ {0}
OBVIOUS

LEMMA Dequeue ==
  ASSUME NEW n \in Nat, NEW s \in Seq(0..n), s # <<>>
  PROVE  /\ Head(s) \in 0..n
         /\ Tail(s) \in Seq(0..n)
         /\ Tail(s) = <<>> => Head(s) = Last(s)
         /\ Tail(s) # <<>> => Last(Tail(s)) = Last(s)
<1>1. Len(s) \in Nat \ {0} /\ \A i \in 1..Len(s) : s[i] \in 0..n
  OBVIOUS
<1>2. Tail(s) \in Seq(0..n)
  OBVIOUS
<1>3. Len(Tail(s)) = Len(s) - 1
  OBVIOUS
<1>4. Head(s) = s[1]
  OBVIOUS
<1>5. ASSUME Tail(s) = <<>> PROVE Head(s) = Last(s)
  <2>1. Len(<<>>) = 0
    OBVIOUS
  <2>2. 0 = Len(s) - 1
    BY <1>3, <1>5, <2>1, Zenon
  <2>3. Len(s) = 1
    BY <1>1, <2>2
  <2> QED
    BY <1>4, <2>3 DEF Last
<1>6. ASSUME Tail(s) # <<>> PROVE Last(Tail(s)) = Last(s)
  <2>1. Len(Tail(s)) \in Nat \ {0}
    BY <1>2, <1>6, SomeVersions, Zenon
  <2>2. Tail(s)[Len(s) - 1] = s[Len(s)]
    BY <1>1, <1>3, <2>1
  <2> QED
    BY <1>3, <2>2 DEF Last
<1> QED
  BY <1>1, <1>2, <1>4, <1>5, <1>6

LEMMA Removal ==
  ASSUME NEW n \in Nat, NEW s \in Seq(0..n), NEW i \in DOMAIN s
  PROVE  /\ RemoveAt(s, i) \in Seq(0..n)
         /\ i = 1 /\ RemoveAt(s, i) = <<>> => s[i] = Last(s)
         /\ i = 1 /\ RemoveAt(s, i) # <<>> => Last(RemoveAt(s, i)) = Last(s)
<1>1. i \in 1..Len(s) /\ Len(s) \in Nat
  OBVIOUS
<1>2. SubSeq(s, 1, i - 1) \in Seq(0..n) /\ SubSeq(s, i + 1, Len(s)) \in Seq(0..n)
  BY <1>1
<1>3. RemoveAt(s, i) \in Seq(0..n)
  BY <1>2 DEF RemoveAt
<1>4. ASSUME i = 1
      PROVE  RemoveAt(s, i) = SubSeq(s, 2, Len(s))
  BY <1>1, <1>2, <1>4 DEF RemoveAt
<1>5. ASSUME i = 1, RemoveAt(s, i) = <<>>
      PROVE  s[i] = Last(s)
  BY <1>1, <1>4, <1>5 DEF Last
<1>6. ASSUME i = 1, RemoveAt(s, i) # <<>>
      PROVE  Last(RemoveAt(s, i)) = Last(s)
  BY <1>1, <1>4, <1>6 DEF Last
<1> QED
  BY <1>3, <1>5, <1>6

(***************************************************************************)
(* Types.                                                                  *)
(***************************************************************************)

TypeInv == TypeOK /\ history # <<>>

LEMMA TypeInit == Init => TypeInv
<1> SUFFICES ASSUME Init PROVE TypeInv
  OBVIOUS
<1>1. history \in Seq({"open", "final"}) /\ history # <<>> /\ Len(history) = 1
  BY DEF Init
<1>2. everywhere \in 0..1
  BY DEF Init
<1>3. pending \in Seq(0..1) /\ timers \in Seq(0..1)
  BY <1>2, FewVersions DEF Init
<1>4. /\ view \in 0..1 /\ heard \in 0..1
      /\ tx \in [Sends -> {"unused", "built", "dropped", "pending", "landed",
                           "reverted", "expired"}]
      /\ kind \in [Sends -> {"none", "stake", "claim"}]
  BY DEF Init
<1>5. /\ wanted \in Nat /\ adrift \subseteq Sends \cup {NoSend} /\ error \in BOOLEAN /\ busy \in BOOLEAN /\ opens \in Nat
      /\ at \in {"idle", "blockhash", "preflight", "prompt", "confirm"}
      /\ cur \in Sends \cup {NoSend}
      /\ panel \in {"none", "confirmed", "expired", "failed", "error"}
  BY DEF Init
<1> QED
  BY <1>1, <1>2, <1>3, <1>4, <1>5 DEF TypeInv, TypeOK

\* What has been seen of a shorter history is still typed by a longer one.
LEMMA HistoryGrows ==
  ASSUME TypeInv, NEW status \in {"open", "final"}, history' = Append(history, status),
         UNCHANGED <<everywhere, kind, wanted, adrift, screen, send, opens>>,
         tx' \in [Sends -> {"unused", "built", "dropped", "pending", "landed",
                           "reverted", "expired"}]
  PROVE  TypeInv'
<1>1. Len(history) \in Nat /\ Len(history') = Len(history) + 1
  BY DEF TypeInv, TypeOK
<1>2. history' \in Seq({"open", "final"}) /\ history' # <<>>
  BY DEF TypeInv, TypeOK
<1>3. pending' \in Seq(0..Len(history')) /\ timers' \in Seq(0..Len(history'))
  BY <1>1, VersionsGrow DEF TypeInv, TypeOK, screen
<1> QED
  BY <1>1, <1>2, <1>3 DEF TypeInv, TypeOK, screen, send

LEMMA StatusType == ASSUME TypeInv PROVE Status \in {"open", "final"}
BY DEF TypeInv, TypeOK, Status, Last

LEMMA TypeLedger ==
  ASSUME TypeInv, OthersChange \/ CatchUp \/ \E s \in Sends : Land(s) \/ Die(s)
  PROVE  TypeInv'
<1>1. CASE OthersChange
  BY <1>1, HistoryGrows DEF OthersChange, intent, TypeInv, TypeOK
<1>2. CASE CatchUp
  BY <1>2 DEF CatchUp, TypeInv, TypeOK, intent, screen, send
<1>3. ASSUME NEW s \in Sends, Land(s) PROVE TypeInv'
  BY <1>3, HistoryGrows, StatusType DEF Land, intent, TypeInv, TypeOK
<1>4. ASSUME NEW s \in Sends, Die(s) PROVE TypeInv'
  BY <1>4 DEF Die, TypeInv, TypeOK, intent, screen, send, ledger
<1> QED
  BY <1>1, <1>2, <1>3, <1>4

LEMMA TypeReads ==
  ASSUME TypeInv, TimerFires \/ \E i \in DOMAIN pending : Answer(i)
  PROVE  TypeInv'
<1>1. Len(history) \in Nat
  BY DEF TypeInv, TypeOK
<1>2. CASE TimerFires
  <2>1. timers' \in Seq(0..Len(history)) /\ pending' \in Seq(0..Len(history))
    BY <1>1, <1>2, Dequeue, AppendVersion DEF TimerFires, Ask, TypeInv, TypeOK
  <2> QED
    BY <1>2, <2>1 DEF TimerFires, TypeInv, TypeOK, ledger, intent, send
<1>3. ASSUME NEW i \in DOMAIN pending, Answer(i) PROVE TypeInv'
  <2>1. pending' \in Seq(0..Len(history))
    BY <1>1, <1>3, Removal DEF Answer, TypeInv, TypeOK
  <2>2. pending[i] \in 0..Len(history)
    BY DEF TypeInv, TypeOK
  <2>3. view' \in 0..Len(history) /\ error' \in BOOLEAN
    <3>1. CASE error' = TRUE /\ UNCHANGED view
      BY <3>1 DEF TypeInv, TypeOK
    <3>2. ASSUME NEW v \in pending[i]..Len(history), view' = v /\ UNCHANGED error
          PROVE  view' \in 0..Len(history) /\ error' \in BOOLEAN
      BY <1>1, <2>2, <3>2 DEF TypeInv, TypeOK
    <3> QED
      BY <1>3, <3>1, <3>2 DEF Answer
  <2> QED
    BY <1>3, <2>1, <2>3 DEF Answer, TypeInv, TypeOK, ledger, intent, send
<1> QED
  BY <1>2, <1>3

LEMMA TypeSend ==
  ASSUME TypeInv,
         \/ \E s \in Sends, what \in {"stake", "claim"} : Click(s, what)
         \/ Ends \/ Reopen
  PROVE  TypeInv'
<1> USE DEF TypeInv, TypeOK, ledger, intent, screen, send
<1>1. ASSUME NEW s \in Sends, NEW what \in {"stake", "claim"}, Click(s, what)
      PROVE  TypeInv'
  BY <1>1 DEF Click
<1>2. CASE GetBlockhash
  BY <1>2 DEF GetBlockhash, Proceed
<1>3. CASE Preflight
  BY <1>3 DEF Preflight, Proceed
<1>4. CASE Sign
  BY <1>4 DEF Sign, Proceed
<1>5. CASE Confirm
  <2>1. timers' \in Seq(0..Len(history)) /\ pending' \in Seq(0..Len(history))
    BY <1>5, AppendVersion DEF Confirm, Refresh, Ask
  <2>2. panel' \in {"confirmed", "expired", "failed"}
    BY <1>5 DEF Confirm, Outcomes
  <2>3. heard' \in 0..Len(history)
    BY <1>5 DEF Confirm
  <2> QED
    BY <1>5, <2>1, <2>2, <2>3 DEF Confirm, Finish
<1>6. CASE Reject
  <2>1. tx' \in [Sends -> {"unused", "built", "dropped", "pending", "landed",
                          "reverted", "expired"}]
    BY <1>6 DEF Reject
  <2>2. adrift' \subseteq Sends \cup {NoSend}
    BY <1>6 DEF Reject
  <2> QED
    BY <1>6, <2>1, <2>2 DEF Reject, Finish
<1>7. CASE Reopen
  <2>1. pending' \in Seq(0..Len(history)) /\ timers' \in Seq(0..Len(history))
    BY <1>7, FewVersions DEF Reopen
  <2>2. 0 \in 0..Len(history)
    OBVIOUS
  <2>3. tx' \in [Sends -> {"unused", "built", "dropped", "pending", "landed",
                          "reverted", "expired"}]
    BY <1>7 DEF Reopen
  <2>4. /\ view' = 0 /\ heard' = 0 /\ opens' \in Nat /\ UNCHANGED <<history, everywhere>>
        /\ UNCHANGED <<kind, wanted, adrift>> /\ error' = FALSE /\ busy' = FALSE
        /\ at' = "idle" /\ cur' = NoSend /\ panel' = "none"
    BY <1>7 DEF Reopen
  <2> QED
    BY <2>1, <2>2, <2>3, <2>4
<1> QED
  BY <1>1, <1>2, <1>3, <1>4, <1>5, <1>6, <1>7 DEF Ends

LEMMA TypeNext == TypeInv /\ [Next]_vars => TypeInv'
<1> SUFFICES ASSUME TypeInv, [Next]_vars PROVE TypeInv'
  OBVIOUS
<1>1. CASE UNCHANGED vars
  BY <1>1 DEF TypeInv, TypeOK, vars, ledger, intent, screen, send
<1> QED
  BY <1>1, TypeLedger, TypeReads, TypeSend DEF Next

\* Every variable of the page keeps its shape.
THEOREM PageTypeCorrect == Spec => []TypeOK
<1>1. Spec => []TypeInv
  BY TypeInit, TypeNext, PTL DEF Spec
<1>2. TypeInv => TypeOK
  BY DEF TypeInv
<1> QED
  BY <1>1, <1>2, PTL

(***************************************************************************)
(* What the page knows of its send.                                        *)
(***************************************************************************)

\* During a send, the transaction is where the await says.
SendInv ==
  /\ busy <=> at # "idle"
  /\ at # "idle" => cur \in Sends /\ panel = "none"
  /\ at \in {"blockhash", "preflight", "prompt"} => tx[cur] = "built"
  /\ at = "confirm" => tx[cur] \in {"pending", "landed", "reverted", "expired"}
  /\ panel # "none" => cur \in Sends

\* An error is shown of what was never broadcast, or rejected nevertheless.
ErrorInv == panel = "error" => tx[cur] = "dropped" \/ cur \in adrift

PanelInv == TypeInv /\ SendInv /\ PanelIsTrue /\ ErrorInv

LEMMA PanelInit == Init => PanelInv
BY TypeInit DEF Init, PanelInv, SendInv, PanelIsTrue, ErrorInv

\* A transaction that lands or dies is no news to a panel that is up already.
LEMMA PanelTransaction ==
  ASSUME PanelInv, NEW s \in Sends, Land(s) \/ Die(s), TypeInv'
  PROVE  PanelInv'
<1>1. UNCHANGED <<busy, at, cur, panel, adrift>> /\ tx[s] = "pending"
  BY DEF Land, Die, send, intent
<1>2. tx'[s] \in {"landed", "reverted", "expired"}
      /\ \A t \in Sends \ {s} : tx'[t] = tx[t]
  BY DEF Land, Die, PanelInv, TypeInv, TypeOK
<1>3. SendInv'
  <2>1. CASE at = "idle"
    BY <1>1, <2>1 DEF PanelInv, SendInv
  <2>2. CASE at # "idle"
    BY <1>1, <1>2, <2>2 DEF PanelInv, SendInv, TypeInv, TypeOK
  <2> QED
    BY <2>1, <2>2
<1>4. panel # "none" /\ (panel # "error" \/ cur \notin adrift) => tx'[cur] = tx[cur]
  BY <1>1, <1>2 DEF PanelInv, SendInv, PanelIsTrue, ErrorInv, TypeInv, TypeOK
<1>5. PanelIsTrue'
  BY <1>1, <1>4 DEF PanelInv, PanelIsTrue
<1>6. ErrorInv'
  BY <1>1, <1>4 DEF PanelInv, ErrorInv
<1> QED
  BY <1>3, <1>5, <1>6 DEF PanelInv

LEMMA PanelSend ==
  ASSUME PanelInv, TypeInv',
         \/ \E s \in Sends, what \in {"stake", "claim"} : Click(s, what)
         \/ Ends \/ Reopen
  PROVE  PanelInv'
<1> USE DEF PanelInv, SendInv, PanelIsTrue, ErrorInv, TypeInv, TypeOK, intent
<1>1. ASSUME NEW s \in Sends, NEW what \in {"stake", "claim"}, Click(s, what)
      PROVE  PanelInv'
  BY <1>1 DEF Click
<1>2. CASE GetBlockhash
  BY <1>2 DEF GetBlockhash, Proceed
<1>3. CASE Preflight
  BY <1>3 DEF Preflight, Proceed
<1>4. CASE Sign
  BY <1>4 DEF Sign, Proceed
<1>5. CASE Confirm
  <2>1. tx[cur] \in {"landed", "reverted", "expired"}
    BY <1>5 DEF Confirm, Outcomes
  <2>2. /\ panel' \in {"confirmed", "expired", "failed"}
        /\ panel' = "confirmed" => tx[cur] = "landed"
        /\ panel' = "failed" => tx[cur] = "reverted"
    BY <1>5, <2>1 DEF Confirm, Outcomes
  <2> QED
    BY <1>5, <2>1, <2>2 DEF Confirm, Finish
<1>6. CASE Reject
  BY <1>6 DEF Reject, Finish
<1>7. CASE Reopen
  BY <1>7 DEF Reopen
<1> QED
  BY <1>1, <1>2, <1>3, <1>4, <1>5, <1>6, <1>7 DEF Ends

LEMMA PanelNext == PanelInv /\ [Next]_vars => PanelInv'
<1> SUFFICES ASSUME PanelInv, [Next]_vars PROVE PanelInv'
  OBVIOUS
<1>1. TypeInv'
  BY TypeNext DEF PanelInv
<1>2. CASE UNCHANGED <<tx, adrift, send>>
  BY <1>1, <1>2 DEF PanelInv, SendInv, PanelIsTrue, ErrorInv, send
<1>3. CASE OthersChange \/ CatchUp \/ TimerFires \/ \E i \in DOMAIN pending : Answer(i)
  BY <1>2, <1>3 DEF OthersChange, CatchUp, TimerFires, Answer, intent
<1>4. CASE UNCHANGED vars
  BY <1>2, <1>4 DEF vars, intent
<1> QED
  BY <1>1, <1>3, <1>4, PanelTransaction, PanelSend DEF Next

\* What the result panel says of a transaction is so, and stays so.
THEOREM PanelAlwaysTrue == Spec => []PanelIsTrue
<1>1. Spec => []PanelInv
  BY PanelInit, PanelNext, PTL DEF Spec
<1>2. PanelInv => PanelIsTrue
  BY DEF PanelInv
<1> QED
  BY <1>1, <1>2, PTL

(***************************************************************************)
(* Stakes.                                                                 *)
(***************************************************************************)

\* The stakes that have landed or may still land, and the one that the user
\* looks at: it may be tried again without a new decision.
Counted ==
  {s \in Sends : /\ kind[s] = "stake"
                 /\ \/ tx[s] \in {"built", "pending", "landed"} /\ s \notin adrift
                    \/ s = cur}

StakeInv == Cardinality(Counted) <= wanted

PageInv == PanelInv /\ StakeInv

LEMMA CountedFinite ==
  /\ IsFiniteSet(Counted)
  /\ Cardinality(Counted) \in Nat
<1>1. Counted \in SUBSET Sends
  BY DEF Counted
<1> QED
  BY <1>1, SendsAssumption, FS_Subset, FS_CardinalityType

LEMMA StakeInit == Init => StakeInv
<1> SUFFICES ASSUME Init PROVE Cardinality(Counted) <= wanted
  BY DEF StakeInv
<1>1. Counted = {}
  BY DEF Init, Counted
<1> QED
  BY <1>1, FS_EmptySet DEF Init

\* A click counts one stake more, unless it takes the place of one that is dead.
LEMMA StakeClick ==
  ASSUME PageInv, NEW s \in Sends, NEW what \in {"stake", "claim"}, Click(s, what)
  PROVE  Cardinality(Counted') <= wanted'
<1> DEFINE Alive == {t \in Counted : /\ tx[t] \in {"built", "pending", "landed"}
                                     /\ t \notin adrift}
<1>1. IsFiniteSet(Counted) /\ Cardinality(Counted) \in Nat /\ Cardinality(Counted) <= wanted
  BY CountedFinite DEF PageInv, StakeInv
<1>2. IsFiniteSet(Alive) /\ Cardinality(Alive) \in Nat /\ Cardinality(Alive) <= Cardinality(Counted)
  BY <1>1, FS_Subset, FS_CardinalityType
<1>3. /\ wanted \in Nat
      /\ Cardinality(Alive \cup {s}) \in Nat
      /\ Cardinality(Alive \cup {s}) <= Cardinality(Alive) + 1
  <2>1. wanted \in Nat
    BY DEF PageInv, PanelInv, TypeInv, TypeOK
  <2> HIDE DEF Alive
  <2>2. Cardinality(Alive \cup {s}) \in {Cardinality(Alive), Cardinality(Alive) + 1}
    BY <1>2, FS_AddElement
  <2> QED
    BY <1>2, <2>1, <2>2
<1>4. CASE what = "claim"
  <2>1. Counted' \in SUBSET Counted
    BY <1>4 DEF Counted, Click, PageInv, PanelInv, TypeInv, TypeOK
  <2>2. Cardinality(Counted') \in Nat /\ Cardinality(Counted') <= Cardinality(Counted)
    BY <1>1, <2>1, FS_Subset, FS_CardinalityType
  <2> QED
    BY <1>1, <1>3, <1>4, <2>2 DEF Click
<1>5. CASE what = "stake"
  <2>1. Counted' = Alive \cup {s}
    BY <1>5 DEF Counted, Click, PageInv, PanelInv, TypeInv, TypeOK
  <2>2. CASE wanted' = wanted + 1
    BY <1>1, <1>2, <1>3, <2>1, <2>2
  <2>3. CASE UNCHANGED wanted /\ cur # NoSend /\ kind[cur] = "stake" /\ ClicksAgain
    <3>1. cur \in Counted
      BY <2>3 DEF Counted, PageInv, PanelInv, TypeInv, TypeOK
    <3>2. cur \notin Alive
      BY <2>3 DEF ClicksAgain, Click, Enabled, PageInv, PanelInv, PanelIsTrue, ErrorInv
    <3>3. Alive \in SUBSET (Counted \ {cur})
      BY <3>2
    <3>4. IsFiniteSet(Counted \ {cur}) /\ Cardinality(Counted \ {cur}) = Cardinality(Counted) - 1
      BY <1>1, <3>1, FS_RemoveElement
    <3>5. Cardinality(Alive) <= Cardinality(Counted) - 1
      BY <3>3, <3>4, FS_Subset
    <3> QED
      BY <1>1, <1>2, <1>3, <2>1, <2>3, <3>5
  <2> QED
    BY <1>5, <2>2, <2>3 DEF Click
<1> QED
  BY <1>4, <1>5

LEMMA StakeNext == PageInv /\ [Next]_vars => PageInv'
<1> SUFFICES ASSUME PageInv, [Next]_vars
             PROVE  Cardinality(Counted') <= wanted'
  BY PanelNext DEF PageInv, StakeInv
<1>1. IsFiniteSet(Counted) /\ Cardinality(Counted) \in Nat /\ Cardinality(Counted) <= wanted
  BY CountedFinite DEF PageInv, StakeInv
<1>2. wanted \in Nat
  BY DEF PageInv, PanelInv, TypeInv, TypeOK
<1>3. ASSUME Counted' \in SUBSET Counted, UNCHANGED wanted
      PROVE  Cardinality(Counted') <= wanted'
  <2>1. Cardinality(Counted') \in Nat /\ Cardinality(Counted') <= Cardinality(Counted)
    BY <1>1, <1>3, FS_Subset, FS_CardinalityType
  <2> QED
    BY <1>1, <1>2, <1>3, <2>1
<1>4. CASE UNCHANGED <<tx, kind, wanted, adrift, cur>>
  BY <1>3, <1>4 DEF Counted
<1>5. CASE \/ OthersChange \/ CatchUp \/ TimerFires \/ UNCHANGED vars
           \/ \E i \in DOMAIN pending : Answer(i)
  BY <1>4, <1>5 DEF OthersChange, CatchUp, TimerFires, Answer, vars, intent, send
<1>6. ASSUME NEW s \in Sends, Land(s) \/ Die(s)
      PROVE  Cardinality(Counted') <= wanted'
  <2>1. UNCHANGED <<kind, wanted, adrift, cur>> /\ tx[s] = "pending"
        /\ \A t \in Sends \ {s} : tx'[t] = tx[t]
    BY <1>6 DEF Land, Die, intent, send, PageInv, PanelInv, TypeInv, TypeOK
  <2>2. Counted' \in SUBSET Counted
    BY <2>1 DEF Counted
  <2> QED
    BY <1>3, <2>1, <2>2
<1>7. CASE GetBlockhash \/ Preflight \/ Confirm
  BY <1>4, <1>7 DEF GetBlockhash, Preflight, Proceed, Confirm, Finish, intent
<1>8. CASE Sign \/ Reject
  <2>1. /\ UNCHANGED <<kind, wanted, cur>> /\ adrift \subseteq adrift'
        /\ \A t \in Sends : t # cur => tx'[t] = tx[t]
    BY <1>8 DEF Sign, Proceed, Reject, Finish, intent, PageInv, PanelInv, TypeInv, TypeOK
  <2>2. Counted' \in SUBSET Counted
    BY <2>1 DEF Counted
  <2> QED
    BY <1>3, <2>1, <2>2
<1>9. CASE Reopen
  <2>1. UNCHANGED <<kind, wanted, adrift>> /\ cur' = NoSend
        /\ \A t \in Sends : tx'[t] \in {"built", "pending", "landed"}
                            => tx[t] \in {"built", "pending", "landed"}
    BY <1>9 DEF Reopen, intent
  <2>2. Counted' \in SUBSET Counted
    BY <2>1, MarketPageAssumption DEF Counted
  <2> QED
    BY <1>3, <2>1, <2>2
<1> QED
  BY <1>5, <1>6, <1>7, <1>8, <1>9, StakeClick DEF Next, Ends

\* Whoever follows the panel's advice never stakes more often than decided.
THEOREM NeverDoubleStake == Spec => []NoDoubleStake
<1>1. Init => PageInv
  BY PanelInit, StakeInit DEF PageInv
<1>2. Spec => []PageInv
  BY <1>1, StakeNext, PTL DEF Spec
<1>3. PageInv => NoDoubleStake
  <2> SUFFICES ASSUME PageInv PROVE Cardinality(Landed("stake") \ adrift) <= wanted
    BY DEF NoDoubleStake
  <2>1. IsFiniteSet(Counted) /\ Cardinality(Counted) \in Nat /\ Cardinality(Counted) <= wanted
    BY CountedFinite DEF PageInv, StakeInv
  <2>2. Landed("stake") \ adrift \in SUBSET Counted
    BY DEF Landed, Counted
  <2>3. Cardinality(Landed("stake") \ adrift) \in Nat
        /\ Cardinality(Landed("stake") \ adrift) <= Cardinality(Counted)
    BY <2>1, <2>2, FS_Subset, FS_CardinalityType
  <2> QED
    BY <2>1, <2>3 DEF PageInv, PanelInv, TypeInv, TypeOK
<1> QED
  BY <1>2, <1>3, PTL

(***************************************************************************)
(* Reads.                                                                  *)
(***************************************************************************)

Heard == panel \in {"confirmed", "expired", "failed"}

\* The read that will show what was heard: its timer still runs; or every node
\* has that version, and the last read on its way will bring it, or the last
\* one to be answered has brought it.
RefreshInv ==
  Heard => \/ timers # <<>> /\ Last(timers) >= heard
           \/ /\ everywhere >= heard
              /\ \/ error
                 \/ pending # <<>> /\ Last(pending) >= heard
                 \/ pending = <<>> /\ view >= heard

LEMMA AnswerRefreshes ==
  ASSUME TypeInv, RefreshInv, ~Overtakes, NEW i \in DOMAIN pending, Answer(i)
  PROVE  RefreshInv'
<1> SUFFICES ASSUME Heard, ~(timers # <<>> /\ Last(timers) >= heard), ~error'
             PROVE  /\ everywhere >= heard
                    /\ \/ pending' # <<>> /\ Last(pending') >= heard
                       \/ pending' = <<>> /\ view' >= heard
  BY DEF RefreshInv, Heard, Answer, ledger, send
<1>1. Len(history) \in Nat /\ heard \in 0..Len(history) /\ pending \in Seq(0..Len(history))
  BY DEF TypeInv, TypeOK
<1>2. i = 1 /\ ~error /\ pending' = RemoveAt(pending, i) /\ pending # <<>>
  BY <1>1 DEF Answer, TypeInv, TypeOK
<1>3. everywhere >= heard /\ Last(pending) >= heard
  BY <1>2 DEF RefreshInv
<1>4. CASE pending' # <<>>
  <2>1. Last(pending') = Last(pending)
    BY <1>1, <1>2, <1>4, Removal
  <2> QED
    BY <1>3, <1>4, <2>1
<1>5. CASE pending' = <<>>
  <2>1. pending[i] = Last(pending) /\ pending[i] \in 0..Len(history)
    BY <1>1, <1>2, <1>5, Removal
  <2>2. PICK v \in pending[i]..Len(history) : view' = v
    BY DEF Answer
  <2> QED
    BY <1>1, <1>3, <1>5, <2>1, <2>2
<1> QED
  BY <1>4, <1>5

LEMMA TimerRefreshes ==
  ASSUME TypeInv, RefreshInv, Prompt, TimerFires
  PROVE  RefreshInv'
<1> SUFFICES ASSUME Heard, ~(timers' # <<>> /\ Last(timers') >= heard)
             PROVE  /\ everywhere >= heard
                    /\ pending' # <<>> /\ Last(pending') >= heard
  BY DEF RefreshInv, Heard, TimerFires, ledger, send
<1>1. Len(history) \in Nat /\ heard \in 0..Len(history) /\ everywhere \in 0..Len(history)
      /\ timers \in Seq(0..Len(history)) /\ pending \in Seq(0..Len(history))
  BY DEF TypeInv, TypeOK
<1>2. timers # <<>> /\ timers' = Tail(timers) /\ everywhere >= Head(timers)
  BY DEF TimerFires
<1>3. everywhere >= heard
  <2>1. CASE Last(timers) >= heard
    <3>1. timers' = <<>>
      BY <1>1, <1>2, <2>1, Dequeue
    <3>2. Head(timers) = Last(timers) /\ Head(timers) \in 0..Len(history)
      BY <1>1, <1>2, <3>1, Dequeue
    <3>3. everywhere >= Last(timers)
      BY <1>2, <3>2
    <3>4. Last(timers) \in Nat /\ everywhere \in Nat /\ heard \in Nat
      BY <1>1, <3>2
    <3> QED
      BY <2>1, <3>3, <3>4
  <2>2. CASE ~(Last(timers) >= heard)
    BY <2>2 DEF RefreshInv
  <2> QED
    BY <2>1, <2>2
<1>4. pending' # <<>> /\ Last(pending') = everywhere
  BY <1>1, AppendVersion DEF TimerFires, Ask
<1> QED
  BY <1>3, <1>4

LEMMA RefreshNext ==
  ASSUME Prompt, ~Overtakes
  PROVE  TypeInv /\ RefreshInv /\ [Next]_vars => RefreshInv'
<1> SUFFICES ASSUME TypeInv, RefreshInv, [Next]_vars PROVE RefreshInv'
  OBVIOUS
<1>1. CASE UNCHANGED <<everywhere, screen, panel, heard>>
  BY <1>1 DEF RefreshInv, Heard, screen
<1>2. CASE OthersChange \/ UNCHANGED vars \/ \E s \in Sends : Land(s) \/ Die(s)
  BY <1>1, <1>2 DEF OthersChange, Land, Die, vars, ledger, send
<1>3. CASE GetBlockhash \/ Preflight \/ Sign
  BY <1>1, <1>3 DEF GetBlockhash, Preflight, Sign, Proceed, ledger
<1>4. CASE CatchUp
  <2>1. /\ everywhere' \in Nat /\ everywhere \in Nat /\ everywhere' > everywhere
        /\ heard \in Nat
    BY <1>4 DEF CatchUp, TypeInv, TypeOK
  <2> QED
    BY <1>4, <2>1 DEF CatchUp, RefreshInv, Heard, screen, send
<1>5. CASE Confirm
  <2>1. timers' # <<>> /\ Last(timers') = heard'
    BY <1>5, AppendVersion DEF Confirm, Refresh, TypeInv, TypeOK
  <2>2. heard' \in Nat
    BY <1>5 DEF Confirm, TypeInv, TypeOK
  <2> QED
    BY <2>1, <2>2 DEF RefreshInv
<1>6. CASE \/ Reject \/ Reopen
           \/ \E s \in Sends, what \in {"stake", "claim"} : Click(s, what)
  BY <1>6 DEF Reject, Reopen, Click, RefreshInv, Heard
<1> QED
  BY <1>2, <1>3, <1>4, <1>5, <1>6, AnswerRefreshes, TimerRefreshes DEF Next, Ends

\* If nodes lag less than the timer runs and answers come in order, the page
\* ends up showing the market no older than at the outcome it reports.
THEOREM PageAlwaysCatchesUp ==
  ASSUME Prompt, ~Overtakes
  PROVE  Spec => []PageCatchesUp
<1>1. Init => RefreshInv
  BY DEF Init, RefreshInv, Heard
<1>2. TypeInv /\ RefreshInv /\ [Next]_vars => (TypeInv /\ RefreshInv)'
  BY TypeNext, RefreshNext
<1>3. Spec => [](TypeInv /\ RefreshInv)
  BY <1>1, <1>2, TypeInit, PTL DEF Spec
<1>4. RefreshInv => PageCatchesUp
  BY DEF RefreshInv, Heard, PageCatchesUp
<1> QED
  BY <1>3, <1>4, PTL
=============================================================================
