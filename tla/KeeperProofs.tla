---------------------------- MODULE KeeperProofs ----------------------------
(***************************************************************************)
(* What holds of the keeper for any number of markets and jobs.            *)
(***************************************************************************)
EXTENDS Keeper, TLAPS

USE DEF Jobs

(***************************************************************************)
(* Types.                                                                  *)
(***************************************************************************)

\* A job between two awaits of settleMarket has a market in hand.
InHand == \A j \in Jobs : at[j] \in Awaits => cur[j] \in Markets

TypeInv == TypeOK /\ InHand

LEMMA TypeInit == Init => TypeInv
BY KeeperAssumption DEF Init, TypeInv, TypeOK, InHand, Awaits

LEMMA TypeLedger ==
  ASSUME TypeInv, NEW m \in Markets,
         \/ LedgerCloses(m) \/ KeeperCloses(m) \/ OthersFinish(m) \/ Fork(m)
  PROVE  TypeInv'
<1>1. CASE LedgerCloses(m)
  BY <1>1 DEF TypeInv, TypeOK, InHand, LedgerCloses, job
<1>2. CASE KeeperCloses(m)
  BY <1>2 DEF TypeInv, TypeOK, InHand, KeeperCloses, job
<1>3. CASE OthersFinish(m)
  BY <1>3 DEF TypeInv, TypeOK, InHand, OthersFinish, job
<1>4. CASE Fork(m)
  BY <1>4, KeeperAssumption DEF TypeInv, TypeOK, InHand, Fork, job
<1> QED BY <1>1, <1>2, <1>3, <1>4

LEMMA TypeTransaction ==
  ASSUME TypeInv, NEW j \in Jobs, NEW m \in Markets, Land(j, m) \/ Expire(j, m)
  PROVE  TypeInv'
BY DEF TypeInv, TypeOK, InHand, Land, Expire, Became, job, ledger

LEMMA TypeStart ==
  ASSUME TypeInv, NEW j \in Jobs,
         StartSweep(j) \/ \E m \in Markets : StartSettle(j, m)
  PROVE  TypeInv'
BY DEF TypeInv, TypeOK, InHand, StartSweep, StartSettle, Goto, job, ledger, Awaits

LEMMA TypeStep ==
  ASSUME TypeInv, NEW j \in Jobs, Step(j)
  PROVE  TypeInv'
<1> USE DEF TypeInv, TypeOK, InHand, Awaits, Goto, job, ledger
<1>1. CASE Scan(j)
  BY <1>1 DEF Scan
<1>2. CASE NextMarket(j)
  BY <1>2 DEF NextMarket, End
<1>3. CASE CheckKv(j)
  BY <1>3 DEF CheckKv
<1>4. CASE ReadMarket(j)
  BY <1>4 DEF ReadMarket
<1>5. CASE FetchProof(j)
  BY <1>5 DEF FetchProof
<1>6. CASE Send(j)
  BY <1>6 DEF Send
<1>7. CASE Confirm(j)
  BY <1>7 DEF Confirm, Abandon
<1>8. CASE Note(j)
  BY <1>8 DEF Note
<1>9. CASE Fail(j)
  BY <1>9 DEF Fail, Abandon, End
<1> QED BY <1>1, <1>2, <1>3, <1>4, <1>5, <1>6, <1>7, <1>8, <1>9 DEF Step

LEMMA TypeStop ==
  ASSUME TypeInv, NEW j \in Jobs, Stop(j)
  PROVE  TypeInv'
BY KeeperAssumption DEF TypeInv, TypeOK, InHand, Stop, Abandon, End, Goto, job, ledger, Awaits

LEMMA TypeNext == TypeInv /\ [Next]_vars => TypeInv'
<1> SUFFICES ASSUME TypeInv, [Next]_vars PROVE TypeInv'
  OBVIOUS
<1>1. CASE UNCHANGED vars
  BY <1>1 DEF TypeInv, TypeOK, InHand, vars, ledger, job
<1> QED
  BY <1>1, TypeLedger, TypeTransaction, TypeStart, TypeStep, TypeStop DEF Next

\* Every variable of the keeper keeps its shape.
THEOREM KeeperTypeCorrect == Spec => []TypeOK
<1>1. TypeInv => TypeOK
  BY DEF TypeInv
<1> QED BY <1>1, TypeInit, TypeNext, PTL DEF Spec
-----------------------------------------------------------------------------
(***************************************************************************)
(* What is noted.  A key is written only by a job that heard "confirmed";  *)
(* that is said only of a transaction that landed, and a transaction that  *)
(* landed left its market final.  Unless a fork unwinds it, it stays final. *)
(***************************************************************************)

LandedIsFinal ==
  \A j \in Jobs, m \in Markets : tx[j][m] = "landed" => status[m] = "Final"

HeardIsFinal == \A j \in Jobs : at[j] = "note" => status[cur[j]] = "Final"

NotedInv ==
  forks = 0 => /\ \A m \in noted : status[m] = "Final"
               /\ LandedIsFinal
               /\ HeardIsFinal

LEMMA NotedInit == Init => NotedInv
BY DEF Init, NotedInv, LandedIsFinal, HeardIsFinal

LEMMA NotedLedger ==
  ASSUME TypeInv, NotedInv, NEW m \in Markets,
         \/ LedgerCloses(m) \/ KeeperCloses(m) \/ OthersFinish(m) \/ Fork(m)
  PROVE  NotedInv'
<1> USE DEF TypeInv, TypeOK, InHand, NotedInv, LandedIsFinal, HeardIsFinal, Awaits
<1>1. CASE LedgerCloses(m)
  BY <1>1 DEF LedgerCloses, job
<1>2. CASE KeeperCloses(m)
  BY <1>2 DEF KeeperCloses, job
<1>3. CASE OthersFinish(m)
  BY <1>3 DEF OthersFinish, job
<1>4. CASE Fork(m)
  <2>1. forks' # 0
    BY <1>4 DEF Fork
  <2> QED BY <2>1
<1> QED BY <1>1, <1>2, <1>3, <1>4

LEMMA NotedTransaction ==
  ASSUME TypeInv, NotedInv, NEW j \in Jobs, NEW m \in Markets, Land(j, m) \/ Expire(j, m)
  PROVE  NotedInv'
<1> USE DEF TypeInv, TypeOK, InHand, NotedInv, LandedIsFinal, HeardIsFinal, Awaits, Became,
            job, ledger
<1>1. CASE Land(j, m)
  BY <1>1 DEF Land, Accepts
<1>2. CASE Expire(j, m)
  BY <1>2 DEF Expire
<1> QED BY <1>1, <1>2

LEMMA NotedStart ==
  ASSUME TypeInv, NotedInv, NEW j \in Jobs,
         StartSweep(j) \/ \E m \in Markets : StartSettle(j, m)
  PROVE  NotedInv'
BY DEF TypeInv, TypeOK, NotedInv, LandedIsFinal, HeardIsFinal, StartSweep, StartSettle,
       Goto, job, ledger

LEMMA NotedStep ==
  ASSUME TypeInv, NotedInv, NEW j \in Jobs, Step(j)
  PROVE  NotedInv'
<1> USE DEF TypeInv, TypeOK, InHand, NotedInv, LandedIsFinal, HeardIsFinal, Awaits, Goto,
            job, ledger
<1>1. CASE Scan(j)
  BY <1>1 DEF Scan
<1>2. CASE NextMarket(j)
  BY <1>2 DEF NextMarket, End
<1>3. CASE CheckKv(j)
  BY <1>3 DEF CheckKv
<1>4. CASE ReadMarket(j)
  BY <1>4 DEF ReadMarket
<1>5. CASE FetchProof(j)
  BY <1>5 DEF FetchProof
<1>6. CASE Send(j)
  BY <1>6 DEF Send
<1>7. CASE Confirm(j)
  <2>1. PICK outcome \in Outcomes(tx[j][cur[j]]) :
          at' = [at EXCEPT ![j] = IF outcome = "confirmed" THEN "note" ELSE "next"]
    BY <1>7 DEF Confirm
  <2>2. outcome = "confirmed" => tx[j][cur[j]] = "landed"
    BY <1>7, <2>1 DEF Confirm, Outcomes
  <2> QED BY <1>7, <2>1, <2>2 DEF Confirm, Abandon
<1>8. CASE Note(j)
  BY <1>8 DEF Note
<1>9. CASE Fail(j)
  BY <1>9 DEF Fail, Abandon, End
<1> QED BY <1>1, <1>2, <1>3, <1>4, <1>5, <1>6, <1>7, <1>8, <1>9 DEF Step

LEMMA NotedStop ==
  ASSUME TypeInv, NotedInv, NEW j \in Jobs, Stop(j)
  PROVE  NotedInv'
BY DEF TypeInv, TypeOK, NotedInv, LandedIsFinal, HeardIsFinal, Stop, Abandon, End, Goto, job,
       ledger, Awaits

LEMMA NotedNext == TypeInv /\ NotedInv /\ [Next]_vars => NotedInv'
<1> SUFFICES ASSUME TypeInv, NotedInv, [Next]_vars PROVE NotedInv'
  OBVIOUS
<1>1. CASE UNCHANGED vars
  BY <1>1 DEF NotedInv, LandedIsFinal, HeardIsFinal, vars, ledger, job
<1> QED
  BY <1>1, NotedLedger, NotedTransaction, NotedStart, NotedStep, NotedStop DEF Next

\* What the keeper has noted as settled is final on the ledger, as long as no
\* fork has unwound a settlement.
THEOREM NotedAlwaysFinal == Spec => []NotedIsFinal
<1>1. NotedInv => NotedIsFinal
  BY DEF NotedInv, NotedIsFinal
<1> QED BY <1>1, TypeInit, TypeNext, NotedInit, NotedNext, PTL DEF Spec

-----------------------------------------------------------------------------
(***************************************************************************)
(* What is sent.  A sweep strikes each market off its list as it takes it  *)
(* up, and a slot takes a new job only when the last one's transactions    *)
(* are gone.                                                               *)
(***************************************************************************)

\* Before its list is drawn up, a job has nothing in hand and has sent nothing.
FreshStart ==
  \A j \in Jobs :
    /\ at[j] \in {"idle", "scan"} => cur[j] = NoMarket /\ rest[j] = {}
    /\ at[j] = "scan" => \A m \in Markets : tx[j][m] = "none"

\* The market in hand is off the list.
StruckOff == \A j \in Jobs : cur[j] \notin rest[j]

SentInv == NeverSentTwice /\ FreshStart /\ StruckOff

LEMMA SentInit == Init => SentInv
BY DEF Init, SentInv, NeverSentTwice, FreshStart, StruckOff

LEMMA SentNext == TypeInv /\ SentInv /\ [Next]_vars => SentInv'
<1> SUFFICES ASSUME TypeInv, SentInv, [Next]_vars PROVE SentInv'
  OBVIOUS
<1> USE DEF TypeInv, TypeOK, InHand, Awaits, SentInv, NeverSentTwice, FreshStart, StruckOff,
            ledger, job
<1>1. CASE UNCHANGED vars
  BY <1>1 DEF vars
<1>2. ASSUME NEW m \in Markets,
             \/ LedgerCloses(m) \/ KeeperCloses(m) \/ OthersFinish(m)
      PROVE  SentInv'
  BY <1>2 DEF LedgerCloses, KeeperCloses, OthersFinish
<1>3. ASSUME NEW m \in Markets, Fork(m)
      PROVE  SentInv'
  <2>1. \A j \in Jobs, n \in Markets : tx[j][n] = "none" => tx'[j][n] = "none"
    BY <1>3 DEF Fork
  <2>2. UNCHANGED job
    BY <1>3 DEF Fork
  <2> QED BY <2>1, <2>2
<1>4. ASSUME NEW j \in Jobs, NEW m \in Markets, Land(j, m) \/ Expire(j, m)
      PROVE  SentInv'
  <2>1. UNCHANGED job /\ tx[j][m] = "pending"
    BY <1>4 DEF Land, Expire
  <2>2. \A i \in Jobs, n \in Markets : tx[i][n] = "none" => tx'[i][n] = "none"
    BY <1>4, <2>1 DEF Land, Expire, Became
  <2> QED BY <2>1, <2>2
<1>5. ASSUME NEW j \in Jobs, StartSweep(j) \/ \E m \in Markets : StartSettle(j, m)
      PROVE  SentInv'
  BY <1>5 DEF StartSweep, StartSettle, Free, Goto
<1>6. ASSUME NEW j \in Jobs, Step(j)
      PROVE  SentInv'
  <2> USE DEF Goto
  <2>1. CASE Scan(j)
    BY <2>1, KeeperAssumption DEF Scan
  <2>2. CASE NextMarket(j)
    <3>1. CASE rest[j] = {} /\ End(j)
      BY <2>2, <3>1, KeeperAssumption DEF NextMarket, End
    <3>2. CASE \E m \in rest[j] : /\ Goto(j, "kv")
                                 /\ cur' = [cur EXCEPT ![j] = m]
                                 /\ rest' = [rest EXCEPT ![j] = @ \ {m}]
      <4>1. PICK m \in rest[j] : /\ Goto(j, "kv")
                                 /\ cur' = [cur EXCEPT ![j] = m]
                                 /\ rest' = [rest EXCEPT ![j] = @ \ {m}]
        BY <3>2
      <4>2. tx[j][m] = "none" /\ tx' = tx
        BY <2>2, <4>1 DEF NextMarket
      <4> QED BY <4>1, <4>2
    <3> QED BY <2>2, <3>1, <3>2 DEF NextMarket
  <2>3. CASE CheckKv(j) \/ ReadMarket(j) \/ FetchProof(j)
    BY <2>3 DEF CheckKv, ReadMarket, FetchProof
  <2>4. CASE Send(j)
    BY <2>4 DEF Send
  <2>5. CASE Confirm(j) \/ Note(j)
    BY <2>5 DEF Confirm, Abandon, Note
  <2>6. CASE Fail(j)
    <3>1. \A i \in Jobs, n \in Markets : tx[i][n] = "none" => tx'[i][n] = "none"
      BY <2>6 DEF Fail, Abandon
    <3>2. CASE at[j] = "scan"
      <4>1. /\ at' = [at EXCEPT ![j] = "idle"]
            /\ cur' = [cur EXCEPT ![j] = NoMarket]
            /\ rest' = [rest EXCEPT ![j] = {}]
        BY <2>6, <3>2 DEF Fail, End
      <4> QED BY <3>1, <4>1
    <3>3. CASE at[j] \in Awaits
      <4>1. at' = [at EXCEPT ![j] = "next"] /\ UNCHANGED <<cur, rest>>
        BY <2>6, <3>3 DEF Fail
      <4> QED BY <3>1, <4>1
    <3> QED BY <2>6, <3>2, <3>3 DEF Fail
  <2> QED BY <1>6, <2>1, <2>2, <2>3, <2>4, <2>5, <2>6 DEF Step
<1>7. ASSUME NEW j \in Jobs, Stop(j)
      PROVE  SentInv'
  <2>1. \A i \in Jobs, n \in Markets : tx[i][n] = "none" => tx'[i][n] = "none"
    BY <1>7 DEF Stop, Abandon
  <2> QED BY <1>7, <2>1, KeeperAssumption DEF Stop, End, Goto
<1> QED BY <1>1, <1>2, <1>3, <1>4, <1>5, <1>6, <1>7 DEF Next

\* No job sends for a market again while what it sent for it may still land.
THEOREM NeverAnySentTwice == Spec => []NeverSentTwice
<1>1. SentInv => NeverSentTwice
  BY DEF SentInv
<1> QED BY <1>1, TypeInit, TypeNext, SentInit, SentNext, PTL DEF Spec

-----------------------------------------------------------------------------
(***************************************************************************)
(* What is left alone.                                                     *)
(***************************************************************************)

NothingNotedUnbound == ~UsesKv => noted = {}

LEMMA UnboundNext == NothingNotedUnbound /\ [Next]_vars => NothingNotedUnbound'
BY DEF NothingNotedUnbound, Next, vars, ledger, job, LedgerCloses, KeeperCloses, OthersFinish,
       Fork, Land, Expire, StartSweep, StartSettle, Step, Scan, NextMarket, CheckKv,
       ReadMarket, FetchProof, Send, Confirm, Note, Fail, Stop

LEMMA QuietNext ==
  ASSUME TypeInv, NothingNotedUnbound, ~KvLags, [Next]_vars,
         NEW n \in noted, Quiet(n)
  PROVE  Quiet(n)'
<1> USE DEF TypeInv, TypeOK, InHand, Awaits, Quiet, ledger, job
<1>0. n \in Markets
  OBVIOUS
<1>1. CASE UNCHANGED vars
  BY <1>1 DEF vars
<1>2. ASSUME NEW m \in Markets,
             \/ LedgerCloses(m) \/ KeeperCloses(m) \/ OthersFinish(m) \/ Fork(m)
      PROVE  Quiet(n)'
  BY <1>0, <1>2 DEF LedgerCloses, KeeperCloses, OthersFinish, Fork
<1>3. ASSUME NEW j \in Jobs, NEW m \in Markets, Land(j, m) \/ Expire(j, m)
      PROVE  Quiet(n)'
  BY <1>0, <1>3 DEF Land, Expire, Became
<1>4. ASSUME NEW j \in Jobs, StartSweep(j) \/ \E m \in Markets : StartSettle(j, m)
      PROVE  Quiet(n)'
  BY <1>4 DEF StartSweep, StartSettle, Goto
<1>5. ASSUME NEW j \in Jobs, Step(j)
      PROVE  Quiet(n)'
  <2> USE DEF Goto
  <2>1. CASE Scan(j) \/ NextMarket(j)
    BY <2>1 DEF Scan, NextMarket, End
  <2>2. CASE CheckKv(j)
    BY <2>2 DEF CheckKv, NothingNotedUnbound
  <2>3. CASE ReadMarket(j) \/ FetchProof(j)
    BY <2>3 DEF ReadMarket, FetchProof
  <2>4. CASE Send(j)
    BY <1>0, <2>4 DEF Send
  <2>5. CASE Confirm(j) \/ Note(j)
    BY <1>0, <2>5 DEF Confirm, Abandon, Note
  <2>6. CASE Fail(j)
    BY <1>0, <2>6 DEF Fail, Abandon, End
  <2> QED BY <1>5, <2>1, <2>2, <2>3, <2>4, <2>5, <2>6 DEF Step
<1>6. ASSUME NEW j \in Jobs, Stop(j)
      PROVE  Quiet(n)'
  BY <1>0, <1>6 DEF Stop, Abandon, End, Goto
<1> QED BY <1>1, <1>2, <1>3, <1>4, <1>5, <1>6 DEF Next

\* Once a market is noted and no job is busy with it, the keeper never again
\* sends for it, provided a get misses no key.
THEOREM NotedAlwaysQuiet == Spec => NotedStaysQuiet
<1>1. Init => NothingNotedUnbound
  BY DEF Init, NothingNotedUnbound
<1>2. TypeInv /\ NothingNotedUnbound /\ [Next]_vars => [~KvLags => QuietStep]_vars
  BY QuietNext DEF QuietStep
<1> QED BY <1>1, <1>2, TypeInit, TypeNext, UnboundNext, PTL DEF Spec, NotedStaysQuiet
=============================================================================
