--------------------- MODULE FinalWhistleRefinementProofs ---------------------
(***************************************************************************)
(* The program implements BettingPool: each of its markets, whatever the   *)
(* others do, for every number of bettors, stakes and fee rates.           *)
(***************************************************************************)
EXTENDS FinalWhistleProofs, FinalWhistleRefinement

\* The two modules add up in the same way.
LEMMA PoolSums == \A f, S : Pool!SumOver(f, S) = SumOver(f, S)
BY DEF Pool!SumOver, Pool!Units, Pool!Cardinality, SumOver, Units, Cardinality

\* What the bettors of a market are owed keeps the promise of Win.
Fair(m) ==
  LET stake == StakesOn(m, market[m].winning_side) IN
  /\ \A b \in Bettors : IF stake[b] = 0 THEN Owed(m)[b] = 0 ELSE stake[b] <= Owed(m)[b]
  /\ \A b, c \in Bettors : stake[b] <= stake[c] => Owed(m)[b] <= Owed(m)[c]

Entitled(m) ==
  /\ Owed(m) \in [Bettors -> Nat]
  /\ SumOver(Owed(m), Bettors) <= Pot(m)
  /\ market[m].status = "Resolved" => Fair(m)

LEMMA EntitledNow == TypeOK /\ BooksBalance => \A m \in Markets : Entitled(m)
<1> SUFFICES ASSUME TypeOK, BooksBalance, NEW m \in Markets PROVE Entitled(m)
  OBVIOUS
<1>1. Books(m)
  BY DEF BooksBalance
<1>2. Owed(m) \in [Bettors -> Nat]
  <2>1. \A b \in Bettors : Owed(m)[b] \in Nat
    BY StakeTypes
  <2> QED BY <2>1 DEF Owed
<1>3. SumOver(Owed(m), Bettors) <= Pot(m)
  BY <1>1, OwedWithinPot
<1>4. ASSUME market[m].status = "Resolved" PROVE Fair(m)
  <2> DEFINE side == market[m].winning_side
             w == OnSide(side, market[m].yes_pool, market[m].no_pool)
             p == market[m].total_payout_pool
             stake == StakesOn(m, side)
  <2>1. /\ w \in Nat \ {0} /\ p \in Nat /\ w <= p
        /\ \A b \in Bettors : Owed(m)[b] = Payout(stake[b], w, p)
    BY <1>1, <1>4, ResolvedPools
  <2>2. \A b \in Bettors : stake[b] \in Nat
    BY StakeTypes
  <2> HIDE DEF w, p, stake
  <2>3. ASSUME NEW b \in Bettors
        PROVE  IF stake[b] = 0 THEN Owed(m)[b] = 0 ELSE stake[b] <= Owed(m)[b]
    <3>1. Payout(0, w, p) = 0
      BY <2>1, <2>2, PayoutMonotone
    <3>2. stake[b] <= Payout(stake[b], w, p)
      BY <2>1, <2>2, PayoutBounds
    <3> QED BY <2>1, <3>1, <3>2
  <2>4. ASSUME NEW b \in Bettors, NEW c \in Bettors, stake[b] <= stake[c]
        PROVE  Owed(m)[b] <= Owed(m)[c]
    <3>1. Payout(stake[b], w, p) <= Payout(stake[c], w, p)
      BY <2>1, <2>2, <2>4, PayoutMonotone
    <3> QED BY <2>1, <3>1
  <2> QED BY <2>3, <2>4 DEF Fair, stake
<1> QED BY <1>2, <1>3, <1>4 DEF Entitled

LEMMA EntitledNext == TypeOK' /\ BooksBalance' => (\A m \in Markets : Entitled(m))'
BY EntitledNow, PTL

\* The market watched, its books and its shape.
LEMMA Watched ==
  ASSUME TypeOK, BooksBalance
  PROVE  /\ TheMarket \in Markets /\ Books(TheMarket)
         /\ market[TheMarket] \in MarketType
         /\ position[TheMarket] \in [Bettors -> PositionType]
BY TheMarketAssumption DEF TypeOK, BooksBalance

-----------------------------------------------------------------------------
(* Each instruction about the market is a step of the promise.             *)

LEMMA RefineInit == Init => Pool!Init
<1> SUFFICES ASSUME Init PROVE Pool!Init
  OBVIOUS
<1> DEFINE m == TheMarket
<1>1. /\ market[m].status = "Absent" /\ market[m].yes_pool = 0 /\ market[m].no_pool = 0
      /\ market[m].total_claimed = 0
      /\ position[m] = [b \in Bettors |-> NoPosition]
  BY TheMarketAssumption DEF Init, NewMarket
<1>2. StakesOn(m, SIDE_YES) = [b \in Bettors |-> 0] /\ StakesOn(m, SIDE_NO) = [b \in Bettors |-> 0]
  BY <1>1 DEF StakesOn, OnSide, NoPosition, SIDE_YES, SIDE_NO
<1>3. Claimed(m) = {}
  BY <1>1 DEF Claimed, NoPosition
<1>4. DueFrom(m) = [b \in Bettors |-> 0]
  BY <1>1 DEF DueFrom, Final
<1>5. Left(m) = 0
  BY <1>1 DEF Left, Pot
<1> QED BY <1>1, <1>2, <1>3, <1>4, <1>5 DEF Pool!Init, Pool!Nothing

\* A step that leaves the market and its positions alone is no step of it.
LEMMA RefineFrame ==
  ASSUME market'[TheMarket] = market[TheMarket], position'[TheMarket] = position[TheMarket]
  PROVE  UNCHANGED Pool!poolVars
BY DEF Pool!poolVars, StakesOn, DueFrom, Claimed, Left, Owed, Pot

LEMMA RefineOpen ==
  ASSUME TypeOK, BooksBalance, NEW creator \in Creators, NEW nonce \in Nonces,
         NEW params \in Params, CreateMarket(creator, nonce, params),
         TheMarket = <<creator, nonce>>
  PROVE  Pool!Open
<1> DEFINE m == TheMarket
<1>1. /\ m \in Markets /\ Books(m) /\ market[m].status = "Absent"
      /\ market'[m] = NewMarket("Open", params) /\ position' = position
  BY Watched DEF CreateMarket, TypeOK
<1>2. market[m].yes_pool = 0 /\ market[m].no_pool = 0 /\ market[m].total_claimed = 0
  BY <1>1, NothingClaimedYet DEF Final, Books, AbsentIsEmpty
<1>3. /\ market'[m].status = "Open" /\ market'[m].yes_pool = 0 /\ market'[m].no_pool = 0
      /\ market'[m].total_claimed = 0
  BY <1>1 DEF NewMarket
<1>4. Left(m) = 0 /\ Left(m)' = 0
  BY <1>1, <1>2, <1>3 DEF Left, Pot
<1>5. DueFrom(m)' = DueFrom(m)
  BY <1>1, <1>3 DEF DueFrom, Final
<1>6. /\ StakesOn(m, SIDE_YES)' = StakesOn(m, SIDE_YES)
      /\ StakesOn(m, SIDE_NO)' = StakesOn(m, SIDE_NO)
      /\ Claimed(m)' = Claimed(m)
  BY <1>1 DEF StakesOn, Claimed
<1> QED BY <1>1, <1>3, <1>4, <1>5, <1>6 DEF Pool!Open

LEMMA RefineBack ==
  ASSUME TypeOK, BooksBalance, NEW bettor \in Bettors, NEW side \in 0..2, NEW amount \in Nat,
         PlacePosition(bettor, TheMarket, side, amount)
  PROVE  Pool!Back(bettor, amount)
<1> DEFINE m == TheMarket
<1>1. PICK yes \in Nat, no \in Nat :
        yes + no = amount /\ (yes = 0 \/ no = 0) /\ StakeAdded(bettor, m, yes, no)
  BY PlacePositionEffect, Watched
<1>2. market[m].status = "Open" /\ amount > 0
  BY FeeAssumption DEF PlacePosition
<1>3. /\ market[m] \in MarketType
      /\ \A b \in Bettors : position[m][b].yes_amount \in Nat /\ position[m][b].no_amount \in Nat
  BY Watched, FieldTypes
<1>4. /\ market'[m].status = market[m].status
      /\ market'[m].yes_pool = market[m].yes_pool + yes
      /\ market'[m].no_pool = market[m].no_pool + no
      /\ market'[m].total_claimed = market[m].total_claimed
  BY <1>1, <1>3 DEF StakeAdded, MarketType
<1>5. Left(m)' = Left(m) + amount
  <2>1. /\ market[m].yes_pool \in Nat /\ market[m].no_pool \in Nat
        /\ market[m].total_claimed \in Nat
    BY <1>3 DEF MarketType
  <2> QED BY <1>1, <1>2, <1>4, <2>1 DEF Left, Pot
<1>6. DueFrom(m)' = DueFrom(m)
  BY <1>2, <1>4 DEF DueFrom, Final
<1>7. Claimed(m)' = Claimed(m)
  BY <1>1 DEF StakeAdded, Claimed
<1>8. ASSUME NEW b \in Bettors
      PROVE  /\ position'[m][b].yes_amount = position[m][b].yes_amount + (IF b = bettor THEN yes ELSE 0)
             /\ position'[m][b].no_amount = position[m][b].no_amount + (IF b = bettor THEN no ELSE 0)
  BY <1>1, <1>3 DEF StakeAdded
<1>9. /\ StakesOn(m, SIDE_YES) = [b \in Bettors |-> position[m][b].yes_amount]
      /\ StakesOn(m, SIDE_NO) = [b \in Bettors |-> position[m][b].no_amount]
      /\ StakesOn(m, SIDE_YES)' = [b \in Bettors |-> position'[m][b].yes_amount]
      /\ StakesOn(m, SIDE_NO)' = [b \in Bettors |-> position'[m][b].no_amount]
  BY DEF StakesOn, OnSide, SIDE_YES, SIDE_NO
<1>10. /\ yes = 0 => StakesOn(m, SIDE_YES)' = StakesOn(m, SIDE_YES)
       /\ no = 0 => StakesOn(m, SIDE_NO)' = StakesOn(m, SIDE_NO)
  BY <1>3, <1>8, <1>9
<1>11. StakesOn(m, SIDE_YES)' = [StakesOn(m, SIDE_YES) EXCEPT ![bettor] = @ + yes]
  BY <1>3, <1>8, <1>9
<1>12. StakesOn(m, SIDE_NO)' = [StakesOn(m, SIDE_NO) EXCEPT ![bettor] = @ + no]
  BY <1>3, <1>8, <1>9
<1>13. (yes = 0 => no = amount) /\ (no = 0 => yes = amount)
  BY <1>1
<1> QED BY <1>1, <1>2, <1>4, <1>5, <1>6, <1>7, <1>10, <1>11, <1>12, <1>13 DEF Pool!Back

\* Resolution: the house keeps at most the losers' stakes, the winners share
\* what is left, and the shares together fit it.
LEMMA RefineWin ==
  ASSUME TypeOK, BooksBalance, TypeOK', BooksBalance', NEW side \in {SIDE_YES, SIDE_NO},
         market[TheMarket].status = "Open",
         WinnersOf(market[TheMarket], side) # 0, Resolve(TheMarket, side),
         UNCHANGED position
  PROVE  Pool!Win(StakesOn(TheMarket, side), StakesOn(TheMarket, Opposite(side)))
<1> DEFINE m == TheMarket
           winning == StakesOn(m, side)
           losing  == StakesOn(m, Opposite(side))
<1>1. m \in Markets /\ Books(m) /\ Books(m)' /\ market[m] \in MarketType
  BY Watched, TheMarketAssumption DEF BooksBalance
<1>2. /\ PoolOf(m, side) \in Nat /\ FeeOf(m, side) \in Nat
      /\ WinnersOf(market[m], side) <= PoolOf(m, side)
      /\ PoolOf(m, side) + FeeOf(m, side) = market[m].yes_pool + market[m].no_pool
      /\ SplitOk(WinnersOf(market[m], side), LosersOf(market[m], side), market[m].params.fee_bps)
  BY <1>1, SplitOfBooks
<1>3. market'[m] = [market[m] EXCEPT
        !.status = "Resolved", !.winning_side = side, !.settle_ts = now,
        !.fee_collected = FeeOf(m, side), !.total_payout_pool = PoolOf(m, side)]
  BY <1>1, <1>2, ResolveEffect
<1>4. /\ market'[m].status = "Resolved" /\ market'[m].winning_side = side
      /\ market'[m].total_payout_pool = PoolOf(m, side)
      /\ market'[m].total_claimed = market[m].total_claimed
  BY <1>1, <1>3 DEF MarketType
<1>5. market[m].total_claimed = 0
  BY <1>1, NothingClaimedYet DEF Final
<1>6. /\ market[m].yes_pool \in Nat /\ market[m].no_pool \in Nat
      /\ WinnersOf(market[m], side) = SumOver(winning, Bettors)
      /\ LosersOf(market[m], side) = SumOver(losing, Bettors)
      /\ WinnersOf(market[m], side) + LosersOf(market[m], side)
           = market[m].yes_pool + market[m].no_pool
      /\ WinnersOf(market[m], side) \in Nat
  BY <1>1 DEF Books, PoolsAreStakes, WinnersOf, LosersOf, OnSide, Opposite, SIDE_YES, SIDE_NO,
     MarketType
<1>7. /\ Left(m) = market[m].yes_pool + market[m].no_pool
      /\ Left(m)' = PoolOf(m, side)
  BY <1>2, <1>4, <1>5, <1>6 DEF Left, Pot
<1>8. /\ Left(m)' <= Left(m)
      /\ Left(m) - Left(m)' <= Pool!SumOver(losing, Bettors)
  <2>1. Pool!SumOver(losing, Bettors) = LosersOf(market[m], side)
    BY <1>6, PoolSums
  <2>2. LosersOf(market[m], side) \in Int
    BY <1>6 DEF LosersOf, OnSide
  <2> HIDE DEF losing
  <2> QED BY <1>2, <1>6, <1>7, <2>1, <2>2
<1>9. \E b \in Bettors : winning[b] > 0
  <2>1. \A b \in Bettors : winning[b] \in Nat
    BY <1>1, StakeTypes
  <2> HIDE DEF winning
  <2>2. SUFFICES ASSUME \A b \in Bettors : winning[b] = 0 PROVE FALSE
    BY <2>1
  <2>3. SumOver(winning, Bettors) = 0
    BY <2>2, SumZero
  <2> QED BY <1>6, <2>3
<1>10. /\ StakesOn(m, SIDE_YES)' = StakesOn(m, SIDE_YES)
       /\ StakesOn(m, SIDE_NO)' = StakesOn(m, SIDE_NO)
       /\ Claimed(m)' = Claimed(m)
  BY DEF StakesOn, Claimed
<1>11. DueFrom(m)' = Owed(m)'
  BY <1>4 DEF DueFrom, Final
<1>12. /\ Owed(m)' \in [Bettors -> Nat]
       /\ SumOver(Owed(m)', Bettors) <= Pot(m)'
       /\ \A b \in Bettors :
            IF winning[b] = 0 THEN Owed(m)'[b] = 0 ELSE winning[b] <= Owed(m)'[b]
       /\ \A b, c \in Bettors : winning[b] <= winning[c] => Owed(m)'[b] <= Owed(m)'[c]
  <2>1. Entitled(m)'
    BY <1>1, EntitledNext
  <2>2. Fair(m)'
    BY <1>4, <2>1 DEF Entitled
  <2>3. StakesOn(m, market[m].winning_side)' = winning
    BY <1>4 DEF StakesOn
  <2> QED BY <2>1, <2>2, <2>3 DEF Entitled, Fair
<1>13. Pool!SumOver(DueFrom(m)', Bettors) <= Left(m)'
  BY <1>2, <1>4, <1>5, <1>7, <1>11, <1>12, PoolSums DEF Left, Pot
<1> HIDE DEF winning, losing
<1> QED BY <1>4, <1>8, <1>9, <1>10, <1>11, <1>12, <1>13 DEF Pool!Win, winning, losing

LEMMA RefineRefund ==
  ASSUME TypeOK, BooksBalance, market[TheMarket].status = "Open", MakeVoid(TheMarket),
         UNCHANGED position
  PROVE  Pool!Refund
<1> DEFINE m == TheMarket
<1>1. m \in Markets /\ market[m] \in MarketType
  BY Watched
<1>2. market'[m] =
        [market[m] EXCEPT !.status = "Voided", !.winning_side = SIDE_NONE, !.settle_ts = now]
  BY <1>1, VoidEffect
<1>3. /\ market'[m].status = "Voided" /\ market'[m].yes_pool = market[m].yes_pool
      /\ market'[m].no_pool = market[m].no_pool
      /\ market'[m].total_claimed = market[m].total_claimed
  BY <1>1, <1>2 DEF MarketType
<1>4. Left(m)' = Left(m)
  BY <1>3 DEF Left, Pot
<1>5. DueFrom(m)' = [b \in Bettors |-> StakesOn(m, SIDE_YES)[b] + StakesOn(m, SIDE_NO)[b]]
  BY <1>3 DEF DueFrom, Final, Owed, ClaimAmount, StakesOn, OnSide, SIDE_YES, SIDE_NO
<1>6. /\ StakesOn(m, SIDE_YES)' = StakesOn(m, SIDE_YES)
      /\ StakesOn(m, SIDE_NO)' = StakesOn(m, SIDE_NO)
      /\ Claimed(m)' = Claimed(m)
  BY DEF StakesOn, Claimed
<1> QED BY <1>3, <1>4, <1>5, <1>6 DEF Pool!Refund

LEMMA RefinePay ==
  ASSUME TypeOK, BooksBalance, NEW claimant \in Bettors, NEW pb \in Bettors,
         NEW dest \in Accounts, Claim(claimant, TheMarket, TheMarket, pb, TheMarket, dest)
  PROVE  Pool!Pay(pb)
<1> DEFINE m == TheMarket
           payout == ClaimAmount(market[m], position[m][pb])
<1>1. m \in Markets /\ Books(m) /\ market[m] \in MarketType
  BY Watched
<1>2. /\ market[m].status \in Final /\ pb \notin Claimed(m) /\ payout > 0
  BY DEF Claim, ClaimAllowed, MayClaim, Claimed
<1>3. /\ market'[m] = [market[m] EXCEPT !.total_claimed = @ + payout]
      /\ position'[m][pb] = [position[m][pb] EXCEPT !.claimed = TRUE]
      /\ \A c \in Bettors \ {pb} : position'[m][c] = position[m][c]
  BY <1>1, ClaimEffect
<1>4. payout = Owed(m)[pb] /\ payout \in Nat
  BY <1>1, StakeTypes DEF Owed
<1> HIDE DEF payout
<1>5. /\ market'[m].status = market[m].status
      /\ market'[m].winning_side = market[m].winning_side
      /\ market'[m].yes_pool = market[m].yes_pool /\ market'[m].no_pool = market[m].no_pool
      /\ market'[m].total_payout_pool = market[m].total_payout_pool
      /\ market'[m].total_claimed = market[m].total_claimed + payout
  BY <1>1, <1>3 DEF MarketType
<1>6. ASSUME NEW b \in Bettors
      PROVE  /\ position'[m][b].yes_amount = position[m][b].yes_amount
             /\ position'[m][b].no_amount = position[m][b].no_amount
             /\ position'[m][b].claimed = (position[m][b].claimed \/ b = pb)
  <2>1. position[m][b] \in PositionType
    BY Watched
  <2>2. CASE b = pb
    BY <1>3, <2>1, <2>2 DEF PositionType
  <2>3. CASE b # pb
    BY <1>3, <2>1, <2>3 DEF PositionType
  <2> QED BY <2>2, <2>3
<1>7. /\ StakesOn(m, SIDE_YES)' = StakesOn(m, SIDE_YES)
      /\ StakesOn(m, SIDE_NO)' = StakesOn(m, SIDE_NO)
  BY <1>6 DEF StakesOn
<1>8. Owed(m)' = Owed(m)
  BY <1>5, <1>6 DEF Owed, ClaimAmount
<1>9. DueFrom(m) = Owed(m) /\ DueFrom(m)' = Owed(m)
  BY <1>2, <1>5, <1>8 DEF DueFrom
<1>10. Claimed(m)' = Claimed(m) \cup {pb}
  BY <1>6 DEF Claimed
<1>11. market[m].total_claimed \in Nat /\ Pot(m) \in Nat /\ Pot(m)' = Pot(m)
  BY <1>1, <1>5 DEF Pot, MarketType
<1>12. Left(m)' = Left(m) - payout
  BY <1>4, <1>5, <1>11 DEF Left
<1>13. payout <= Left(m)
  <2>1. pb \in Unclaimed(m)
    BY <1>2 DEF Claimed, Unclaimed
  <2>2. /\ SumOver(Owed(m), Bettors) = market[m].total_claimed + SumOver(Owed(m), Unclaimed(m))
        /\ SumOver(Owed(m), Unclaimed(m)) \in Nat
        /\ payout <= SumOver(Owed(m), Unclaimed(m))
    BY <1>1, <1>4, <2>1, OwedSplits
  <2>3. SumOver(Owed(m), Bettors) <= Pot(m)
    BY <1>1, OwedWithinPot
  <2> QED BY <1>4, <1>11, <2>2, <2>3 DEF Left
<1> QED BY <1>2, <1>4, <1>5, <1>7, <1>9, <1>10, <1>12, <1>13 DEF Pool!Pay, Final

-----------------------------------------------------------------------------
LEMMA RefineNext ==
  TypeOK /\ BooksBalance /\ TypeOK' /\ BooksBalance' /\ [Next]_vars
    => [Pool!Next]_(Pool!poolVars)
<1> SUFFICES ASSUME TypeOK, BooksBalance, TypeOK', BooksBalance', [Next]_vars
             PROVE  Pool!Next \/ UNCHANGED Pool!poolVars
  OBVIOUS
<1> DEFINE m == TheMarket
<1>0. m \in Markets
  BY TheMarketAssumption
<1>1. ASSUME NEW creator \in Creators, NEW nonce \in Nonces, NEW params \in Params,
             CreateMarket(creator, nonce, params)
      PROVE  Pool!Next \/ UNCHANGED Pool!poolVars
  <2>1. CASE m = <<creator, nonce>>
    BY <1>1, <2>1, RefineOpen DEF Pool!Next
  <2>2. CASE m # <<creator, nonce>>
    BY <1>0, <1>1, <2>2, RefineFrame DEF CreateMarket, TypeOK
  <2> QED BY <2>1, <2>2
<1>2. ASSUME NEW bettor \in Bettors, NEW n \in Markets, NEW side \in 0..2,
             NEW amount \in Amounts, PlacePosition(bettor, n, side, amount)
      PROVE  Pool!Next \/ UNCHANGED Pool!poolVars
  <2>1. amount \in Nat
    BY InputAssumption
  <2>2. CASE m = n
    BY <1>2, <2>1, <2>2, RefineBack DEF Pool!Next
  <2>3. CASE m # n
    <3>1. PICK yes \in Nat, no \in Nat : StakeAdded(bettor, n, yes, no)
      BY <1>2, <2>1, PlacePositionEffect
    <3> QED BY <1>0, <2>3, <3>1, RefineFrame DEF StakeAdded
  <2> QED BY <2>2, <2>3
<1>3. ASSUME NEW n \in Markets, MakeVoid(n), market[n].status = "Open", UNCHANGED position
      PROVE  Pool!Next \/ UNCHANGED Pool!poolVars
  <2>1. CASE m = n
    BY <1>3, <2>1, RefineRefund DEF Pool!Next
  <2>2. CASE m # n
    BY <1>0, <1>3, <2>2, VoidEffect, RefineFrame
  <2> QED BY <2>1, <2>2
<1>4. ASSUME NEW n \in Markets, SettleAny(n)
      PROVE  Pool!Next \/ UNCHANGED Pool!poolVars
  <2>1. market[n].status = "Open" /\ UNCHANGED position
    BY <1>4, SettleCases
  <2>2. CASE VoidForLackOfWinners(n)
    BY <1>3, <2>1, <2>2 DEF VoidForLackOfWinners
  <2>3. ASSUME NEW side \in {SIDE_YES, SIDE_NO}, Resolve(n, side),
               WinnersOf(market[n], side) # 0,
               SplitOk(WinnersOf(market[n], side), LosersOf(market[n], side),
                       market[n].params.fee_bps)
        PROVE  Pool!Next \/ UNCHANGED Pool!poolVars
    <3>1. CASE m = n
      <4>1. Pool!Win(StakesOn(m, side), StakesOn(m, Opposite(side)))
        BY <2>1, <2>3, <3>1, RefineWin
      <4> QED BY <4>1 DEF Pool!Next, Opposite, SIDE_YES, SIDE_NO
    <3>2. CASE m # n
      BY <1>0, <2>1, <2>3, <3>2, ResolveEffect, RefineFrame
    <3> QED BY <3>1, <3>2
  <2> QED BY <1>4, <2>2, <2>3, SettleCases
<1>5. ASSUME NEW claimant \in Bettors, NEW n \in Markets, NEW pb \in Bettors,
             NEW dest \in Accounts, Claim(claimant, n, n, pb, n, dest)
      PROVE  Pool!Next \/ UNCHANGED Pool!poolVars
  <2>1. CASE m = n
    BY <1>5, <2>1, RefinePay DEF Pool!Next
  <2>2. CASE m # n
    <3>1. market'[m] = market[m] /\ position'[m] = position[m]
      BY <1>0, <1>5, <2>2 DEF Claim, TypeOK
    <3> QED BY <3>1, RefineFrame
  <2> QED BY <2>1, <2>2
<1>6. ASSUME UNCHANGED <<market, position>>
      PROVE  UNCHANGED Pool!poolVars
  BY <1>6, RefineFrame
<1> QED BY <1>1, <1>2, <1>3, <1>4, <1>5, <1>6, StepCases DEF VoidMarket

\* Every market of every instance keeps BettingPool's promise.
THEOREM MarketKeepsItsPromise == Spec => KeepsItsPromise
<1> QED BY RefineInit, RefineNext, TypeCorrect, BooksAlwaysBalance, PTL
        DEF Spec, KeepsItsPromise, Pool!Spec
-----------------------------------------------------------------------------
(* The market as the keeper has it.                                        *)

\* The window of the market has closed on the ledger.
HasClosed == market[TheMarket].status # "Absent" /\ now >= market[TheMarket].params.close_ts

LEMMA SeenAlike ==
  ASSUME market'[TheMarket].status \in Final <=> market[TheMarket].status \in Final,
         HasClosed' <=> HasClosed
  PROVE  UNCHANGED Seen!vars
BY DEF Seen!vars, Seen!ledger, Seen!job, HasClosed

LEMMA SeenFinished ==
  ASSUME market[TheMarket].status \notin Final, market'[TheMarket].status \in Final,
         HasClosed' <=> HasClosed
  PROVE  Seen!Next
<1>1. Seen!OthersFinish(TheMarket)
  BY DEF Seen!OthersFinish, Seen!job, HasClosed
<1> QED BY <1>1 DEF Seen!Next

LEMMA SeenClosed ==
  ASSUME UNCHANGED market, ~HasClosed, HasClosed'
  PROVE  Seen!Next
<1>1. Seen!LedgerCloses(TheMarket)
  BY DEF Seen!LedgerCloses, Seen!job, HasClosed
<1> QED BY <1>1 DEF Seen!Next

LEMMA SeenInit == Init => Seen!Init
<1> SUFFICES ASSUME Init PROVE Seen!Init
  OBVIOUS
<1>1. market[TheMarket].status = "Absent"
  BY TheMarketAssumption DEF Init, NewMarket
<1>2. "Absent" \notin Final
  BY DEF Final
<1> QED BY <1>1, <1>2 DEF Seen!Init, Seen!Jobs

LEMMA SeenNext == TypeOK /\ TypeOK' /\ [Next]_vars => [Seen!Next]_(Seen!vars)
<1> SUFFICES ASSUME TypeOK, TypeOK', [Next]_vars
             PROVE  Seen!Next \/ UNCHANGED Seen!vars
  OBVIOUS
<1> DEFINE m == TheMarket
<1>0. /\ m \in Markets /\ now \in Nat /\ now' \in Nat
      /\ market[m] \in MarketType /\ market'[m] \in MarketType
      /\ market[m].params.close_ts \in Int
  BY TheMarketAssumption, InputAssumption, ParamsFields DEF TypeOK, MarketType
<1>1. ASSUME NEW creator \in Creators, NEW nonce \in Nonces, NEW params \in Params,
             CreateMarket(creator, nonce, params)
      PROVE  UNCHANGED Seen!vars
  <2>1. CASE m = <<creator, nonce>>
    <3>1. market[m].status = "Absent" /\ market'[m] = NewMarket("Open", params) /\ now' = now
      BY <1>0, <1>1, <2>1 DEF CreateMarket, TypeOK
    <3>2. params.close_ts > now /\ params.close_ts \in Int
      BY <1>1, ParamsFields DEF CreateMarket
    <3>3. market'[m].status = "Open" /\ market'[m].params = params
      BY <3>1 DEF NewMarket
    <3>4. ~HasClosed /\ ~HasClosed'
      BY <1>0, <3>1, <3>2, <3>3 DEF HasClosed
    <3> QED BY <3>1, <3>3, <3>4, SeenAlike DEF Final
  <2>2. CASE m # <<creator, nonce>>
    <3>1. market'[m] = market[m] /\ now' = now
      BY <1>0, <1>1, <2>2 DEF CreateMarket, TypeOK
    <3> QED BY <3>1, SeenAlike DEF HasClosed
  <2> QED BY <2>1, <2>2
<1>2. ASSUME NEW bettor \in Bettors, NEW n \in Markets, NEW side \in 0..2,
             NEW amount \in Amounts, PlacePosition(bettor, n, side, amount)
      PROVE  UNCHANGED Seen!vars
  <2>1. amount \in Nat /\ now' = now
    BY <1>2, InputAssumption DEF PlacePosition
  <2>2. PICK yes \in Nat, no \in Nat : StakeAdded(bettor, n, yes, no)
    BY <1>2, <2>1, PlacePositionEffect
  <2>3. market'[m].status = market[m].status /\ market'[m].params = market[m].params
    BY <1>0, <2>2 DEF StakeAdded, MarketType
  <2> QED BY <2>1, <2>3, SeenAlike DEF HasClosed
<1>3. ASSUME NEW n \in Markets, market[n].status = "Open", UNCHANGED now,
             market'[n].status \in Final, market'[n].params = market[n].params,
             \A k \in Markets \ {n} : market'[k] = market[k]
      PROVE  Seen!Next \/ UNCHANGED Seen!vars
  <2>1. CASE m = n
    BY <1>3, <2>1, SeenFinished DEF HasClosed, Final
  <2>2. CASE m # n
    BY <1>0, <1>3, <2>2, SeenAlike DEF HasClosed
  <2> QED BY <2>1, <2>2
<1>4. ASSUME NEW n \in Markets, MakeVoid(n), market[n].status = "Open", UNCHANGED now
      PROVE  Seen!Next \/ UNCHANGED Seen!vars
  <2>1. /\ market'[n] = [market[n] EXCEPT !.status = "Voided", !.winning_side = SIDE_NONE,
                                          !.settle_ts = now]
        /\ \A k \in Markets \ {n} : market'[k] = market[k]
    BY <1>4, VoidEffect
  <2>2. market[n] \in MarketType
    BY DEF TypeOK
  <2>3. market'[n].status \in Final /\ market'[n].params = market[n].params
    BY <2>1, <2>2 DEF MarketType, Final
  <2> QED BY <1>3, <1>4, <2>1, <2>3
<1>5. ASSUME NEW n \in Markets, SettleAny(n)
      PROVE  Seen!Next \/ UNCHANGED Seen!vars
  <2>1. market[n].status = "Open" /\ UNCHANGED now
    BY <1>5, SettleCases
  <2>2. CASE VoidForLackOfWinners(n)
    BY <1>4, <2>1, <2>2 DEF VoidForLackOfWinners
  <2>3. ASSUME NEW side \in {SIDE_YES, SIDE_NO}, Resolve(n, side),
               SplitOk(WinnersOf(market[n], side), LosersOf(market[n], side),
                       market[n].params.fee_bps)
        PROVE  Seen!Next \/ UNCHANGED Seen!vars
    <3>1. /\ market'[n].status = "Resolved" /\ market'[n].params = market[n].params
          /\ \A k \in Markets \ {n} : market'[k] = market[k]
      BY <2>3 DEF Resolve, TypeOK, MarketType
    <3> QED BY <1>3, <2>1, <3>1 DEF Final
  <2> QED BY <1>5, <2>2, <2>3, SettleCases
<1>7. ASSUME UNCHANGED market, now' \in {now, now + 1}
      PROVE  Seen!Next \/ UNCHANGED Seen!vars
  <2>1. HasClosed => HasClosed'
    BY <1>0, <1>7 DEF HasClosed
  <2>2. CASE HasClosed' <=> HasClosed
    BY <1>7, <2>2, SeenAlike
  <2>3. CASE ~HasClosed /\ HasClosed'
    BY <1>7, <2>3, SeenClosed
  <2> QED BY <2>1, <2>2, <2>3
<1>8. ASSUME NEW n \in Markets, NEW authority \in Signers, VoidMarket(authority, n)
      PROVE  Seen!Next \/ UNCHANGED Seen!vars
  BY <1>4, <1>8 DEF VoidMarket
<1>9. CASE Tick
  BY <1>7, <1>9 DEF Tick
<1>10. ASSUME NEW stat \in Attestable, Post(stat) PROVE Seen!Next \/ UNCHANGED Seen!vars
  BY <1>7, <1>10 DEF Post
<1>11. ASSUME NEW bettor \in Bettors, NEW dest \in Payees, NEW amount \in Amounts,
              WalletTransfer(bettor, dest, amount)
       PROVE  Seen!Next \/ UNCHANGED Seen!vars
  BY <1>7, <1>11 DEF WalletTransfer
<1>12. CASE UNCHANGED vars
  BY <1>7, <1>12 DEF vars
<1>13. ASSUME NEW claimant \in Bettors, ClaimAny(claimant) PROVE UNCHANGED Seen!vars
  <2>1. PICK n \in Markets, pm \in Markets, pb \in Bettors, escrow \in Markets,
             dest \in {claimant} \cup Payees : Claim(claimant, n, pm, pb, escrow, dest)
    BY <1>13 DEF ClaimAny
  <2>2. now' = now
    BY <2>1 DEF Claim
  <2>3. market'[m].status = market[m].status /\ market'[m].params = market[m].params
    BY <1>0, <2>1 DEF Claim, TypeOK, MarketType
  <2> QED BY <2>2, <2>3, SeenAlike DEF HasClosed
<1> QED BY <1>1, <1>2, <1>5, <1>8, <1>9, <1>10, <1>11, <1>12, <1>13 DEF Next

\* The ledger that the keeper's jobs are proved against is the program's own, but
\* for forks: in every instance each market takes Keeper's steps and no others.
THEOREM LedgerIsAsKeeperSeesIt == Spec => KeeperSeesLedger
<1> QED BY SeenInit, SeenNext, TypeCorrect, PTL
        DEF Spec, KeeperSeesLedger, Seen!Spec
=============================================================================
