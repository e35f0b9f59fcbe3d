-------------------------- MODULE FinalWhistleProofs --------------------------
(***************************************************************************)
(* What holds of the program for every number of markets, bettors, stakes  *)
(* and fee rates, and every mint whose supply is a u64.                    *)
(***************************************************************************)
EXTENDS FinalWhistle, TokenSumsProofs, ParimutuelProofs

-----------------------------------------------------------------------------
(* Token transfers                                                         *)

\* A transfer moves exactly the amount, between accounts that differ, and
\* changes no other account.
LEMMA TransferMoves ==
  ASSUME balance \in [Accounts -> Nat],
         NEW from \in Accounts, NEW to \in Accounts, NEW amount \in Nat,
         CanPay(from, amount), Transfer(from, to, amount)
  PROVE  /\ balance' \in [Accounts -> Nat]
         /\ \A a \in Accounts \ {from, to} : balance'[a] = balance[a]
         /\ from # to => /\ balance'[from] = balance[from] - amount
                         /\ balance'[to] = balance[to] + amount
         /\ from = to => balance' = balance
         /\ balance[from] <= balance'[from] + amount
         /\ \A a \in Accounts \ {from} : balance[a] <= balance'[a]
<1>1. balance[from] \in Nat /\ balance[to] \in Nat /\ amount <= balance[from]
  BY DEF CanPay
<1>2. /\ balance' = [a \in Accounts |-> balance'[a]]
      /\ \A a \in Accounts : balance[a] \in Nat
      /\ \A a \in Accounts :
           balance'[a] = balance[a] - (IF a = from THEN amount ELSE 0)
                                    + (IF a = to THEN amount ELSE 0)
  BY DEF Transfer
<1>3. CASE from = to
  <2>1. \A a \in Accounts : balance'[a] = balance[a]
    BY <1>2, <1>3
  <2>2. balance' = balance
    <3>1. balance = [a \in Accounts |-> balance[a]]
      OBVIOUS
    <3> QED BY <1>2, <2>1, <3>1
  <2> QED BY <1>1, <1>3, <2>2
<1>4. CASE from # to
  <2>1. /\ balance'[from] = balance[from] - amount
        /\ balance'[to] = balance[to] + amount
        /\ \A a \in Accounts \ {from, to} : balance'[a] = balance[a]
    BY <1>1, <1>2, <1>4
  <2>2. \A a \in Accounts : balance'[a] \in Nat
    BY <1>1, <2>1
  <2>3. \A a \in Accounts \ {from} : balance[a] <= balance'[a]
    <3> TAKE a \in Accounts \ {from}
    <3>1. CASE a = to
      BY <1>1, <2>1, <3>1
    <3>2. CASE a # to
      <4>1. balance'[a] = balance[a] /\ balance[a] \in Nat
        BY <2>1, <3>2
      <4> QED BY <4>1
    <3> QED BY <3>1, <3>2
  <2>4. balance' \in [Accounts -> Nat]
    BY <1>2, <2>2
  <2> QED BY <1>1, <1>4, <2>1, <2>3, <2>4
<1> QED BY <1>3, <1>4

LEMMA AccountsFinite == IsFiniteSet(Accounts) /\ IsFiniteSet(Bettors)
<1>1. IsFiniteSet(Markets)
  BY KeysAssumption, FS_Product DEF Markets
<1>2. IsFiniteSet({Treasury})
  BY FS_Singleton
<1>3. IsFiniteSet(Bettors \cup Markets)
  BY <1>1, KeysAssumption, FS_Union
<1> QED BY <1>2, <1>3, KeysAssumption, FS_Union DEF Accounts

\* A transfer creates and destroys no token.
LEMMA TransferConserves ==
  ASSUME balance \in [Accounts -> Nat],
         NEW from \in Accounts, NEW to \in Accounts, NEW amount \in Nat,
         CanPay(from, amount), Transfer(from, to, amount)
  PROVE  SumOver(balance', Accounts) = SumOver(balance, Accounts)
<1>1. CASE from = to
  BY <1>1, TransferMoves
<1>2. CASE from # to
  <2> DEFINE mid == [balance EXCEPT ![from] = @ - amount]
  <2>1. balance[from] \in Nat /\ balance[to] \in Nat /\ amount <= balance[from]
    BY DEF CanPay
  <2>2. mid \in [Accounts -> Nat] /\ mid[from] = balance[from] - amount
        /\ \A a \in Accounts \ {from} : mid[a] = balance[a]
    BY <2>1
  <2>3. balance' \in [Accounts -> Nat] /\ balance'[to] = balance[to] + amount
        /\ balance'[from] = balance[from] - amount
        /\ \A a \in Accounts \ {from, to} : balance'[a] = balance[a]
    BY <1>2, TransferMoves
  <2>4. \A a \in Accounts \ {to} : balance'[a] = mid[a]
    BY <2>2, <2>3
  <2>5. mid[to] = balance[to]
    BY <1>2, <2>2
  <2> HIDE DEF mid
  <2>6. SumOver(mid, Accounts) = SumOver(balance, Accounts) - balance[from] + mid[from]
    <3>1. (\A a \in Accounts : balance[a] \in Nat) /\ (\A a \in Accounts : mid[a] \in Nat)
      BY <2>2
    <3> QED BY <2>2, <3>1, AccountsFinite, SumUpdate
  <2>7. SumOver(balance', Accounts) = SumOver(mid, Accounts) - mid[to] + balance'[to]
    <3>1. (\A a \in Accounts : balance'[a] \in Nat) /\ (\A a \in Accounts : mid[a] \in Nat)
      BY <2>2, <2>3
    <3> QED BY <2>4, <3>1, AccountsFinite, SumUpdate
  <2>8. SumOver(balance, Accounts) \in Nat
    BY AccountsFinite, SumType
  <2> QED BY <2>1, <2>2, <2>3, <2>5, <2>6, <2>7, <2>8
<1> QED BY <1>1, <1>2

-----------------------------------------------------------------------------
(* Type correctness                                                        *)

LEMMA ParamsFields ==
  ASSUME NEW p \in Params
  PROVE  p.fee_bps \in Nat /\ p.close_ts \in Int
BY InputAssumption DEF ParamsType

LEMMA NewMarketType ==
  ASSUME NEW status \in {"Absent", "Open"}, NEW p \in Params
  PROVE  NewMarket(status, p) \in MarketType
BY DEF NewMarket, MarketType, SIDE_NONE

LEMMA InitTypeOK == Init => TypeOK
<1> SUFFICES ASSUME Init PROVE TypeOK
  OBVIOUS
<1>1. (CHOOSE p \in Params : TRUE) \in Params
  BY InputAssumption
<1>2. market \in [Markets -> MarketType]
  BY <1>1, NewMarketType DEF Init
<1>3. position \in [Markets -> [Bettors -> PositionType]]
  BY DEF Init, NoPosition, PositionType
<1>4. balance \in [Accounts -> Nat]
  BY SupplyAssumption DEF Init
<1>5. posted \subseteq Attestable /\ now \in 0..MaxTime
  BY InputAssumption DEF Init
<1> QED BY <1>2, <1>3, <1>4, <1>5 DEF TypeOK

\* What the fields of well-typed accounts are.
LEMMA FieldTypes ==
  ASSUME TypeOK, NEW m \in Markets, NEW b \in Bettors
  PROVE  /\ market[m] \in MarketType
         /\ market[m].params \in Params
         /\ market[m].yes_pool \in Nat /\ market[m].no_pool \in Nat
         /\ market[m].total_payout_pool \in Nat /\ market[m].total_claimed \in Nat
         /\ market[m].winning_side \in {SIDE_NONE, SIDE_YES, SIDE_NO}
         /\ position[m] \in [Bettors -> PositionType]
         /\ position[m][b] \in PositionType
         /\ position[m][b].yes_amount \in Nat /\ position[m][b].no_amount \in Nat
         /\ position[m][b].claimed \in BOOLEAN
         /\ balance[m] \in Nat /\ m \in Accounts /\ b \in Accounts
         /\ now \in Nat
BY InputAssumption DEF TypeOK, MarketType, PositionType, Accounts

\* Replacing one market's record, or one position's, by one of its type.
LEMMA MarketUpdate ==
  ASSUME TypeOK, NEW m \in Markets, NEW r \in MarketType,
         market' = [market EXCEPT ![m] = r]
  PROVE  /\ market' \in [Markets -> MarketType]
         /\ market'[m] = r
         /\ \A n \in Markets \ {m} : market'[n] = market[n]
BY DEF TypeOK

LEMMA PositionUpdate ==
  ASSUME TypeOK, NEW m \in Markets, NEW b \in Bettors, NEW r \in PositionType,
         position' = [position EXCEPT ![m][b] = r]
  PROVE  /\ position' \in [Markets -> [Bettors -> PositionType]]
         /\ position'[m][b] = r
         /\ \A c \in Bettors \ {b} : position'[m][c] = position[m][c]
         /\ \A n \in Markets \ {m} : position'[n] = position[n]
<1>1. position \in [Markets -> [Bettors -> PositionType]]
  BY DEF TypeOK
<1>2. position' = [position EXCEPT ![m] = [position[m] EXCEPT ![b] = r]]
  OBVIOUS
<1>3. [position[m] EXCEPT ![b] = r] \in [Bettors -> PositionType]
  BY <1>1
<1> QED BY <1>1, <1>2, <1>3

\* A fee is taken from a pool, so it is a natural number.
LEMMA FeeType ==
  ASSUME NEW losing \in Nat, NEW bps \in Nat
  PROVE  Fee(losing, bps) \in Nat
<1>1. BPS_DENOMINATOR \in Nat \ {0} /\ U64Max + 1 \in Nat \ {0}
  BY ArithmeticAssumption
<1>2. losing * bps \in Nat
  OBVIOUS
<1>3. (losing * bps) \div BPS_DENOMINATOR \in Nat
  BY <1>1, <1>2, Division
<1> QED BY <1>1, <1>3, Division DEF Fee

LEMMA PoolTypes ==
  ASSUME TypeOK, NEW m \in Markets, NEW side \in {SIDE_YES, SIDE_NO}
  PROVE  /\ WinnersOf(market[m], side) \in Nat
         /\ LosersOf(market[m], side) \in Nat
         /\ market[m].params.fee_bps \in Nat
         /\ Fee(LosersOf(market[m], side), market[m].params.fee_bps) \in Nat
<1>1. /\ market[m].yes_pool \in Nat /\ market[m].no_pool \in Nat
      /\ market[m].params \in Params
  BY DEF TypeOK, MarketType
<1>2. market[m].params.fee_bps \in Nat
  BY <1>1, ParamsFields
<1>3. WinnersOf(market[m], side) \in Nat /\ LosersOf(market[m], side) \in Nat
  BY <1>1 DEF WinnersOf, LosersOf, OnSide
<1> QED BY <1>2, <1>3, FeeType

LEMMA CreateMarketType ==
  ASSUME TypeOK, NEW creator \in Creators, NEW nonce \in Nonces, NEW params \in Params,
         CreateMarket(creator, nonce, params)
  PROVE  TypeOK'
<1>1. <<creator, nonce>> \in Markets
  BY DEF Markets
<1>2. NewMarket("Open", params) \in MarketType
  BY NewMarketType
<1>3. market' \in [Markets -> MarketType]
  BY <1>1, <1>2, MarketUpdate DEF CreateMarket
<1> QED BY <1>3 DEF CreateMarket, TypeOK

\* The part of a stake that goes to each side.
YesPart(side, amount) == IF side = SIDE_YES THEN amount ELSE 0
NoPart(side, amount)  == IF side = SIDE_YES THEN 0 ELSE amount

\* What a stake does to the position and the market it is placed on.
StakeAdded(bettor, m, yes, no) ==
  /\ market' \in [Markets -> MarketType]
  /\ market'[m] = [market[m] EXCEPT !.yes_pool = @ + yes, !.no_pool = @ + no]
  /\ \A n \in Markets \ {m} : market'[n] = market[n]
  /\ position' \in [Markets -> [Bettors -> PositionType]]
  /\ position'[m][bettor].yes_amount = position[m][bettor].yes_amount + yes
  /\ position'[m][bettor].no_amount = position[m][bettor].no_amount + no
  /\ position'[m][bettor].claimed = position[m][bettor].claimed
  /\ position'[m][bettor].market = m
  /\ position'[m][bettor].owner = IF position[m][bettor].market = NoKey
                                     THEN bettor ELSE position[m][bettor].owner
  /\ \A c \in Bettors \ {bettor} : position'[m][c] = position[m][c]
  /\ \A n \in Markets \ {m} : position'[n] = position[n]

LEMMA PlacePositionEffect ==
  ASSUME TypeOK, NEW bettor \in Bettors, NEW m \in Markets, NEW side \in 0..2,
         NEW amount \in Nat,
         PlacePosition(bettor, m, side, amount)
  PROVE  \E yes \in Nat, no \in Nat :
           yes + no = amount /\ (yes = 0 \/ no = 0) /\ StakeAdded(bettor, m, yes, no)
<1> DEFINE yes == YesPart(side, amount)
           no  == NoPart(side, amount)
           held == position[m][bettor]
           opened == IF held.market = NoKey
                       THEN [held EXCEPT !.market = m, !.owner = bettor]
                       ELSE held
           after == [opened EXCEPT !.yes_amount = @ + yes, !.no_amount = @ + no]
           staked == [market[m] EXCEPT !.yes_pool = @ + yes, !.no_pool = @ + no]
<1>1. yes \in Nat /\ no \in Nat /\ yes + no = amount /\ (yes = 0 \/ no = 0)
  BY DEF YesPart, NoPart
<1>2. held \in PositionType /\ market[m] \in MarketType
  BY DEF TypeOK
<1>3. /\ market' = [market EXCEPT ![m] = staked]
      /\ position' = [position EXCEPT ![m][bettor] = after]
      /\ opened.market = m
  <2>1. market' = [market EXCEPT ![m] = staked]
    BY DEF PlacePosition, YesPart, NoPart
  <2>2. position' = [position EXCEPT ![m][bettor] = after]
    BY DEF PlacePosition, YesPart, NoPart
  <2>3. opened.market = m
    BY DEF PlacePosition, YesPart, NoPart
  <2> QED BY <2>1, <2>2, <2>3
<1> HIDE DEF yes, no
<1>4. staked \in MarketType
  <2>1. market[m].yes_pool + yes \in Nat /\ market[m].no_pool + no \in Nat
    BY <1>1, <1>2 DEF MarketType
  <2> QED BY <1>2, <2>1 DEF MarketType
<1>5. /\ opened \in PositionType
      /\ opened.yes_amount = held.yes_amount /\ opened.no_amount = held.no_amount
      /\ opened.claimed = held.claimed
      /\ opened.owner = IF held.market = NoKey THEN bettor ELSE held.owner
  BY <1>2 DEF PositionType
<1> HIDE DEF opened
<1>6. /\ after \in PositionType
      /\ after.yes_amount = held.yes_amount + yes
      /\ after.no_amount = held.no_amount + no
      /\ after.claimed = held.claimed
      /\ after.market = m
      /\ after.owner = IF held.market = NoKey THEN bettor ELSE held.owner
  <2>1. held.yes_amount + yes \in Nat /\ held.no_amount + no \in Nat
    BY <1>1, <1>2 DEF PositionType
  <2>2. after = [opened EXCEPT !.yes_amount = held.yes_amount + yes,
                               !.no_amount = held.no_amount + no]
    BY <1>5
  <2> HIDE DEF after
  <2> QED BY <1>3, <1>5, <2>1, <2>2 DEF PositionType
<1> HIDE DEF after, staked, held
<1>7. /\ market' \in [Markets -> MarketType]
      /\ market'[m] = staked
      /\ \A n \in Markets \ {m} : market'[n] = market[n]
  BY <1>3, <1>4, MarketUpdate
<1>8. /\ position' \in [Markets -> [Bettors -> PositionType]]
      /\ position'[m][bettor] = after
      /\ \A c \in Bettors \ {bettor} : position'[m][c] = position[m][c]
      /\ \A n \in Markets \ {m} : position'[n] = position[n]
  BY <1>3, <1>6, PositionUpdate
<1>9. StakeAdded(bettor, m, yes, no)
  BY <1>6, <1>7, <1>8 DEF StakeAdded, held, staked
<1> QED BY <1>1, <1>9

LEMMA PlacePositionType ==
  ASSUME TypeOK, NEW bettor \in Bettors, NEW m \in Markets, NEW side \in 0..2,
         NEW amount \in Nat,
         PlacePosition(bettor, m, side, amount)
  PROVE  TypeOK'
<1>1. market' \in [Markets -> MarketType] /\ position' \in [Markets -> [Bettors -> PositionType]]
  BY PlacePositionEffect DEF StakeAdded
<1>2. balance' \in [Accounts -> Nat]
  BY TransferMoves DEF PlacePosition, TypeOK, Accounts
<1> QED BY <1>1, <1>2 DEF PlacePosition, TypeOK

\* What a void, by the authority or for lack of winners, does to the market.
LEMMA VoidEffect ==
  ASSUME TypeOK, NEW m \in Markets,
         MakeVoid(m)
  PROVE  /\ market' \in [Markets -> MarketType]
         /\ \A n \in Markets \ {m} : market'[n] = market[n]
         /\ market'[m] =
              [market[m] EXCEPT !.status = "Voided", !.winning_side = SIDE_NONE, !.settle_ts = now]
<1> DEFINE r == [market[m] EXCEPT !.status = "Voided", !.winning_side = SIDE_NONE, !.settle_ts = now]
<1>1. r \in MarketType
  <2>1. market[m] \in MarketType /\ now \in Nat
    BY InputAssumption DEF TypeOK
  <2> QED BY <2>1 DEF MarketType, Final
<1>2. market' = [market EXCEPT ![m] = r]
  BY DEF TypeOK, MakeVoid
<1> HIDE DEF r
<1> QED BY <1>1, <1>2, MarketUpdate DEF r

\* The fee of a resolution, and what it leaves for the winners.
FeeOf(m, side)  == Fee(LosersOf(market[m], side), market[m].params.fee_bps)
PoolOf(m, side) == PayoutPool(WinnersOf(market[m], side), LosersOf(market[m], side),
                              market[m].params.fee_bps)

\* What a resolution does to the market and the escrow.
LEMMA ResolveEffect ==
  ASSUME TypeOK, NEW m \in Markets, NEW side \in {SIDE_YES, SIDE_NO}, Resolve(m, side),
         SplitOk(WinnersOf(market[m], side), LosersOf(market[m], side), market[m].params.fee_bps)
  PROVE
         /\ FeeOf(m, side) \in Nat /\ PoolOf(m, side) \in Nat
         /\ market' \in [Markets -> MarketType]
         /\ \A n \in Markets \ {m} : market'[n] = market[n]
         /\ market'[m] = [market[m] EXCEPT
              !.status = "Resolved", !.winning_side = side, !.settle_ts = now,
              !.fee_collected = FeeOf(m, side), !.total_payout_pool = PoolOf(m, side)]
         /\ balance' \in [Accounts -> Nat]
         /\ \A n \in Markets \ {m} : balance'[n] = balance[n]
         /\ balance'[m] = balance[m] - FeeOf(m, side)
         /\ balance'[Treasury] = balance[Treasury] + FeeOf(m, side)
         /\ SumOver(balance', Accounts) = SumOver(balance, Accounts)
<1> DEFINE fee  == FeeOf(m, side)
           pool == PoolOf(m, side)
           r == [market[m] EXCEPT
              !.status = "Resolved", !.winning_side = side, !.settle_ts = now,
              !.fee_collected = fee, !.total_payout_pool = pool]
<1>1. fee \in Nat /\ pool \in Nat
  BY PoolTypes DEF SplitOk, PayoutPool, FeeOf, PoolOf
<1>2. CanPay(m, fee) /\ Transfer(m, Treasury, fee) /\ market' = [market EXCEPT ![m] = r]
  BY DEF Resolve, TypeOK, FeeOf, PoolOf
<1> HIDE DEF fee, pool
<1>3. r \in MarketType
  <2>1. market[m] \in MarketType /\ now \in Nat
    BY InputAssumption DEF TypeOK
  <2> QED BY <1>1, <2>1 DEF MarketType, Final
<1> HIDE DEF r
<1>4. m \in Accounts /\ Treasury \in Accounts /\ m # Treasury
      /\ \A n \in Markets : n \in Accounts /\ n # Treasury
  BY KeysAssumption DEF Accounts
<1>5. balance \in [Accounts -> Nat]
  BY DEF TypeOK
<1>6. /\ balance' \in [Accounts -> Nat]
      /\ \A a \in Accounts \ {m, Treasury} : balance'[a] = balance[a]
      /\ balance'[m] = balance[m] - fee
      /\ balance'[Treasury] = balance[Treasury] + fee
  BY <1>1, <1>2, <1>4, <1>5, TransferMoves
<1>7. SumOver(balance', Accounts) = SumOver(balance, Accounts)
  BY <1>1, <1>2, <1>4, <1>5, TransferConserves
<1>8. /\ market' \in [Markets -> MarketType]
      /\ \A n \in Markets \ {m} : market'[n] = market[n]
      /\ market'[m] = r
  BY <1>2, <1>3, MarketUpdate
<1>9. \A n \in Markets \ {m} : balance'[n] = balance[n]
  BY <1>4, <1>6
<1> QED BY <1>1, <1>6, <1>7, <1>8, <1>9 DEF fee, pool, r

\* A settle step is a void or a resolution, of an open market.
LEMMA SettleCases ==
  ASSUME NEW m \in Markets, SettleAny(m)
  PROVE  /\ market[m].status = "Open"
         /\ now >= market[m].params.close_ts
         /\ UNCHANGED <<position, posted, now>>
         /\ \/ VoidForLackOfWinners(m)
            \/ \E side \in {SIDE_YES, SIDE_NO} :
                 /\ SplitOk(WinnersOf(market[m], side), LosersOf(market[m], side),
                            market[m].params.fee_bps)
                 /\ WinnersOf(market[m], side) # 0
                 /\ Resolve(m, side)
BY DEF SettleAny, Settle, SettleAllowed, SideProven

LEMMA SettleType ==
  ASSUME TypeOK, NEW m \in Markets, SettleAny(m)
  PROVE  TypeOK'
<1>1. UNCHANGED <<position, posted, now>>
  BY SettleCases
<1>2. CASE VoidForLackOfWinners(m)
  BY <1>1, <1>2, VoidEffect DEF VoidForLackOfWinners, TypeOK
<1>3. ASSUME NEW side \in {SIDE_YES, SIDE_NO}, Resolve(m, side),
             SplitOk(WinnersOf(market[m], side), LosersOf(market[m], side),
                     market[m].params.fee_bps)
      PROVE  TypeOK'
  <2>1. market' \in [Markets -> MarketType] /\ balance' \in [Accounts -> Nat]
    BY <1>3, ResolveEffect
  <2> QED BY <1>1, <2>1 DEF TypeOK
<1> QED BY <1>2, <1>3, SettleCases

\* What a claim does, whichever accounts it names.
LEMMA ClaimEffect ==
  ASSUME TypeOK, NEW claimant \in Bettors, NEW m \in Markets, NEW pm \in Markets,
         NEW pb \in Bettors, NEW escrow \in Markets, NEW dest \in Accounts,
         Claim(claimant, m, pm, pb, escrow, dest)
  PROVE
         /\ ClaimAmount(market[m], position[pm][pb]) \in Nat
         /\ market' \in [Markets -> MarketType]
         /\ \A n \in Markets \ {m} : market'[n] = market[n]
         /\ market'[m] = [market[m] EXCEPT !.total_claimed = @ + ClaimAmount(market[m], position[pm][pb])]
         /\ position' \in [Markets -> [Bettors -> PositionType]]
         /\ position'[pm][pb] = [position[pm][pb] EXCEPT !.claimed = TRUE]
         /\ \A c \in Bettors \ {pb} : position'[pm][c] = position[pm][c]
         /\ \A n \in Markets \ {pm} : position'[n] = position[n]
         /\ balance' \in [Accounts -> Nat]
         /\ balance[m] <= balance'[m] + ClaimAmount(market[m], position[pm][pb])
         /\ \A n \in Markets \ {m} : balance[n] <= balance'[n]
         /\ dest # m => balance'[m] = balance[m] - ClaimAmount(market[m], position[pm][pb])
         /\ SumOver(balance', Accounts) = SumOver(balance, Accounts)
<1> DEFINE payout == ClaimAmount(market[m], position[pm][pb])
           r == [market[m] EXCEPT !.total_claimed = @ + payout]
           q == [position[pm][pb] EXCEPT !.claimed = TRUE]
<1>1. payout \in Nat
  <2> DEFINE s == OnSide(market[m].winning_side, position[pm][pb].yes_amount,
                         position[pm][pb].no_amount)
             w == OnSide(market[m].winning_side, market[m].yes_pool, market[m].no_pool)
             t == market[m].total_payout_pool
  <2>1. /\ market[m].yes_pool \in Nat /\ market[m].no_pool \in Nat /\ t \in Nat
        /\ position[pm][pb].yes_amount \in Nat /\ position[pm][pb].no_amount \in Nat
    BY FieldTypes
  <2>2. s \in Nat /\ w \in Nat
    BY <2>1 DEF OnSide
  <2> HIDE DEF s, w, t
  <2>3. CASE w = 0
    BY <2>1, <2>3 DEF Payout, ClaimAmount, s, w, t
  <2>4. CASE w # 0
    <3>1. Payout(s, w, t) \in Nat
      BY <2>1, <2>2, <2>4, PayoutBounds DEF t
    <3> QED BY <2>1, <3>1 DEF ClaimAmount, s, w, t
  <2> QED BY <2>3, <2>4
<1>2. /\ escrow = m
      /\ CanPay(m, payout)
      /\ Transfer(m, dest, payout)
      /\ position' = [position EXCEPT ![pm][pb] = q]
      /\ market' = [market EXCEPT ![m] = r]
  BY DEF Claim, ClaimAllowed, TypeOK
<1>3. market[m] \in MarketType /\ position[pm][pb] \in PositionType
  BY DEF TypeOK
<1> HIDE DEF payout
<1>4. r \in MarketType
  BY <1>1, <1>3 DEF MarketType
<1>5. q \in PositionType
  BY <1>3 DEF PositionType
<1> HIDE DEF r, q
<1>6. /\ market' \in [Markets -> MarketType]
      /\ \A n \in Markets \ {m} : market'[n] = market[n]
      /\ market'[m] = r
  BY <1>2, <1>4, MarketUpdate
<1>7. /\ position' \in [Markets -> [Bettors -> PositionType]]
      /\ position'[pm][pb] = q
      /\ \A c \in Bettors \ {pb} : position'[pm][c] = position[pm][c]
      /\ \A n \in Markets \ {pm} : position'[n] = position[n]
  BY <1>2, <1>5, PositionUpdate
<1>8. m \in Accounts /\ \A n \in Markets : n \in Accounts
  BY DEF Accounts
<1>9. balance \in [Accounts -> Nat]
  BY DEF TypeOK
<1>10. /\ balance' \in [Accounts -> Nat]
       /\ balance[m] <= balance'[m] + payout
       /\ \A a \in Accounts \ {m} : balance[a] <= balance'[a]
       /\ dest # m => balance'[m] = balance[m] - payout
  BY <1>1, <1>2, <1>8, <1>9, TransferMoves
<1>11. SumOver(balance', Accounts) = SumOver(balance, Accounts)
  BY <1>1, <1>2, <1>8, <1>9, TransferConserves
<1>12. \A n \in Markets \ {m} : balance[n] <= balance'[n]
  BY <1>8, <1>10
<1> QED BY <1>1, <1>6, <1>7, <1>10, <1>11, <1>12 DEF payout, r, q

LEMMA ClaimType ==
  ASSUME TypeOK, NEW claimant \in Bettors, NEW m \in Markets, NEW pm \in Markets,
         NEW pb \in Bettors, NEW escrow \in Markets, NEW dest \in Accounts,
         Claim(claimant, m, pm, pb, escrow, dest)
  PROVE  TypeOK'
<1>1. /\ market' \in [Markets -> MarketType]
      /\ position' \in [Markets -> [Bettors -> PositionType]]
      /\ balance' \in [Accounts -> Nat]
  BY ClaimEffect
<1> QED BY <1>1 DEF Claim, TypeOK

LEMMA VoidMarketType ==
  ASSUME TypeOK, NEW authority, NEW m \in Markets, VoidMarket(authority, m)
  PROVE  TypeOK'
BY VoidEffect DEF VoidMarket, TypeOK

LEMMA WalletTransferEffect ==
  ASSUME TypeOK, NEW bettor \in Bettors, NEW dest \in Accounts, NEW amount \in Nat,
         WalletTransfer(bettor, dest, amount)
  PROVE  /\ balance' \in [Accounts -> Nat]
         /\ \A m \in Markets : balance[m] <= balance'[m]
         /\ SumOver(balance', Accounts) = SumOver(balance, Accounts)
         /\ UNCHANGED <<market, position, posted, now>>
<1>1. CanPay(bettor, amount) /\ Transfer(bettor, dest, amount)
      /\ UNCHANGED <<market, position, posted, now>>
  BY DEF WalletTransfer
<1>2. balance \in [Accounts -> Nat] /\ bettor \in Accounts
  BY DEF TypeOK, Accounts
<1>3. balance' \in [Accounts -> Nat] /\ \A a \in Accounts \ {bettor} : balance[a] <= balance'[a]
  BY <1>1, <1>2, TransferMoves
<1>4. \A m \in Markets : m \in Accounts \ {bettor}
  BY KeysAssumption DEF Accounts
<1>5. SumOver(balance', Accounts) = SumOver(balance, Accounts)
  BY <1>1, <1>2, TransferConserves
<1> QED BY <1>1, <1>3, <1>4, <1>5

LEMMA PayeesAreAccounts ==
  ASSUME NEW claimant \in Bettors, NEW dest \in {claimant} \cup Payees
  PROVE  dest \in Accounts
BY KeysAssumption DEF Accounts

LEMMA NextTypeOK == TypeOK /\ [Next]_vars => TypeOK'
<1> SUFFICES ASSUME TypeOK, [Next]_vars PROVE TypeOK'
  OBVIOUS
<1>1. ASSUME NEW creator \in Creators, NEW nonce \in Nonces, NEW params \in Params,
             CreateMarket(creator, nonce, params)
      PROVE  TypeOK'
  BY <1>1, CreateMarketType
<1>2. ASSUME NEW bettor \in Bettors, NEW m \in Markets, NEW side \in 0..2,
             NEW amount \in Amounts, PlacePosition(bettor, m, side, amount)
      PROVE  TypeOK'
  BY <1>2, InputAssumption, PlacePositionType
<1>3. ASSUME NEW m \in Markets, SettleAny(m)
      PROVE  TypeOK'
  BY <1>3, SettleType
<1>4. ASSUME NEW claimant \in Bettors, ClaimAny(claimant)
      PROVE  TypeOK'
  BY <1>4, PayeesAreAccounts, ClaimType DEF ClaimAny
<1>5. ASSUME NEW authority \in Signers, NEW m \in Markets, VoidMarket(authority, m)
      PROVE  TypeOK'
  BY <1>5, VoidMarketType
<1>6. CASE Tick
  BY <1>6, InputAssumption DEF Tick, TypeOK
<1>7. ASSUME NEW stat \in Attestable, Post(stat)
      PROVE  TypeOK'
  BY <1>7 DEF Post, TypeOK
<1>8. ASSUME NEW bettor \in Bettors, NEW dest \in Payees, NEW amount \in Amounts,
             WalletTransfer(bettor, dest, amount)
      PROVE  TypeOK'
  <2>1. dest \in Accounts /\ amount \in Nat
    BY InputAssumption, KeysAssumption
  <2> QED BY <1>8, <2>1, WalletTransferEffect DEF TypeOK
<1>9. CASE UNCHANGED vars
  BY <1>9 DEF vars, TypeOK
<1> QED BY <1>1, <1>2, <1>3, <1>4, <1>5, <1>6, <1>7, <1>8, <1>9 DEF Next

\* Every account keeps its shape, whatever instructions are executed.
THEOREM TypeCorrect == Spec => []TypeOK
BY InitTypeOK, NextTypeOK, PTL DEF Spec

-----------------------------------------------------------------------------
(* The books of one market                                                 *)

\* What the sums in the books range over.
LEMMA StakeTypes ==
  ASSUME TypeOK, NEW m \in Markets
  PROVE  /\ \A side : \A b \in Bettors : StakesOn(m, side)[b] \in Nat
         /\ \A b \in Bettors : StakesOf(m)[b] \in Nat
         /\ \A b \in Bettors : Owed(m)[b] \in Nat
<1>1. ASSUME NEW b \in Bettors
      PROVE  position[m][b].yes_amount \in Nat /\ position[m][b].no_amount \in Nat
  BY FieldTypes
<1>2. \A side : \A b \in Bettors : StakesOn(m, side)[b] \in Nat
  BY <1>1 DEF StakesOn, OnSide
<1>3. \A b \in Bettors : StakesOf(m)[b] \in Nat
  BY <1>1 DEF StakesOf
<1>4. ASSUME NEW b \in Bettors
      PROVE  Owed(m)[b] \in Nat
  <2> DEFINE w == OnSide(market[m].winning_side, market[m].yes_pool, market[m].no_pool)
             s == OnSide(market[m].winning_side, position[m][b].yes_amount,
                         position[m][b].no_amount)
             t == market[m].total_payout_pool
  <2>1. w \in Nat /\ s \in Nat /\ t \in Nat
    BY <1>1, FieldTypes DEF OnSide
  <2>2. Owed(m)[b] = IF market[m].status = "Resolved" THEN Payout(s, w, t)
                     ELSE position[m][b].yes_amount + position[m][b].no_amount
    BY DEF Owed, ClaimAmount
  <2> HIDE DEF w, s, t
  <2>3. Payout(s, w, t) \in Nat
    <3>1. CASE w = 0
      BY <3>1 DEF Payout
    <3>2. CASE w # 0
      BY <2>1, <3>2, PayoutBounds
    <3> QED BY <3>1, <3>2
  <2> QED BY <1>1, <2>2, <2>3
<1> QED BY <1>2, <1>3, <1>4

\* A market whose accounts a step leaves alone keeps its books, even if
\* tokens are sent into its escrow.
LEMMA BooksFrame ==
  ASSUME TypeOK, TypeOK', NEW m \in Markets, Books(m),
         market'[m] = market[m], position'[m] = position[m], balance[m] <= balance'[m]
  PROVE  Books(m)'
<1>1. /\ \A side : StakesOn(m, side)' = StakesOn(m, side)
      /\ StakesOf(m)' = StakesOf(m)
      /\ Owed(m)' = Owed(m)
      /\ Claimed(m)' = Claimed(m)
      /\ Pot(m)' = Pot(m)
  BY DEF StakesOn, StakesOf, Owed, Claimed, Pot
<1>2. PoolsAreStakes(m)'
  BY <1>1 DEF Books, PoolsAreStakes
<1>3. PotIsCovered(m)'
  <2>1. balance[m] \in Nat /\ balance'[m] \in Nat /\ market[m].total_claimed \in Nat
        /\ Pot(m) \in Nat
    BY DEF TypeOK, Accounts, MarketType, Pot
  <2> QED BY <1>1, <2>1 DEF Books, PotIsCovered
<1>4. ClaimsAreCounted(m)' /\ NotFinalIsUnclaimed(m)'
  BY <1>1 DEF Books, ClaimsAreCounted, NotFinalIsUnclaimed
<1>5. ResolvedHasWinners(m)' /\ PositionsAreOwn(m)' /\ ParamsAreChecked(m)' /\ AbsentIsEmpty(m)'
  BY DEF Books, ResolvedHasWinners, PositionsAreOwn, ParamsAreChecked, AbsentIsEmpty, NoPosition
<1> QED BY <1>2, <1>3, <1>4, <1>5 DEF Books

\* Nothing has been claimed from a market that is not final.
LEMMA NothingClaimedYet ==
  ASSUME TypeOK, NEW m \in Markets, Books(m), market[m].status \notin Final
  PROVE  Claimed(m) = {} /\ market[m].total_claimed = 0
<1>1. Claimed(m) = {}
  BY DEF Books, NotFinalIsUnclaimed
<1>2. SumOver(Owed(m), Claimed(m)) = 0
  BY <1>1, SumEmpty
<1> QED BY <1>1, <1>2 DEF Books, ClaimsAreCounted

\* Two states in which nothing is claimed from m keep count of nothing.
LEMMA StillNothingClaimed ==
  ASSUME NEW m \in Markets, Claimed(m) = {}, market'[m].total_claimed = 0,
         \A b \in Bettors : position'[m][b].claimed = position[m][b].claimed
  PROVE  Claimed(m)' = {} /\ ClaimsAreCounted(m)'
<1>1. Claimed(m)' = {}
  BY DEF Claimed
<1>2. SumOver(Owed(m)', {}) = 0
  BY SumEmpty
<1> QED BY <1>1, <1>2 DEF ClaimsAreCounted

LEMMA InitBooks == Init => BooksBalance
<1> SUFFICES ASSUME Init PROVE BooksBalance
  OBVIOUS
<1>1. TypeOK
  BY InitTypeOK
<1>2. ASSUME NEW m \in Markets PROVE Books(m)
  <2>1. /\ market[m].status = "Absent" /\ market[m].yes_pool = 0 /\ market[m].no_pool = 0
        /\ market[m].total_claimed = 0
    BY DEF Init, NewMarket
  <2>2. \A b \in Bettors : position[m][b] = NoPosition
    BY DEF Init
  <2>3. /\ \A b \in Bettors : StakesOn(m, SIDE_YES)[b] = 0
        /\ \A b \in Bettors : StakesOn(m, SIDE_NO)[b] = 0
        /\ \A b \in Bettors : StakesOf(m)[b] = 0
    BY <2>2 DEF StakesOn, StakesOf, NoPosition, OnSide
  <2>4. PoolsAreStakes(m)
    BY <2>1, <2>3, SumZero DEF PoolsAreStakes
  <2>5. PotIsCovered(m)
    BY <1>1, <2>1, ArithmeticAssumption
       DEF PotIsCovered, Pot, FitsU64, TypeOK, Accounts
  <2>6. Claimed(m) = {}
    BY <2>2 DEF Claimed, NoPosition
  <2>7. ClaimsAreCounted(m)
    BY <2>1, <2>6, SumEmpty DEF ClaimsAreCounted
  <2>8. PositionsAreOwn(m)
    BY <2>2 DEF PositionsAreOwn, NoPosition
  <2> QED BY <2>1, <2>4, <2>5, <2>6, <2>7, <2>8
          DEF Books, NotFinalIsUnclaimed, ResolvedHasWinners, ParamsAreChecked, AbsentIsEmpty
<1>3. SupplyIsConstant
  <2>1. \A a \in Accounts : balance[a] \in Nat
    BY <1>1 DEF TypeOK
  <2>2. Bettors \subseteq Accounts
    BY DEF Accounts
  <2>3. SumOver(balance, Accounts)
          = SumOver(balance, Bettors) + SumOver(balance, Accounts \ Bettors)
    BY <2>1, <2>2, AccountsFinite, SumSplit
  <2>4. SumOver(balance, Accounts \ Bettors) = 0
    <3>1. \A a \in Accounts \ Bettors : balance[a] = 0
      BY DEF Init
    <3> QED BY <3>1, SumZero
  <2>5. SumOver(balance, Bettors) = SumOver(InitialWallet, Bettors)
    <3>1. \A a \in Bettors : balance[a] = InitialWallet[a]
      BY <2>2 DEF Init
    <3> QED BY <3>1, SumSame
  <2>6. SumOver(balance, Bettors) \in Nat
    BY <2>1, <2>2, AccountsFinite, SumType
  <2> QED BY <2>3, <2>4, <2>5, <2>6 DEF SupplyIsConstant
<1> QED BY <1>2, <1>3 DEF BooksBalance

LEMMA CreateMarketBooks ==
  ASSUME TypeOK, BooksBalance, NEW creator \in Creators, NEW nonce \in Nonces,
         NEW params \in Params, CreateMarket(creator, nonce, params)
  PROVE  BooksBalance'
<1> DEFINE m == <<creator, nonce>>
<1>1. m \in Markets
  BY DEF Markets
<1>2. TypeOK'
  BY CreateMarketType
<1>3. /\ market[m].status = "Absent" /\ params.fee_bps <= MAX_FEE_BPS
      /\ (params.stat_key2 # NoStat) = (params.op # NoOp)
      /\ market' = [market EXCEPT ![m] = NewMarket("Open", params)]
      /\ UNCHANGED <<position, balance>>
  BY DEF CreateMarket
<1> HIDE DEF m
<1>4. market'[m] = NewMarket("Open", params) /\ \A n \in Markets \ {m} : market'[n] = market[n]
  BY <1>1, <1>3 DEF TypeOK
<1>5. Books(m)'
  <2>1. Books(m)
    BY <1>1 DEF BooksBalance
  <2>2. /\ market'[m].status = "Open" /\ market'[m].yes_pool = 0 /\ market'[m].no_pool = 0
        /\ market'[m].total_claimed = 0 /\ market'[m].params = params
    BY <1>3, <1>4 DEF NewMarket
  <2>3. PoolsAreStakes(m)'
    <3>1. /\ SumOver(StakesOn(m, SIDE_YES), Bettors) = 0
          /\ SumOver(StakesOn(m, SIDE_NO), Bettors) = 0
          /\ SumOver(StakesOf(m), Bettors) = 0
      BY <1>3, <2>1 DEF Books, PoolsAreStakes, AbsentIsEmpty
    <3>2. /\ StakesOn(m, SIDE_YES)' = StakesOn(m, SIDE_YES)
          /\ StakesOn(m, SIDE_NO)' = StakesOn(m, SIDE_NO)
          /\ StakesOf(m)' = StakesOf(m)
      BY <1>3 DEF StakesOn, StakesOf
    <3> QED BY <2>2, <3>1, <3>2 DEF PoolsAreStakes
  <2>4. Claimed(m) = {}
    BY <1>1, <1>3, <2>1, NothingClaimedYet DEF Final
  <2>5. Claimed(m)' = {} /\ ClaimsAreCounted(m)'
    BY <1>1, <1>3, <2>2, <2>4, StillNothingClaimed
  <2>6. PotIsCovered(m)'
    BY <1>1, <1>2, <2>2, ArithmeticAssumption
       DEF PotIsCovered, Pot, FitsU64, TypeOK, Accounts
  <2>7. PositionsAreOwn(m)'
    BY <1>3, <2>1 DEF Books, PositionsAreOwn, NoPosition
  <2>8. ParamsAreChecked(m)'
    BY <1>3, <2>2 DEF ParamsAreChecked
  <2> QED BY <2>2, <2>3, <2>5, <2>6, <2>7, <2>8
          DEF Books, NotFinalIsUnclaimed, ResolvedHasWinners, AbsentIsEmpty
<1>6. ASSUME NEW n \in Markets \ {m} PROVE Books(n)'
  <2>1. balance[n] <= balance'[n]
    BY <1>3 DEF TypeOK, Accounts
  <2> QED BY <1>2, <1>3, <1>4, <2>1, BooksFrame DEF BooksBalance
<1>7. SupplyIsConstant'
  BY <1>3 DEF BooksBalance, SupplyIsConstant
<1> QED BY <1>5, <1>6, <1>7 DEF BooksBalance

LEMMA PlacePositionBooks ==
  ASSUME TypeOK, BooksBalance, NEW bettor \in Bettors, NEW m \in Markets,
         NEW side \in 0..2, NEW amount \in Nat, PlacePosition(bettor, m, side, amount)
  PROVE  BooksBalance'
<1>1. TypeOK'
  BY PlacePositionType
<1>0. PICK yes \in Nat, no \in Nat : yes + no = amount /\ StakeAdded(bettor, m, yes, no)
  BY PlacePositionEffect
<1>2. /\ yes + no = amount
      /\ market'[m] = [market[m] EXCEPT !.yes_pool = @ + yes, !.no_pool = @ + no]
      /\ \A n \in Markets \ {m} : market'[n] = market[n]
      /\ position' \in [Markets -> [Bettors -> PositionType]]
      /\ position'[m][bettor].yes_amount = position[m][bettor].yes_amount + yes
      /\ position'[m][bettor].no_amount = position[m][bettor].no_amount + no
      /\ position'[m][bettor].claimed = position[m][bettor].claimed
      /\ position'[m][bettor].market = m
      /\ position'[m][bettor].owner = IF position[m][bettor].market = NoKey
                                         THEN bettor ELSE position[m][bettor].owner
      /\ \A c \in Bettors \ {bettor} : position'[m][c] = position[m][c]
      /\ \A n \in Markets \ {m} : position'[n] = position[n]
  BY <1>0 DEF StakeAdded
<1>3. /\ market[m].status = "Open" /\ CanPay(bettor, amount) /\ Transfer(bettor, m, amount)
  BY DEF PlacePosition
<1>4. /\ balance'[m] = balance[m] + amount
      /\ \A n \in Markets \ {m} : balance[n] <= balance'[n]
      /\ SumOver(balance', Accounts) = SumOver(balance, Accounts)
  <2>1. bettor \in Accounts /\ m \in Accounts /\ bettor # m
        /\ \A n \in Markets : n \in Accounts \ {bettor}
    BY KeysAssumption DEF Accounts
  <2>2. balance \in [Accounts -> Nat]
    BY DEF TypeOK
  <2> QED BY <1>3, <2>1, <2>2, TransferMoves, TransferConserves
<1>5. SupplyIsConstant'
  BY <1>4 DEF BooksBalance, SupplyIsConstant
<1>6. Books(m)'
  <2>1. Books(m)
    BY DEF BooksBalance
  <2>2. market[m] \in MarketType /\ balance[m] \in Nat
    BY DEF TypeOK, Accounts
  <2>3. /\ market'[m].status = "Open"
        /\ market'[m].yes_pool = market[m].yes_pool + yes
        /\ market'[m].no_pool = market[m].no_pool + no
        /\ market'[m].total_claimed = market[m].total_claimed
        /\ market'[m].params = market[m].params
    BY <1>2, <1>3, <2>2 DEF MarketType
  <2>4. Claimed(m) = {} /\ market[m].total_claimed = 0
    BY <1>3, <2>1, NothingClaimedYet DEF Final
  <2>5. Claimed(m)' = {} /\ ClaimsAreCounted(m)'
    BY <1>2, <2>3, <2>4, StillNothingClaimed
  <2>6. PoolsAreStakes(m)'
    <3>1. /\ StakesOn(m, SIDE_YES)'[bettor] = StakesOn(m, SIDE_YES)[bettor] + yes
          /\ StakesOn(m, SIDE_NO)'[bettor] = StakesOn(m, SIDE_NO)[bettor] + no
      BY <1>2 DEF StakesOn, OnSide, SIDE_YES, SIDE_NO
    <3>2. StakesOf(m)'[bettor] = StakesOf(m)[bettor] + amount
      <4>1. position[m][bettor].yes_amount \in Nat /\ position[m][bettor].no_amount \in Nat
        BY FieldTypes
      <4> QED BY <1>2, <4>1 DEF StakesOf
    <3>3. \A c \in Bettors \ {bettor} :
            /\ StakesOn(m, SIDE_YES)'[c] = StakesOn(m, SIDE_YES)[c]
            /\ StakesOn(m, SIDE_NO)'[c] = StakesOn(m, SIDE_NO)[c]
            /\ StakesOf(m)'[c] = StakesOf(m)[c]
      BY <1>2 DEF StakesOn, StakesOf
    <3>4. /\ \A b \in Bettors : StakesOn(m, SIDE_YES)[b] \in Nat
          /\ \A b \in Bettors : StakesOn(m, SIDE_NO)[b] \in Nat
          /\ \A b \in Bettors : StakesOf(m)[b] \in Nat
      BY StakeTypes
    <3>5. /\ \A b \in Bettors : StakesOn(m, SIDE_YES)'[b] \in Nat
          /\ \A b \in Bettors : StakesOn(m, SIDE_NO)'[b] \in Nat
          /\ \A b \in Bettors : StakesOf(m)'[b] \in Nat
      BY <1>2, <3>1, <3>2, <3>3, <3>4
    <3>6. /\ SumOver(StakesOn(m, SIDE_YES), Bettors) = market[m].yes_pool
          /\ SumOver(StakesOn(m, SIDE_NO), Bettors) = market[m].no_pool
          /\ SumOver(StakesOf(m), Bettors) = market[m].yes_pool + market[m].no_pool
      BY <2>1 DEF Books, PoolsAreStakes
    <3>7. SumOver(StakesOn(m, SIDE_YES)', Bettors) = market[m].yes_pool + yes
      <4> DEFINE f == StakesOn(m, SIDE_YES)
                 g == StakesOn(m, SIDE_YES)'
      <4>1. g[bettor] = f[bettor] + yes /\ (\A c \in Bettors \ {bettor} : g[c] = f[c])
            /\ (\A b \in Bettors : f[b] \in Nat) /\ (\A b \in Bettors : g[b] \in Nat)
        BY <3>1, <3>3, <3>4, <3>5
      <4> HIDE DEF f, g
      <4>2. SumOver(g, Bettors) = SumOver(f, Bettors) - f[bettor] + g[bettor]
        BY <4>1, AccountsFinite, SumUpdate
      <4>3. SumOver(f, Bettors) = market[m].yes_pool
        BY <3>6 DEF f
      <4>4. f[bettor] \in Nat /\ market[m].yes_pool \in Nat
        BY <2>2, <4>1 DEF MarketType
      <4>5. SumOver(g, Bettors) = market[m].yes_pool + yes
        BY <1>2, <4>1, <4>2, <4>3, <4>4
      <4> QED BY <4>5 DEF g
    <3>8. SumOver(StakesOn(m, SIDE_NO)', Bettors) = market[m].no_pool + no
      <4> DEFINE f == StakesOn(m, SIDE_NO)
                 g == StakesOn(m, SIDE_NO)'
      <4>1. g[bettor] = f[bettor] + no /\ (\A c \in Bettors \ {bettor} : g[c] = f[c])
            /\ (\A b \in Bettors : f[b] \in Nat) /\ (\A b \in Bettors : g[b] \in Nat)
        BY <3>1, <3>3, <3>4, <3>5
      <4> HIDE DEF f, g
      <4>2. SumOver(g, Bettors) = SumOver(f, Bettors) - f[bettor] + g[bettor]
        BY <4>1, AccountsFinite, SumUpdate
      <4>3. SumOver(f, Bettors) = market[m].no_pool
        BY <3>6 DEF f
      <4>4. f[bettor] \in Nat /\ market[m].no_pool \in Nat
        BY <2>2, <4>1 DEF MarketType
      <4>5. SumOver(g, Bettors) = market[m].no_pool + no
        BY <1>2, <4>1, <4>2, <4>3, <4>4
      <4> QED BY <4>5 DEF g
    <3>9. SumOver(StakesOf(m)', Bettors) = market[m].yes_pool + market[m].no_pool + amount
      <4> DEFINE f == StakesOf(m)
                 g == StakesOf(m)'
      <4>1. g[bettor] = f[bettor] + amount /\ (\A c \in Bettors \ {bettor} : g[c] = f[c])
            /\ (\A b \in Bettors : f[b] \in Nat) /\ (\A b \in Bettors : g[b] \in Nat)
        BY <3>2, <3>3, <3>4, <3>5
      <4> HIDE DEF f, g
      <4>2. SumOver(g, Bettors) = SumOver(f, Bettors) - f[bettor] + g[bettor]
        BY <4>1, AccountsFinite, SumUpdate
      <4>3. SumOver(f, Bettors) = market[m].yes_pool + market[m].no_pool
        BY <3>6 DEF f
      <4>4. f[bettor] \in Nat /\ market[m].yes_pool \in Nat /\ market[m].no_pool \in Nat
        BY <2>2, <4>1 DEF MarketType
      <4>5. SumOver(g, Bettors) = market[m].yes_pool + market[m].no_pool + amount
        BY <4>1, <4>2, <4>3, <4>4
      <4> QED BY <4>5 DEF g
    <3>10. market[m].yes_pool \in Nat /\ market[m].no_pool \in Nat
      BY <2>2 DEF MarketType
    <3>11. (market[m].yes_pool + yes) + (market[m].no_pool + no)
             = market[m].yes_pool + market[m].no_pool + amount
      BY <1>2, <3>10
    <3> QED BY <2>3, <3>7, <3>8, <3>9, <3>11 DEF PoolsAreStakes
  <2>7. PotIsCovered(m)'
    <3>1. market[m].yes_pool \in Nat /\ market[m].no_pool \in Nat
      BY <2>2 DEF MarketType
    <3>2. market[m].yes_pool + market[m].no_pool <= balance[m]
      BY <1>3, <2>1, <2>2, <2>4, <3>1 DEF Books, PotIsCovered, Pot
    <3>3. Pot(m)' = market[m].yes_pool + market[m].no_pool + amount
      BY <1>2, <2>3, <3>1 DEF Pot
    <3>4. Pot(m)' <= balance'[m]
      BY <1>4, <2>2, <3>1, <3>2, <3>3
    <3>5. balance'[m] <= U64Max
      <4>1. \A a \in Accounts : balance'[a] \in Nat
        BY <1>1 DEF TypeOK
      <4>2. m \in Accounts
        BY DEF Accounts
      <4>3. balance'[m] <= SumOver(balance', Accounts)
        BY <4>1, <4>2, AccountsFinite, SumBoundsMember
      <4>4. SumOver(balance', Accounts) <= U64Max
        BY <1>5, SupplyAssumption DEF SupplyIsConstant
      <4>5. SumOver(balance', Accounts) \in Nat /\ balance'[m] \in Nat /\ U64Max \in Nat
        BY <4>1, <4>2, AccountsFinite, SumType, ArithmeticAssumption
      <4> QED BY <4>3, <4>4, <4>5
    <3>6. balance'[m] \in Nat /\ U64Max \in Nat
      BY <1>1, ArithmeticAssumption DEF TypeOK, Accounts
    <3>7. Pot(m)' \in Nat
      BY <3>1, <3>3
    <3>8. market'[m].total_claimed = 0
      BY <2>3, <2>4
    <3> QED BY <3>4, <3>5, <3>6, <3>7, <3>8 DEF PotIsCovered, FitsU64
  <2>8. PositionsAreOwn(m)'
    <3>1. ASSUME NEW c \in Bettors \ {bettor} PROVE position'[m][c] = position[m][c]
      BY <1>2
    <3>2. position'[m][bettor].market = m /\ position'[m][bettor].owner = bettor
      <4>1. \/ position[m][bettor].market = m /\ position[m][bettor].owner = bettor
            \/ position[m][bettor] = NoPosition
        BY <2>1 DEF Books, PositionsAreOwn
      <4>2. NoPosition.market = NoKey /\ NoKey # m
        BY KeysAssumption DEF NoPosition
      <4> QED BY <1>2, <4>1, <4>2
    <3> QED BY <2>1, <3>1, <3>2 DEF Books, PositionsAreOwn, NoPosition
  <2>9. ParamsAreChecked(m)'
    BY <1>3, <2>1, <2>3 DEF Books, ParamsAreChecked
  <2> QED BY <2>3, <2>5, <2>6, <2>7, <2>8, <2>9
          DEF Books, NotFinalIsUnclaimed, ResolvedHasWinners, AbsentIsEmpty
<1>7. ASSUME NEW n \in Markets \ {m} PROVE Books(n)'
  BY <1>1, <1>2, <1>4, BooksFrame DEF BooksBalance
<1> QED BY <1>5, <1>6, <1>7 DEF BooksBalance

\* A market that ends void keeps its books: what was staked is still the pot.
LEMMA VoidBooks ==
  ASSUME TypeOK, TypeOK', BooksBalance, NEW m \in Markets, market[m].status = "Open",
         MakeVoid(m),
         UNCHANGED <<position, balance>>
  PROVE  BooksBalance'
<1>1. /\ market'[m] =
           [market[m] EXCEPT !.status = "Voided", !.winning_side = SIDE_NONE, !.settle_ts = now]
      /\ \A n \in Markets \ {m} : market'[n] = market[n]
  BY VoidEffect
<1>2. Books(m)'
  <2>1. Books(m) /\ market[m] \in MarketType
    BY DEF BooksBalance, TypeOK
  <2>2. /\ market'[m].status = "Voided"
        /\ market'[m].yes_pool = market[m].yes_pool
        /\ market'[m].no_pool = market[m].no_pool
        /\ market'[m].total_claimed = market[m].total_claimed
        /\ market'[m].params = market[m].params
    BY <1>1, <2>1 DEF MarketType
  <2>3. Claimed(m) = {} /\ market[m].total_claimed = 0
    BY <2>1, NothingClaimedYet DEF Final
  <2>4. Claimed(m)' = {} /\ ClaimsAreCounted(m)'
    BY <2>2, <2>3, StillNothingClaimed
  <2>5. PoolsAreStakes(m)'
    BY <2>1, <2>2 DEF Books, PoolsAreStakes, StakesOn, StakesOf
  <2>6. PotIsCovered(m)'
    BY <2>1, <2>2 DEF Books, PotIsCovered, Pot
  <2>7. PositionsAreOwn(m)' /\ ParamsAreChecked(m)'
    BY <2>1, <2>2 DEF Books, PositionsAreOwn, ParamsAreChecked, NoPosition
  <2> QED BY <2>2, <2>4, <2>5, <2>6, <2>7
          DEF Books, NotFinalIsUnclaimed, ResolvedHasWinners, AbsentIsEmpty
<1>3. ASSUME NEW n \in Markets \ {m} PROVE Books(n)'
  <2>1. balance[n] <= balance'[n]
    BY DEF TypeOK, Accounts
  <2> QED BY <1>1, <2>1, BooksFrame DEF BooksBalance
<1>4. SupplyIsConstant'
  BY DEF BooksBalance, SupplyIsConstant
<1> QED BY <1>2, <1>3, <1>4 DEF BooksBalance

\* The pools of a market whose books balance split without overflow, for
\* either side, and the split shares out exactly the pools.
LEMMA SplitOfBooks ==
  ASSUME TypeOK, NEW m \in Markets, Books(m), market[m].status = "Open",
         NEW side \in {SIDE_YES, SIDE_NO}
  PROVE  /\ SplitOk(WinnersOf(market[m], side), LosersOf(market[m], side),
                    market[m].params.fee_bps)
         /\ PoolOf(m, side) \in Nat /\ FeeOf(m, side) \in Nat
         /\ WinnersOf(market[m], side) <= PoolOf(m, side)
         /\ PoolOf(m, side) + FeeOf(m, side) = market[m].yes_pool + market[m].no_pool
<1> DEFINE w == WinnersOf(market[m], side)
           l == LosersOf(market[m], side)
           bps == market[m].params.fee_bps
<1>1. market[m].yes_pool \in Nat /\ market[m].no_pool \in Nat
  BY FieldTypes DEF TypeOK, MarketType
<1>2. w \in Nat /\ l \in Nat /\ bps \in Nat
  BY PoolTypes
<1>3. w + l = market[m].yes_pool + market[m].no_pool
  BY <1>1 DEF WinnersOf, LosersOf, OnSide, Opposite, SIDE_YES, SIDE_NO
<1>4. FitsU64(market[m].yes_pool + market[m].no_pool)
  BY DEF Books, PotIsCovered, Pot
<1>5. bps <= BPS_DENOMINATOR
  <2>1. bps <= MAX_FEE_BPS
    BY DEF Books, ParamsAreChecked
  <2> HIDE DEF bps
  <2> QED BY <1>2, <2>1, FeeAssumption, ArithmeticAssumption
<1>6. FeeOf(m, side) \in Nat
  BY PoolTypes DEF FeeOf
<1> HIDE DEF w, l, bps
<1>7. /\ SplitOk(w, l, bps) /\ PayoutPool(w, l, bps) \in Nat
      /\ w <= PayoutPool(w, l, bps)
      /\ PayoutPool(w, l, bps) + Fee(l, bps) = w + l
  BY <1>2, <1>3, <1>4, <1>5, SplitBounds
<1> QED BY <1>3, <1>6, <1>7 DEF w, l, bps, PoolOf, FeeOf

\* A resolution moves the fee from the pot to the treasury and leaves the
\* winners' pool in the escrow.
LEMMA ResolveBooks ==
  ASSUME TypeOK, TypeOK', BooksBalance, NEW m \in Markets, market[m].status = "Open",
         NEW side \in {SIDE_YES, SIDE_NO}, Resolve(m, side),
         WinnersOf(market[m], side) # 0, UNCHANGED position
  PROVE  BooksBalance'
<1> DEFINE fee == FeeOf(m, side)
           pool == PoolOf(m, side)
<1>1. Books(m) /\ market[m] \in MarketType /\ balance[m] \in Nat /\ m \in Accounts
  BY DEF BooksBalance, TypeOK, Accounts
<1>2. /\ SplitOk(WinnersOf(market[m], side), LosersOf(market[m], side),
                 market[m].params.fee_bps)
      /\ pool \in Nat /\ fee \in Nat
      /\ WinnersOf(market[m], side) <= pool
      /\ pool + fee = market[m].yes_pool + market[m].no_pool
  BY <1>1, SplitOfBooks
<1>3. /\ \A n \in Markets \ {m} : market'[n] = market[n] /\ balance'[n] = balance[n]
      /\ market'[m] = [market[m] EXCEPT
           !.status = "Resolved", !.winning_side = side, !.settle_ts = now,
           !.fee_collected = fee, !.total_payout_pool = pool]
      /\ balance'[m] = balance[m] - fee
      /\ SumOver(balance', Accounts) = SumOver(balance, Accounts)
  BY <1>2, ResolveEffect
<1> HIDE DEF fee, pool
<1>4. Books(m)'
  <2>1. /\ market'[m].status = "Resolved" /\ market'[m].winning_side = side
        /\ market'[m].total_payout_pool = pool
        /\ market'[m].yes_pool = market[m].yes_pool
        /\ market'[m].no_pool = market[m].no_pool
        /\ market'[m].total_claimed = market[m].total_claimed
        /\ market'[m].params = market[m].params
    BY <1>1, <1>3 DEF MarketType
  <2>2. Claimed(m) = {} /\ market[m].total_claimed = 0
    BY <1>1, NothingClaimedYet DEF Final
  <2>3. Claimed(m)' = {} /\ ClaimsAreCounted(m)'
    BY <2>1, <2>2, StillNothingClaimed
  <2>4. PoolsAreStakes(m)'
    BY <1>1, <2>1 DEF Books, PoolsAreStakes, StakesOn, StakesOf
  <2>5. PotIsCovered(m)'
    <3>1. market[m].yes_pool \in Nat /\ market[m].no_pool \in Nat
      BY <1>1 DEF MarketType
    <3>2. /\ market[m].yes_pool + market[m].no_pool <= balance[m]
          /\ market[m].yes_pool + market[m].no_pool <= U64Max
      BY <1>1, <2>2, <3>1 DEF Books, PotIsCovered, Pot, FitsU64
    <3>3. Pot(m)' = pool
      BY <2>1 DEF Pot
    <3>4. pool <= balance'[m] /\ pool <= U64Max /\ balance'[m] \in Int
      BY <1>1, <1>2, <1>3, <3>1, <3>2, ArithmeticAssumption
    <3> QED BY <2>1, <2>2, <3>3, <3>4 DEF PotIsCovered, FitsU64
  <2>6. ResolvedHasWinners(m)'
    <3>1. WinnersOf(market'[m], side) = WinnersOf(market[m], side)
      BY <2>1 DEF WinnersOf
    <3>2. WinnersOf(market[m], side) \in Nat
      BY PoolTypes
    <3> QED BY <1>2, <2>1, <3>1, <3>2 DEF ResolvedHasWinners
  <2>7. PositionsAreOwn(m)' /\ ParamsAreChecked(m)'
    BY <1>1, <2>1 DEF Books, PositionsAreOwn, ParamsAreChecked, NoPosition
  <2> QED BY <2>1, <2>3, <2>4, <2>5, <2>6, <2>7
          DEF Books, NotFinalIsUnclaimed, AbsentIsEmpty, Final
<1>5. ASSUME NEW n \in Markets \ {m} PROVE Books(n)'
  <2>1. balance[n] <= balance'[n]
    BY <1>3 DEF TypeOK, Accounts
  <2> QED BY <1>3, <2>1, BooksFrame DEF BooksBalance
<1>6. SupplyIsConstant'
  BY <1>3 DEF BooksBalance, SupplyIsConstant
<1> QED BY <1>4, <1>5, <1>6 DEF BooksBalance

LEMMA SettleBooks ==
  ASSUME TypeOK, BooksBalance, NEW m \in Markets, SettleAny(m)
  PROVE  BooksBalance'
<1>1. TypeOK' /\ market[m].status = "Open" /\ UNCHANGED position
  BY SettleType, SettleCases
<1>2. CASE VoidForLackOfWinners(m)
  BY <1>1, <1>2, VoidBooks DEF VoidForLackOfWinners
<1>3. ASSUME NEW side \in {SIDE_YES, SIDE_NO}, Resolve(m, side),
             WinnersOf(market[m], side) # 0
      PROVE  BooksBalance'
  BY <1>1, <1>3, ResolveBooks
<1> QED BY <1>2, <1>3, SettleCases

\* A claim pays one unclaimed position of its market what it is owed.
LEMMA ClaimBooks ==
  ASSUME TypeOK, BooksBalance, NEW claimant \in Bettors, NEW m \in Markets,
         NEW pm \in Markets, NEW pb \in Bettors, NEW escrow \in Markets,
         NEW dest \in Accounts, Claim(claimant, m, pm, pb, escrow, dest)
  PROVE  BooksBalance'
<1> DEFINE payout == ClaimAmount(market[m], position[pm][pb])
<1>1. TypeOK' /\ Books(m) /\ Books(pm)
  BY ClaimType DEF BooksBalance
<1>2. /\ market[m].status \in Final /\ position[pm][pb].market = m
      /\ ~position[pm][pb].claimed
  BY DEF Claim, ClaimAllowed, MayClaim
<1>3. pm = m
  BY <1>1, <1>2, KeysAssumption DEF Books, PositionsAreOwn, NoPosition
<1>4. /\ payout \in Nat
      /\ \A n \in Markets \ {m} :
           market'[n] = market[n] /\ position'[n] = position[n] /\ balance[n] <= balance'[n]
      /\ market'[m] = [market[m] EXCEPT !.total_claimed = @ + payout]
      /\ position'[m][pb] = [position[m][pb] EXCEPT !.claimed = TRUE]
      /\ \A c \in Bettors \ {pb} : position'[m][c] = position[m][c]
      /\ balance[m] <= balance'[m] + payout
      /\ SumOver(balance', Accounts) = SumOver(balance, Accounts)
  BY <1>3, ClaimEffect
<1>5. payout = Owed(m)[pb]
  BY <1>3 DEF Owed
<1> HIDE DEF payout
<1>6. /\ market[m] \in MarketType /\ balance[m] \in Nat /\ balance'[m] \in Nat
      /\ \A b \in Bettors : position[m][b] \in PositionType
  BY <1>1 DEF TypeOK, Accounts
<1>7. /\ market'[m].status = market[m].status /\ market'[m].params = market[m].params
      /\ market'[m].yes_pool = market[m].yes_pool /\ market'[m].no_pool = market[m].no_pool
      /\ market'[m].winning_side = market[m].winning_side
      /\ market'[m].total_payout_pool = market[m].total_payout_pool
      /\ market'[m].total_claimed = market[m].total_claimed + payout
  BY <1>4, <1>6 DEF MarketType
<1>8. /\ position'[m][pb].yes_amount = position[m][pb].yes_amount
      /\ position'[m][pb].no_amount = position[m][pb].no_amount
      /\ position'[m][pb].market = position[m][pb].market
      /\ position'[m][pb].owner = position[m][pb].owner
      /\ position'[m][pb].claimed = TRUE
  BY <1>4, <1>6 DEF PositionType
<1>9. \A b \in Bettors : /\ position'[m][b].yes_amount = position[m][b].yes_amount
                         /\ position'[m][b].no_amount = position[m][b].no_amount
                         /\ position'[m][b].market = position[m][b].market
                         /\ position'[m][b].owner = position[m][b].owner
  BY <1>4, <1>8
<1>10. Books(m)'
  <2>1. /\ \A side : StakesOn(m, side)' = StakesOn(m, side)
        /\ StakesOf(m)' = StakesOf(m)
    BY <1>9 DEF StakesOn, StakesOf
  <2>2. Owed(m)' = Owed(m)
    <3>1. \A b \in Bettors :
            ClaimAmount(market'[m], position'[m][b]) = ClaimAmount(market[m], position[m][b])
      BY <1>7, <1>9 DEF ClaimAmount
    <3> QED BY <3>1 DEF Owed
  <2>3. PoolsAreStakes(m)'
    BY <1>1, <1>7, <2>1 DEF Books, PoolsAreStakes
  <2>4. PotIsCovered(m)'
    <3>1. Pot(m)' = Pot(m) /\ Pot(m) \in Nat /\ market[m].total_claimed \in Nat
      BY <1>6, <1>7 DEF Pot, MarketType
    <3>2. Pot(m) <= balance[m] + market[m].total_claimed /\ FitsU64(Pot(m))
      BY <1>1 DEF Books, PotIsCovered
    <3>3. Pot(m) <= balance'[m] + market'[m].total_claimed
      BY <1>4, <1>6, <1>7, <3>1, <3>2
    <3> QED BY <3>1, <3>2, <3>3 DEF PotIsCovered
  <2>5. ClaimsAreCounted(m)'
    <3>1. Claimed(m)' = Claimed(m) \cup {pb} /\ pb \notin Claimed(m)
      BY <1>2, <1>3, <1>4, <1>8 DEF Claimed
    <3>2. IsFiniteSet(Claimed(m))
      BY AccountsFinite, FS_Subset DEF Claimed
    <3>3. \A b \in Claimed(m) \cup {pb} : Owed(m)[b] \in Nat
      BY StakeTypes DEF Claimed
    <3>4. SumOver(Owed(m), Claimed(m) \cup {pb}) = SumOver(Owed(m), Claimed(m)) + Owed(m)[pb]
      BY <3>1, <3>2, <3>3, SumAdd
    <3>5. market[m].total_claimed = SumOver(Owed(m), Claimed(m))
      BY <1>1 DEF Books, ClaimsAreCounted
    <3> QED BY <1>5, <1>7, <2>2, <3>1, <3>4, <3>5 DEF ClaimsAreCounted
  <2>6. NotFinalIsUnclaimed(m)' /\ AbsentIsEmpty(m)'
    BY <1>2, <1>7 DEF NotFinalIsUnclaimed, AbsentIsEmpty, Final
  <2>7. ResolvedHasWinners(m)'
    BY <1>1, <1>7 DEF Books, ResolvedHasWinners, WinnersOf
  <2>8. PositionsAreOwn(m)'
    <3>1. position'[m][pb].market = m /\ position'[m][pb].owner = pb
      <4>1. NoPosition.market = NoKey /\ NoKey # m
        BY KeysAssumption DEF NoPosition
      <4>2. position[m][pb].market = m /\ position[m][pb].owner = pb
        BY <1>1, <1>2, <1>3, <4>1 DEF Books, PositionsAreOwn
      <4> QED BY <1>8, <4>2
    <3> QED BY <1>1, <1>4, <3>1 DEF Books, PositionsAreOwn, NoPosition
  <2>9. ParamsAreChecked(m)'
    BY <1>1, <1>7 DEF Books, ParamsAreChecked
  <2> QED BY <2>3, <2>4, <2>5, <2>6, <2>7, <2>8, <2>9 DEF Books
<1>11. ASSUME NEW n \in Markets \ {m} PROVE Books(n)'
  BY <1>1, <1>4, BooksFrame DEF BooksBalance
<1>12. SupplyIsConstant'
  BY <1>4 DEF BooksBalance, SupplyIsConstant
<1> QED BY <1>10, <1>11, <1>12 DEF BooksBalance

\* A step that changes no market and no position, and takes nothing from an
\* escrow, keeps the books.
LEMMA LedgerFrame ==
  ASSUME TypeOK, TypeOK', BooksBalance, UNCHANGED <<market, position>>,
         \A m \in Markets : balance[m] <= balance'[m],
         SumOver(balance', Accounts) = SumOver(balance, Accounts)
  PROVE  BooksBalance'
<1>1. ASSUME NEW m \in Markets PROVE Books(m)'
  BY BooksFrame DEF BooksBalance
<1>2. SupplyIsConstant'
  BY DEF BooksBalance, SupplyIsConstant
<1> QED BY <1>1, <1>2 DEF BooksBalance

LEMMA NextBooks == TypeOK /\ BooksBalance /\ [Next]_vars => BooksBalance'
<1> SUFFICES ASSUME TypeOK, BooksBalance, [Next]_vars PROVE BooksBalance'
  OBVIOUS
<1>0. TypeOK'
  BY NextTypeOK
<1>1. ASSUME NEW creator \in Creators, NEW nonce \in Nonces, NEW params \in Params,
             CreateMarket(creator, nonce, params)
      PROVE  BooksBalance'
  BY <1>1, CreateMarketBooks
<1>2. ASSUME NEW bettor \in Bettors, NEW m \in Markets, NEW side \in 0..2,
             NEW amount \in Amounts, PlacePosition(bettor, m, side, amount)
      PROVE  BooksBalance'
  BY <1>2, InputAssumption, PlacePositionBooks
<1>3. ASSUME NEW m \in Markets, SettleAny(m)
      PROVE  BooksBalance'
  BY <1>3, SettleBooks
<1>4. ASSUME NEW claimant \in Bettors, ClaimAny(claimant)
      PROVE  BooksBalance'
  BY <1>4, PayeesAreAccounts, ClaimBooks DEF ClaimAny
<1>5. ASSUME NEW authority \in Signers, NEW m \in Markets, VoidMarket(authority, m)
      PROVE  BooksBalance'
  BY <1>0, <1>5, VoidBooks DEF VoidMarket
<1>6. ASSUME UNCHANGED <<market, position, balance>>
      PROVE  BooksBalance'
  <2>1. \A m \in Markets : balance[m] <= balance'[m]
    BY <1>6 DEF TypeOK, Accounts
  <2> QED BY <1>0, <1>6, <2>1, LedgerFrame
<1>7. ASSUME NEW bettor \in Bettors, NEW dest \in Payees, NEW amount \in Amounts,
             WalletTransfer(bettor, dest, amount)
      PROVE  BooksBalance'
  <2>1. dest \in Accounts /\ amount \in Nat
    BY InputAssumption, KeysAssumption
  <2> QED BY <1>0, <1>7, <2>1, WalletTransferEffect, LedgerFrame
<1>8. CASE Tick
  BY <1>6, <1>8 DEF Tick
<1>9. ASSUME NEW stat \in Attestable, Post(stat) PROVE BooksBalance'
  BY <1>6, <1>9 DEF Post
<1>10. CASE UNCHANGED vars
  BY <1>6, <1>10 DEF vars
<1> QED BY <1>1, <1>2, <1>3, <1>4, <1>5, <1>7, <1>8, <1>9, <1>10 DEF Next

\* The books of every market balance in every reachable state.
THEOREM BooksAlwaysBalance == Spec => []BooksBalance
BY InitTypeOK, InitBooks, NextTypeOK, NextBooks, PTL DEF Spec

-----------------------------------------------------------------------------
(* What the books imply                                                    *)

\* The winning pool is the sum of the winning stakes, and is not empty.
LEMMA ResolvedPools ==
  ASSUME TypeOK, NEW m \in Markets, Books(m), market[m].status = "Resolved"
  PROVE  LET side == market[m].winning_side
             w == OnSide(side, market[m].yes_pool, market[m].no_pool)
         IN  /\ w \in Nat \ {0}
             /\ w = SumOver(StakesOn(m, side), Bettors)
             /\ market[m].total_payout_pool \in Nat \ {0}
             /\ w <= market[m].total_payout_pool
             /\ \A b \in Bettors :
                  Owed(m)[b] = Payout(StakesOn(m, side)[b], w, market[m].total_payout_pool)
<1> DEFINE side == market[m].winning_side
           w == OnSide(side, market[m].yes_pool, market[m].no_pool)
           p == market[m].total_payout_pool
<1>1. /\ market[m].yes_pool \in Nat /\ market[m].no_pool \in Nat /\ p \in Nat
  BY DEF TypeOK, MarketType
<1>2. side \in {SIDE_YES, SIDE_NO} /\ 0 < w /\ w <= p
  BY DEF Books, ResolvedHasWinners, WinnersOf
<1>3. w \in Nat
  BY <1>1 DEF OnSide
<1>4. w = SumOver(StakesOn(m, side), Bettors)
  BY <1>2 DEF Books, PoolsAreStakes, OnSide, SIDE_YES, SIDE_NO
<1>5. \A b \in Bettors : Owed(m)[b] = Payout(StakesOn(m, side)[b], w, p)
  BY DEF Owed, ClaimAmount, StakesOn
<1> HIDE DEF w, p
<1>6. w \in Nat \ {0} /\ p \in Nat \ {0}
  BY <1>1, <1>2, <1>3
<1> QED BY <1>2, <1>4, <1>5, <1>6 DEF w, p

\* All that the bettors of a market are owed, paid or not, is in its pot:
\* rounding each share down never adds up to more than the pool.
LEMMA OwedWithinPot ==
  ASSUME TypeOK, NEW m \in Markets, Books(m)
  PROVE  SumOver(Owed(m), Bettors) <= Pot(m)
<1>1. SumOver(Owed(m), Bettors) \in Nat
  BY StakeTypes, AccountsFinite, SumType
<1>2. CASE market[m].status = "Resolved"
  <2> DEFINE side == market[m].winning_side
             w == OnSide(side, market[m].yes_pool, market[m].no_pool)
             p == market[m].total_payout_pool
             f == Owed(m)
             g == StakesOn(m, side)
             owed == SumOver(f, Bettors)
  <2>1. /\ w \in Nat \ {0} /\ p \in Nat \ {0}
        /\ w = SumOver(g, Bettors)
        /\ \A b \in Bettors : f[b] = Payout(g[b], w, p)
    BY <1>2, ResolvedPools
  <2>2. (\A b \in Bettors : f[b] \in Nat) /\ (\A b \in Bettors : g[b] \in Nat)
    BY StakeTypes
  <2>3. Pot(m) = p
    BY <1>2 DEF Pot
  <2>4. owed \in Nat
    BY <1>1
  <2> HIDE DEF w, p, f, g
  <2>5. \A b \in Bettors : w * f[b] <= p * g[b]
    BY <2>1, <2>2, PayoutBounds
  <2>6. w * owed <= p * w
    BY <2>1, <2>2, <2>5, AccountsFinite, SumScaled
  <2> HIDE DEF owed
  <2>7. w * owed <= w * p
    BY <2>1, <2>4, <2>6
  <2>8. ~(p < owed)
    <3>1. SUFFICES ASSUME p < owed PROVE FALSE
      OBVIOUS
    <3>2. p + 1 <= owed
      BY <2>1, <2>4, <3>1
    <3>3. w * (p + 1) <= w * owed
      BY <2>1, <2>4, <3>2, TimesMonotone
    <3>4. w * (p + 1) = w * p + w
      BY <2>1
    <3>5. w * owed \in Int /\ w * p \in Int
      BY <2>1, <2>4
    <3> QED BY <2>1, <2>7, <3>3, <3>4, <3>5
  <2>9. owed <= p
    BY <2>1, <2>4, <2>8
  <2> QED BY <2>3, <2>9 DEF owed, f
<1>3. CASE market[m].status # "Resolved"
  <2>1. Owed(m) = StakesOf(m)
    BY <1>3 DEF Owed, ClaimAmount, StakesOf
  <2>2. SumOver(StakesOf(m), Bettors) = Pot(m)
    BY <1>3 DEF Books, PoolsAreStakes, Pot
  <2> QED BY <1>1, <2>1, <2>2
<1> QED BY <1>2, <1>3

\* What is owed divides into what has been claimed and what has not.
LEMMA OwedSplits ==
  ASSUME TypeOK, NEW m \in Markets, Books(m)
  PROVE  /\ SumOver(Owed(m), Bettors) = market[m].total_claimed + SumOver(Owed(m), Unclaimed(m))
         /\ SumOver(Owed(m), Unclaimed(m)) \in Nat
         /\ \A b \in Unclaimed(m) : Owed(m)[b] <= SumOver(Owed(m), Unclaimed(m))
<1>1. Claimed(m) \in SUBSET Bettors /\ Bettors \ Claimed(m) = Unclaimed(m)
  BY DEF Claimed, Unclaimed
<1>2. \A b \in Bettors : Owed(m)[b] \in Nat
  BY StakeTypes
<1>3. SumOver(Owed(m), Bettors)
        = SumOver(Owed(m), Claimed(m)) + SumOver(Owed(m), Bettors \ Claimed(m))
  BY <1>1, <1>2, AccountsFinite, SumSplit
<1>4. market[m].total_claimed = SumOver(Owed(m), Claimed(m))
  BY DEF Books, ClaimsAreCounted
<1>5. IsFiniteSet(Unclaimed(m)) /\ \A b \in Unclaimed(m) : Owed(m)[b] \in Nat
  BY <1>2, AccountsFinite, FS_Subset DEF Unclaimed
<1>6. SumOver(Owed(m), Unclaimed(m)) \in Nat
  BY <1>5, SumType
<1>7. \A b \in Unclaimed(m) : Owed(m)[b] <= SumOver(Owed(m), Unclaimed(m))
  BY <1>5, SumBoundsMember
<1> QED BY <1>1, <1>3, <1>4, <1>6, <1>7

\* Shares that are each less than a unit below their exact value: what the
\* sum of the shares leaves of the pool is less than a unit for each.
LEMMA RoundingLoss ==
  ASSUME NEW W, IsFiniteSet(W), W # {},
         NEW f, \A b \in W : f[b] \in Nat,
         NEW g, \A b \in W : g[b] \in Nat,
         NEW p \in Nat \ {0}, SumOver(g, W) > 0,
         \A b \in W : p * g[b] < SumOver(g, W) * (f[b] + 1)
  PROVE  p < SumOver(f, W) + Cardinality(W)
<1> DEFINE w == SumOver(g, W)
           h == [b \in W |-> f[b] + 1]
<1>1. w \in Nat \ {0}
  BY SumType
<1>2. SumOver(h, W) = SumOver(f, W) + Cardinality(W)
  BY SumSucc
<1>3. PICK x : x \in W
  OBVIOUS
<1> DEFINE rest == W \ {x}
           gr == SumOver(g, rest)
           hr == SumOver(h, rest)
<1>4. IsFiniteSet(rest)
  BY <1>3, FS_RemoveElement
<1>5. /\ \A b \in W : h[b] \in Nat
      /\ \A b \in W : p * g[b] < w * h[b]
  BY DEF h
<1> HIDE DEF h
<1>6. w = gr + g[x] /\ SumOver(h, W) = hr + h[x]
  BY <1>3, <1>5, SumRemove
<1>7. gr \in Nat /\ hr \in Nat /\ g[x] \in Nat /\ h[x] \in Nat
  BY <1>3, <1>4, <1>5, SumType
<1>8. p * gr <= w * hr
  <2>1. \A b \in rest : p * g[b] <= w * h[b]
    <3>1. ASSUME NEW b \in rest PROVE p * g[b] <= w * h[b]
      <4>1. p * g[b] \in Int /\ w * h[b] \in Int /\ p * g[b] < w * h[b]
        BY <1>1, <1>5
      <4> QED BY <4>1
    <3> QED BY <3>1
  <2>2. (\A b \in rest : g[b] \in Nat) /\ (\A b \in rest : h[b] \in Nat)
    BY <1>5
  <2> HIDE DEF w, rest
  <2> QED BY <1>1, <1>4, <2>1, <2>2, SumScaled
<1>9. p * g[x] < w * h[x]
  BY <1>3, <1>5
<1> HIDE DEF gr, hr, w, rest
<1>10. p * w < w * (hr + h[x])
  <2>1. p * w = p * gr + p * g[x]
    BY <1>6, <1>7
  <2>2. w * (hr + h[x]) = w * hr + w * h[x]
    BY <1>1, <1>7
  <2>3. /\ p * gr \in Int /\ p * g[x] \in Int /\ w * hr \in Int /\ w * h[x] \in Int
    BY <1>1, <1>7
  <2> QED BY <1>8, <1>9, <2>1, <2>2, <2>3
<1>11. p < hr + h[x]
  <2>1. w * p < w * (hr + h[x]) /\ hr + h[x] \in Nat
    BY <1>1, <1>7, <1>10
  <2> QED BY <1>1, <2>1, TimesCancel
<1> QED BY <1>2, <1>6, <1>11

LEMMA BooksSolvent == TypeOK /\ BooksBalance => Solvent
<1> SUFFICES ASSUME TypeOK, BooksBalance, NEW m \in Markets
             PROVE  SumOver(Owed(m), Unclaimed(m)) <= balance[m]
  BY DEF Solvent
<1>1. Books(m)
  BY DEF BooksBalance
<1>2. SumOver(Owed(m), Bettors) <= Pot(m)
  BY <1>1, OwedWithinPot
<1>3. /\ SumOver(Owed(m), Bettors) = market[m].total_claimed + SumOver(Owed(m), Unclaimed(m))
      /\ SumOver(Owed(m), Unclaimed(m)) \in Nat
  BY <1>1, OwedSplits
<1>4. Pot(m) <= balance[m] + market[m].total_claimed
  BY <1>1 DEF Books, PotIsCovered
<1>5. balance[m] \in Nat /\ market[m].total_claimed \in Nat /\ Pot(m) \in Nat
  BY DEF TypeOK, Accounts, MarketType, Pot
<1> QED BY <1>2, <1>3, <1>4, <1>5

LEMMA BooksKeepStake == TypeOK /\ BooksBalance => WinnersKeepStake
<1> SUFFICES ASSUME TypeOK, BooksBalance, NEW m \in Markets, NEW b \in Bettors,
                    market[m].status = "Resolved"
             PROVE  StakesOn(m, market[m].winning_side)[b] <= Owed(m)[b]
  BY DEF WinnersKeepStake
<1> DEFINE side == market[m].winning_side
           w == OnSide(side, market[m].yes_pool, market[m].no_pool)
           p == market[m].total_payout_pool
           s == StakesOn(m, side)[b]
<1>1. w \in Nat \ {0} /\ p \in Nat \ {0} /\ w <= p /\ Owed(m)[b] = Payout(s, w, p)
  BY ResolvedPools DEF BooksBalance
<1>2. s \in Nat
  BY StakeTypes
<1> HIDE DEF w, p, s
<1>3. s <= Payout(s, w, p)
  BY <1>1, <1>2, PayoutBounds
<1> QED BY <1>1, <1>3 DEF s

\* Once all winners of a resolved market are paid, less than a unit for each of
\* them is left of what they shared.
LEMMA BooksDust == TypeOK /\ BooksBalance => DustBelowWinners
<1> SUFFICES ASSUME TypeOK, BooksBalance, NEW m \in Markets,
                    market[m].status = "Resolved", Winners(m) \cap Unclaimed(m) = {}
             PROVE  market[m].total_payout_pool - market[m].total_claimed
                      < Cardinality(Winners(m))
  BY DEF DustBelowWinners
<1> DEFINE side == market[m].winning_side
           w == OnSide(side, market[m].yes_pool, market[m].no_pool)
           p == market[m].total_payout_pool
           f == Owed(m)
           g == StakesOn(m, side)
           W == Winners(m)
<1>1. Books(m)
  BY DEF BooksBalance
<1>2. /\ w \in Nat \ {0} /\ p \in Nat \ {0}
      /\ w = SumOver(g, Bettors)
      /\ \A b \in Bettors : f[b] = Payout(g[b], w, p)
  BY <1>1, ResolvedPools
<1>3. (\A b \in Bettors : f[b] \in Nat) /\ (\A b \in Bettors : g[b] \in Nat)
  BY StakeTypes
<1>4. W = {b \in Bettors : g[b] > 0} /\ W \in SUBSET Bettors /\ W \subseteq Claimed(m)
  BY DEF Winners, Unclaimed, Claimed
<1>5. market[m].total_claimed = SumOver(f, Claimed(m)) /\ market[m].total_claimed \in Nat
  BY <1>1 DEF Books, ClaimsAreCounted, TypeOK, MarketType
<1>6. Claimed(m) \in SUBSET Bettors
  BY DEF Claimed
<1> DEFINE C == Claimed(m)
<1> HIDE DEF w, p, f, g, W, C
<1>7. IsFiniteSet(Bettors) /\ IsFiniteSet(W) /\ IsFiniteSet(C)
  BY <1>4, <1>6, AccountsFinite, FS_Subset DEF C
<1>8. \A b \in Bettors \ W : f[b] = 0 /\ g[b] = 0
  <2>1. Payout(0, w, p) = 0
    BY <1>2, PayoutMonotone
  <2> QED BY <1>2, <1>3, <1>4, <2>1
<1>9. SumOver(g, W) = w
  <2>1. SumOver(g, Bettors) = SumOver(g, W) + SumOver(g, Bettors \ W)
    BY <1>3, <1>4, <1>7, SumSplit
  <2>2. SumOver(g, Bettors \ W) = 0
    BY <1>8, SumZero
  <2>3. SumOver(g, W) \in Nat
    BY <1>3, <1>4, <1>7, SumType
  <2> QED BY <1>2, <2>1, <2>2, <2>3
<1>10. SumOver(f, C) = SumOver(f, W)
  <2>1. W \in SUBSET C /\ \A b \in C : f[b] \in Nat
    BY <1>3, <1>4, <1>6 DEF C
  <2>2. SumOver(f, C) = SumOver(f, W) + SumOver(f, C \ W)
    BY <1>7, <2>1, SumSplit
  <2>3. SumOver(f, C \ W) = 0
    BY <1>6, <1>8, SumZero DEF C
  <2>4. SumOver(f, W) \in Nat
    BY <1>3, <1>4, <1>7, SumType
  <2> QED BY <2>2, <2>3, <2>4
<1>11. W # {}
  BY <1>2, <1>9, SumEmpty
<1>12. ASSUME NEW b \in W
       PROVE  p * g[b] < SumOver(g, W) * (f[b] + 1)
  <2>1. b \in Bettors /\ g[b] \in Nat /\ f[b] = Payout(g[b], w, p)
    BY <1>2, <1>3, <1>4
  <2>2. p * g[b] < w * (Payout(g[b], w, p) + 1)
    BY <1>2, <2>1, PayoutBounds
  <2> QED BY <1>9, <2>1, <2>2
<1>13. p < SumOver(f, W) + Cardinality(W)
  <2>1. (\A b \in W : f[b] \in Nat) /\ (\A b \in W : g[b] \in Nat)
    BY <1>3, <1>4
  <2>2. SumOver(g, W) > 0
    BY <1>2, <1>9
  <2> QED BY <1>2, <1>7, <1>11, <1>12, <2>1, <2>2, RoundingLoss
<1>14. Cardinality(W) \in Nat
  BY <1>7, FS_CardinalityType
<1>15. p - market[m].total_claimed < Cardinality(W)
  BY <1>2, <1>5, <1>10, <1>13, <1>14 DEF C
<1> QED BY <1>15 DEF p, W

\* A position without stakes is owed nothing.
LEMMA NothingOwedForNoStake ==
  ASSUME TypeOK, NEW m \in Markets, Books(m), NEW b \in Bettors,
         position[m][b].yes_amount = 0, position[m][b].no_amount = 0
  PROVE  Owed(m)[b] = 0
<1> DEFINE side == market[m].winning_side
           w == OnSide(side, market[m].yes_pool, market[m].no_pool)
           p == market[m].total_payout_pool
<1>1. CASE market[m].status = "Resolved"
  <2>1. StakesOn(m, side)[b] = 0
    BY DEF StakesOn, OnSide
  <2>2. /\ w \in Nat \ {0} /\ p \in Nat \ {0}
        /\ Owed(m)[b] = Payout(StakesOn(m, side)[b], w, p)
    BY <1>1, ResolvedPools
  <2> HIDE DEF w, p
  <2>3. Payout(0, w, p) = 0
    BY <2>2, PayoutMonotone
  <2> QED BY <2>1, <2>2, <2>3
<1>2. CASE market[m].status # "Resolved"
  BY <1>2 DEF Owed, ClaimAmount
<1> QED BY <1>1, <1>2

LEMMA BooksNeverRefuse == TypeOK /\ BooksBalance => NobodyIsRefused
<1> SUFFICES ASSUME TypeOK, BooksBalance, NEW m \in Markets
             PROVE  /\ market[m].status = "Open" =>
                         \A side \in {SIDE_YES, SIDE_NO} :
                           /\ SplitOk(WinnersOf(market[m], side), LosersOf(market[m], side),
                                      market[m].params.fee_bps)
                           /\ CanPay(m, Fee(LosersOf(market[m], side),
                                            market[m].params.fee_bps))
                    /\ market[m].status \in Final =>
                         \A b \in Unclaimed(m) :
                           Owed(m)[b] > 0 => ClaimAllowed(b, m, m, b, m)
  BY DEF NobodyIsRefused
<1>1. Books(m)
  BY DEF BooksBalance
<1>2. /\ market[m].total_claimed \in Nat /\ balance[m] \in Nat /\ Pot(m) \in Nat
      /\ market[m].yes_pool \in Nat /\ market[m].no_pool \in Nat
  BY DEF TypeOK, Accounts, MarketType, Pot
<1>3. ASSUME market[m].status = "Open", NEW side \in {SIDE_YES, SIDE_NO}
      PROVE  /\ SplitOk(WinnersOf(market[m], side), LosersOf(market[m], side),
                        market[m].params.fee_bps)
             /\ CanPay(m, Fee(LosersOf(market[m], side), market[m].params.fee_bps))
  <2>1. /\ SplitOk(WinnersOf(market[m], side), LosersOf(market[m], side),
                   market[m].params.fee_bps)
        /\ PoolOf(m, side) \in Nat /\ FeeOf(m, side) \in Nat
        /\ PoolOf(m, side) + FeeOf(m, side) = market[m].yes_pool + market[m].no_pool
    BY <1>1, <1>3, SplitOfBooks
  <2>2. market[m].total_claimed = 0
    BY <1>1, <1>3, NothingClaimedYet DEF Final
  <2>3. market[m].yes_pool + market[m].no_pool <= balance[m]
    BY <1>1, <1>2, <1>3, <2>2 DEF Books, PotIsCovered, Pot
  <2>4. FeeOf(m, side) <= balance[m]
    BY <1>2, <2>1, <2>3
  <2>5. CanPay(m, FeeOf(m, side))
    BY <1>2, <2>1, <2>4 DEF CanPay
  <2> QED BY <2>1, <2>5 DEF FeeOf
<1>4. ASSUME market[m].status \in Final, NEW b \in Unclaimed(m), Owed(m)[b] > 0
      PROVE  ClaimAllowed(b, m, m, b, m)
  <2>1. /\ SumOver(Owed(m), Bettors) = market[m].total_claimed + SumOver(Owed(m), Unclaimed(m))
        /\ SumOver(Owed(m), Unclaimed(m)) \in Nat
        /\ Owed(m)[b] <= SumOver(Owed(m), Unclaimed(m))
    BY <1>1, OwedSplits
  <2>2. SumOver(Owed(m), Bettors) <= Pot(m) /\ Pot(m) <= U64Max
    BY <1>1, OwedWithinPot DEF Books, PotIsCovered, FitsU64
  <2>3. Owed(m)[b] \in Nat /\ b \in Bettors /\ ~position[m][b].claimed
    BY StakeTypes DEF Unclaimed
  <2>4. FitsU64(Owed(m)[b]) /\ FitsU64(market[m].total_claimed + Owed(m)[b])
    BY <1>2, <2>1, <2>2, <2>3, ArithmeticAssumption DEF FitsU64
  <2>5. CanPay(m, Owed(m)[b])
    <3>1. SumOver(Owed(m), Unclaimed(m)) <= balance[m]
      BY BooksSolvent DEF Solvent
    <3> QED BY <1>2, <2>1, <2>3, <3>1 DEF CanPay
  <2>6. MayClaim(b, m, position[m][b])
    <3>1. position[m][b] # NoPosition
      <4>1. SUFFICES ASSUME position[m][b] = NoPosition PROVE FALSE
        OBVIOUS
      <4>2. position[m][b].yes_amount = 0 /\ position[m][b].no_amount = 0
        BY <4>1 DEF NoPosition
      <4>3. Owed(m)[b] = 0
        BY <1>1, <2>3, <4>2, NothingOwedForNoStake
      <4> QED BY <1>4, <4>3
    <3>2. position[m][b].market = m /\ position[m][b].owner = b
      BY <1>1, <2>3, <3>1 DEF Books, PositionsAreOwn
    <3> QED BY <2>3, <3>2 DEF MayClaim
  <2>7. Owed(m)[b] = ClaimAmount(market[m], position[m][b])
    BY <2>3 DEF Owed
  <2> QED BY <1>4, <2>4, <2>5, <2>6, <2>7 DEF ClaimAllowed
<1> QED BY <1>3, <1>4

\* At every moment each escrow holds enough for every claim not yet paid.
THEOREM AlwaysSolvent == Spec => []Solvent
BY TypeCorrect, BooksAlwaysBalance, BooksSolvent, PTL

\* No winner of a resolved market is owed less than what it staked on it.
THEOREM WinnersAlwaysKeepStake == Spec => []WinnersKeepStake
BY TypeCorrect, BooksAlwaysBalance, BooksKeepStake, PTL

\* Rounding strands less than a unit for each winner, in whatever order they
\* claim.
THEOREM DustAlwaysBelowWinners == Spec => []DustBelowWinners
BY TypeCorrect, BooksAlwaysBalance, BooksDust, PTL

\* In every state of the ledger a market can be settled for either side while it is
\* open, and once it is final each bettor it owes something can claim at once.
THEOREM NobodyIsEverRefused == Spec => []NobodyIsRefused
BY TypeCorrect, BooksAlwaysBalance, BooksNeverRefuse, PTL

-----------------------------------------------------------------------------
(* What a step may never do                                                *)

\* Which markets and positions each kind of step can change.
LEMMA StepCases ==
  ASSUME TypeOK, BooksBalance, [Next]_vars
  PROVE  \/ \E creator \in Creators, nonce \in Nonces, params \in Params :
              CreateMarket(creator, nonce, params)
         \/ \E bettor \in Bettors, m \in Markets, side \in 0..2, amount \in Amounts :
              PlacePosition(bettor, m, side, amount)
         \/ \E m \in Markets : SettleAny(m)
         \/ \E claimant \in Bettors, m \in Markets, pb \in Bettors, dest \in Accounts :
              Claim(claimant, m, m, pb, m, dest)
         \/ \E authority \in Signers, m \in Markets : VoidMarket(authority, m)
         \/ /\ UNCHANGED <<market, position>>
            /\ \A m \in Markets : balance[m] <= balance'[m]
<1>1. ASSUME NEW claimant \in Bettors, ClaimAny(claimant)
      PROVE  \E m \in Markets, pb \in Bettors, dest \in Accounts :
               Claim(claimant, m, m, pb, m, dest)
  <2>1. PICK m \in Markets, pm \in Markets, pb \in Bettors, escrow \in Markets,
             dest \in {claimant} \cup Payees : Claim(claimant, m, pm, pb, escrow, dest)
    BY <1>1 DEF ClaimAny
  <2>2. position[pm][pb].market = m /\ escrow = m
    BY <2>1 DEF Claim, ClaimAllowed, MayClaim
  <2>3. pm = m
    BY <2>2, KeysAssumption DEF BooksBalance, Books, PositionsAreOwn, NoPosition
  <2>4. dest \in Accounts
    BY PayeesAreAccounts
  <2> QED BY <2>1, <2>2, <2>3, <2>4
<1>2. ASSUME NEW bettor \in Bettors, NEW dest \in Payees, NEW amount \in Amounts,
             WalletTransfer(bettor, dest, amount)
      PROVE  UNCHANGED <<market, position>> /\ \A m \in Markets : balance[m] <= balance'[m]
  <2>1. dest \in Accounts /\ amount \in Nat
    BY InputAssumption, KeysAssumption
  <2> QED BY <1>2, <2>1, WalletTransferEffect
<1>3. ASSUME UNCHANGED <<market, position, balance>>
      PROVE  UNCHANGED <<market, position>> /\ \A m \in Markets : balance[m] <= balance'[m]
  BY <1>3 DEF TypeOK, Accounts
<1>4. CASE Tick
  BY <1>3, <1>4 DEF Tick
<1>5. CASE \E stat \in Attestable : Post(stat)
  BY <1>3, <1>5 DEF Post
<1>6. CASE UNCHANGED vars
  BY <1>3, <1>6 DEF vars
<1>7. CASE \E claimant \in Bettors : ClaimAny(claimant)
  BY <1>1, <1>7
<1>8. CASE \E bettor \in Bettors, dest \in Payees, amount \in Amounts :
             WalletTransfer(bettor, dest, amount)
  BY <1>2, <1>8
<1> QED BY <1>4, <1>5, <1>6, <1>7, <1>8 DEF Next

LEMMA NextFinal == TypeOK /\ BooksBalance /\ [Next]_vars => FinalStep
<1> SUFFICES ASSUME TypeOK, BooksBalance, [Next]_vars,
                    NEW m \in Markets, market[m].status \in Final
             PROVE  /\ market'[m] = [market[m] EXCEPT !.total_claimed = market'[m].total_claimed]
                    /\ \A b \in Bettors :
                         \/ position'[m][b] = position[m][b]
                         \/ position'[m][b] = [position[m][b] EXCEPT !.claimed = TRUE]
  BY DEF FinalStep
<1>0. market[m] \in MarketType
  BY DEF TypeOK
<1>1. ASSUME market'[m] = market[m], position'[m] = position[m]
      PROVE  /\ market'[m] = [market[m] EXCEPT !.total_claimed = market'[m].total_claimed]
             /\ \A b \in Bettors :
                  \/ position'[m][b] = position[m][b]
                  \/ position'[m][b] = [position[m][b] EXCEPT !.claimed = TRUE]
  BY <1>0, <1>1 DEF MarketType
<1>2. ASSUME NEW creator \in Creators, NEW nonce \in Nonces, NEW params \in Params,
             CreateMarket(creator, nonce, params)
      PROVE  market'[m] = market[m] /\ position'[m] = position[m]
  BY <1>2 DEF CreateMarket, Final, TypeOK
<1>3. ASSUME NEW bettor \in Bettors, NEW n \in Markets, NEW side \in 0..2, NEW amount \in Nat,
             PlacePosition(bettor, n, side, amount)
      PROVE  market'[m] = market[m] /\ position'[m] = position[m]
  <2>1. m # n
    BY <1>3 DEF PlacePosition, Final
  <2>2. PICK yes \in Nat, no \in Nat : StakeAdded(bettor, n, yes, no)
    BY <1>3, PlacePositionEffect
  <2> QED BY <2>1, <2>2 DEF StakeAdded
<1>4. ASSUME NEW n \in Markets, SettleAny(n)
      PROVE  market'[m] = market[m] /\ position'[m] = position[m]
  <2>1. m # n /\ UNCHANGED position
    BY <1>4, SettleCases DEF Final
  <2>2. CASE VoidForLackOfWinners(n)
    BY <2>1, <2>2, VoidEffect DEF VoidForLackOfWinners
  <2>3. ASSUME NEW side \in {SIDE_YES, SIDE_NO}, Resolve(n, side),
               SplitOk(WinnersOf(market[n], side), LosersOf(market[n], side),
                       market[n].params.fee_bps)
        PROVE  market'[m] = market[m]
    BY <2>1, <2>3, ResolveEffect
  <2> QED BY <1>4, <2>1, <2>2, <2>3, SettleCases
<1>5. ASSUME NEW authority \in Signers, NEW n \in Markets, VoidMarket(authority, n)
      PROVE  market'[m] = market[m] /\ position'[m] = position[m]
  <2>1. m # n /\ MakeVoid(n) /\ UNCHANGED position
    BY <1>5 DEF VoidMarket, Final
  <2> QED BY <2>1, VoidEffect
<1>6. ASSUME NEW claimant \in Bettors, NEW n \in Markets, NEW pb \in Bettors,
             NEW dest \in Accounts, Claim(claimant, n, n, pb, n, dest)
      PROVE  /\ market'[m] = [market[m] EXCEPT !.total_claimed = market'[m].total_claimed]
             /\ \A b \in Bettors :
                  \/ position'[m][b] = position[m][b]
                  \/ position'[m][b] = [position[m][b] EXCEPT !.claimed = TRUE]
  <2> DEFINE payout == ClaimAmount(market[n], position[n][pb])
  <2>1. /\ \A k \in Markets \ {n} : market'[k] = market[k] /\ position'[k] = position[k]
        /\ market'[n] = [market[n] EXCEPT !.total_claimed = @ + payout]
        /\ position'[n][pb] = [position[n][pb] EXCEPT !.claimed = TRUE]
        /\ \A c \in Bettors \ {pb} : position'[n][c] = position[n][c]
    BY <1>6, ClaimEffect
  <2> HIDE DEF payout
  <2>2. CASE m # n
    BY <1>1, <2>1, <2>2
  <2>3. CASE m = n
    <3>1. market'[m] = [market[m] EXCEPT !.total_claimed = market'[m].total_claimed]
      BY <1>0, <2>1, <2>3 DEF MarketType
    <3> QED BY <2>1, <2>3, <3>1
  <2> QED BY <2>2, <2>3
<1> QED BY <1>1, <1>2, <1>3, <1>4, <1>5, <1>6, StepCases, InputAssumption

\* Nothing about a final market changes but what has been claimed from it.
THEOREM FinalStaysFinal == Spec => FinalIsFinal
<1>1. TypeOK /\ BooksBalance /\ [Next]_vars => [FinalStep]_vars
  BY NextFinal
<1> QED BY <1>1, TypeCorrect, BooksAlwaysBalance, PTL DEF Spec, FinalIsFinal

LEMMA NextStake == TypeOK /\ BooksBalance /\ [Next]_vars => StakeStep
<1> SUFFICES ASSUME TypeOK, BooksBalance, [Next]_vars,
                    NEW m \in Markets, now >= market[m].params.close_ts
             PROVE  market'[m].yes_pool = market[m].yes_pool
                    /\ market'[m].no_pool = market[m].no_pool
  BY DEF StakeStep
<1>0. market[m] \in MarketType /\ now \in Int /\ market[m].params.close_ts \in Int
  <2>1. market[m] \in MarketType /\ now \in Int
    BY InputAssumption DEF TypeOK
  <2>2. market[m].params \in Params
    BY <2>1 DEF MarketType
  <2> QED BY <2>1, <2>2, ParamsFields
<1>1. ASSUME NEW creator \in Creators, NEW nonce \in Nonces, NEW params \in Params,
             CreateMarket(creator, nonce, params)
      PROVE  market'[m].yes_pool = market[m].yes_pool /\ market'[m].no_pool = market[m].no_pool
  <2> DEFINE n == <<creator, nonce>>
  <2>1. /\ n \in Markets /\ market[n].status = "Absent"
        /\ market' = [market EXCEPT ![n] = NewMarket("Open", params)]
    BY <1>1 DEF CreateMarket, Markets
  <2> HIDE DEF n
  <2>2. market[n].yes_pool = 0 /\ market[n].no_pool = 0
    BY <2>1 DEF BooksBalance, Books, AbsentIsEmpty
  <2>3. CASE m = n
    BY <2>1, <2>2, <2>3 DEF NewMarket, TypeOK
  <2>4. CASE m # n
    BY <2>1, <2>4 DEF TypeOK
  <2> QED BY <2>3, <2>4
<1>2. ASSUME NEW bettor \in Bettors, NEW n \in Markets, NEW side \in 0..2, NEW amount \in Nat,
             PlacePosition(bettor, n, side, amount)
      PROVE  market'[m] = market[m]
  <2>1. m # n
    BY <1>0, <1>2 DEF PlacePosition, BettingOpen
  <2>2. PICK yes \in Nat, no \in Nat : StakeAdded(bettor, n, yes, no)
    BY <1>2, PlacePositionEffect
  <2> QED BY <2>1, <2>2 DEF StakeAdded
<1>3. ASSUME NEW n \in Markets, MakeVoid(n)
      PROVE  market'[m].yes_pool = market[m].yes_pool /\ market'[m].no_pool = market[m].no_pool
  <2>1. /\ \A k \in Markets \ {n} : market'[k] = market[k]
        /\ market'[n] =
             [market[n] EXCEPT !.status = "Voided", !.winning_side = SIDE_NONE, !.settle_ts = now]
    BY <1>3, VoidEffect
  <2>2. CASE m = n
    BY <1>0, <2>1, <2>2 DEF MarketType
  <2> QED BY <2>1, <2>2
<1>4. ASSUME NEW n \in Markets, SettleAny(n)
      PROVE  market'[m].yes_pool = market[m].yes_pool /\ market'[m].no_pool = market[m].no_pool
  <2>1. CASE VoidForLackOfWinners(n)
    BY <1>3, <2>1 DEF VoidForLackOfWinners
  <2>2. ASSUME NEW side \in {SIDE_YES, SIDE_NO}, Resolve(n, side),
               SplitOk(WinnersOf(market[n], side), LosersOf(market[n], side),
                       market[n].params.fee_bps)
        PROVE  market'[m].yes_pool = market[m].yes_pool /\ market'[m].no_pool = market[m].no_pool
    <3>1. /\ \A k \in Markets \ {n} : market'[k] = market[k]
          /\ market'[n] = [market[n] EXCEPT
               !.status = "Resolved", !.winning_side = side, !.settle_ts = now,
               !.fee_collected = FeeOf(n, side), !.total_payout_pool = PoolOf(n, side)]
      BY <2>2, ResolveEffect
    <3>2. CASE m = n
      BY <1>0, <3>1, <3>2 DEF MarketType
    <3> QED BY <3>1, <3>2
  <2> QED BY <1>4, <2>1, <2>2, SettleCases
<1>5. ASSUME NEW claimant \in Bettors, NEW n \in Markets, NEW pb \in Bettors,
             NEW dest \in Accounts, Claim(claimant, n, n, pb, n, dest)
      PROVE  market'[m].yes_pool = market[m].yes_pool /\ market'[m].no_pool = market[m].no_pool
  <2> DEFINE payout == ClaimAmount(market[n], position[n][pb])
  <2>1. /\ \A k \in Markets \ {n} : market'[k] = market[k]
        /\ market'[n] = [market[n] EXCEPT !.total_claimed = @ + payout]
        /\ position'[n][pb] = [position[n][pb] EXCEPT !.claimed = TRUE]
    BY <1>5, ClaimEffect
  <2> HIDE DEF payout
  <2>2. CASE m = n
    BY <1>0, <2>1, <2>2 DEF MarketType
  <2> QED BY <2>1, <2>2
<1> QED BY <1>1, <1>2, <1>3, <1>4, <1>5, StepCases, InputAssumption DEF VoidMarket

\* The pools of a market are frozen from the moment it can be settled.
THEOREM NoLateStake == Spec => NoStakeOnceSettleable
<1>1. TypeOK /\ BooksBalance /\ [Next]_vars => [StakeStep]_vars
  BY NextStake
<1> QED BY <1>1, TypeCorrect, BooksAlwaysBalance, PTL DEF Spec, NoStakeOnceSettleable

\* What a claim on a market's own position takes from the escrows.
LEMMA OwnClaimPays ==
  ASSUME TypeOK, NEW claimant \in Bettors, NEW n \in Markets, NEW pb \in Bettors,
         NEW dest \in Accounts, Claim(claimant, n, n, pb, n, dest)
  PROVE  /\ \A k \in Markets \ {n} : balance[k] <= balance'[k]
         /\ dest # n =>
              balance'[n] = balance[n] - ClaimAmount(market[n], position[n][pb])
         /\ ClaimAmount(market[n], position[n][pb]) \in Nat
<1> DEFINE payout == ClaimAmount(market[n], position[n][pb])
<1>1. payout \in Nat
  BY ClaimEffect, ZenonT(60)
<1>2. CanPay(n, payout) /\ Transfer(n, dest, payout)
  BY DEF Claim, ClaimAllowed
<1>3. balance \in [Accounts -> Nat] /\ \A k \in Markets : k \in Accounts
  BY DEF TypeOK, Accounts
<1> HIDE DEF payout
<1>4. /\ \A k \in Markets \ {n} : balance[k] <= balance'[k]
      /\ dest # n => balance'[n] = balance[n] - payout
  BY <1>1, <1>2, <1>3, TransferMoves
<1> QED BY <1>1, <1>4 DEF payout

LEMMA NextEscrow == TypeOK /\ BooksBalance /\ [Next]_vars => EscrowStep
<1> DEFINE paid(m) == balance[m] - balance'[m]
           Lawful(m) ==
             \/ /\ market[m].status = "Open" /\ market'[m].status = "Resolved"
                /\ paid(m) = market'[m].fee_collected
                /\ balance'[Treasury] = balance[Treasury] + paid(m)
             \/ \E b \in Unclaimed(m) :
                  /\ paid(m) = Owed(m)[b]
                  /\ position' = [position EXCEPT ![m][b].claimed = TRUE]
<1> SUFFICES ASSUME TypeOK, BooksBalance, [Next]_vars, NEW m \in Markets, paid(m) > 0
             PROVE  Lawful(m)
  BY DEF EscrowStep
<1>0. market[m] \in MarketType /\ balance[m] \in Nat /\ TypeOK'
  BY NextTypeOK DEF TypeOK, Accounts
<1>1. balance'[m] \in Nat
  BY <1>0 DEF TypeOK, Accounts
<1>2. ~(balance[m] <= balance'[m])
  BY <1>0, <1>1
<1>3. CASE UNCHANGED balance
  BY <1>0, <1>2, <1>3
<1>4. ASSUME NEW bettor \in Bettors, NEW n \in Markets, NEW side \in 0..2, NEW amount \in Nat,
             PlacePosition(bettor, n, side, amount)
      PROVE  balance[m] <= balance'[m]
  <2>1. /\ CanPay(bettor, amount) /\ Transfer(bettor, n, amount)
        /\ bettor \in Accounts /\ n \in Accounts /\ m \in Accounts \ {bettor}
        /\ balance \in [Accounts -> Nat]
    BY <1>4, KeysAssumption DEF PlacePosition, Accounts, TypeOK
  <2> QED BY <2>1, TransferMoves
<1>5. ASSUME NEW n \in Markets, SettleAny(n)
      PROVE  Lawful(m)
  <2>1. CASE VoidForLackOfWinners(n)
    BY <1>3, <2>1 DEF VoidForLackOfWinners
  <2>2. ASSUME NEW side \in {SIDE_YES, SIDE_NO}, Resolve(n, side),
               SplitOk(WinnersOf(market[n], side), LosersOf(market[n], side),
                       market[n].params.fee_bps)
        PROVE  Lawful(m)
    <3>1. /\ \A k \in Markets \ {n} : balance'[k] = balance[k]
          /\ market'[n] = [market[n] EXCEPT
               !.status = "Resolved", !.winning_side = side, !.settle_ts = now,
               !.fee_collected = FeeOf(n, side), !.total_payout_pool = PoolOf(n, side)]
          /\ FeeOf(n, side) \in Nat
          /\ balance'[n] = balance[n] - FeeOf(n, side)
          /\ balance'[Treasury] = balance[Treasury] + FeeOf(n, side)
      BY <2>2, ResolveEffect
    <3>2. m = n
      BY <1>0, <1>2, <3>1
    <3>3. market'[m].status = "Resolved" /\ market'[m].fee_collected = FeeOf(n, side)
      BY <1>0, <3>1, <3>2 DEF MarketType
    <3>4. paid(m) = FeeOf(n, side)
      BY <1>0, <3>1, <3>2
    <3>5. market[m].status = "Open"
      BY <1>5, <3>2, SettleCases
    <3> QED BY <3>1, <3>3, <3>4, <3>5
  <2> QED BY <1>5, <2>1, <2>2, SettleCases
<1>6. ASSUME NEW claimant \in Bettors, NEW n \in Markets, NEW pb \in Bettors,
             NEW dest \in Accounts, Claim(claimant, n, n, pb, n, dest)
      PROVE  Lawful(m)
  <2> DEFINE payout == ClaimAmount(market[n], position[n][pb])
  <2>1. /\ \A k \in Markets \ {n} : balance[k] <= balance'[k]
        /\ dest # n => balance'[n] = balance[n] - payout
        /\ payout \in Nat
    BY <1>6, OwnClaimPays
  <2>2. /\ ~position[n][pb].claimed /\ Transfer(n, dest, payout) /\ CanPay(n, payout)
        /\ position' = [position EXCEPT ![n][pb].claimed = TRUE]
    BY <1>6 DEF Claim, ClaimAllowed, MayClaim
  <2>3. payout = Owed(n)[pb]
    BY DEF Owed
  <2> HIDE DEF payout
  <2>4. m = n
    BY <1>2, <2>1
  <2>5. dest # n
    <3>1. ASSUME dest = n PROVE balance' = balance
      <4>1. n \in Accounts /\ balance \in [Accounts -> Nat]
        BY DEF Accounts, TypeOK
      <4> QED BY <2>1, <2>2, <3>1, <4>1, TransferMoves
    <3> QED BY <1>0, <1>2, <2>4, <3>1
  <2>6. paid(m) = payout
    BY <1>0, <2>1, <2>4, <2>5
  <2> QED BY <2>2, <2>3, <2>4, <2>6 DEF Unclaimed
<1>7. CASE \E creator \in Creators, nonce \in Nonces, params \in Params :
             CreateMarket(creator, nonce, params)
  BY <1>3, <1>7 DEF CreateMarket
<1>8. CASE \E authority \in Signers, n \in Markets : VoidMarket(authority, n)
  BY <1>3, <1>8 DEF VoidMarket
<1> QED BY <1>2, <1>4, <1>5, <1>6, <1>7, <1>8, StepCases, InputAssumption

\* An escrow pays the fee once and each position its entitlement once.
THEOREM EscrowIsGuarded == Spec => EscrowPaysOnlyWhatIsOwed
<1>1. TypeOK /\ BooksBalance /\ [Next]_vars => [EscrowStep]_vars
  BY NextEscrow
<1> QED BY <1>1, TypeCorrect, BooksAlwaysBalance, PTL DEF Spec, EscrowPaysOnlyWhatIsOwed

-----------------------------------------------------------------------------
(* The outcome                                                             *)

\* What has been attested stays attested.
LEMMA PostedGrows ==
  ASSUME [Next]_vars
  PROVE  posted \subseteq posted'
<1>1. CASE \E creator \in Creators, nonce \in Nonces, params \in Params :
             CreateMarket(creator, nonce, params)
  BY <1>1 DEF CreateMarket
<1>2. CASE \E bettor \in Bettors, m \in Markets, side \in 0..2, amount \in Amounts :
             PlacePosition(bettor, m, side, amount)
  BY <1>2 DEF PlacePosition
<1>3. CASE \E m \in Markets : SettleAny(m)
  BY <1>3, SettleCases
<1>4. CASE \E claimant \in Bettors : ClaimAny(claimant)
  BY <1>4 DEF ClaimAny, Claim
<1>5. CASE \E authority \in Signers, m \in Markets : VoidMarket(authority, m)
  BY <1>5 DEF VoidMarket
<1>6. CASE Tick
  BY <1>6 DEF Tick
<1>7. CASE \E stat \in Attestable : Post(stat)
  BY <1>7 DEF Post
<1>8. CASE \E bettor \in Bettors, dest \in Payees, amount \in Amounts :
             WalletTransfer(bettor, dest, amount)
  BY <1>8 DEF WalletTransfer
<1>9. CASE UNCHANGED vars
  BY <1>9 DEF vars
<1> QED BY <1>1, <1>2, <1>3, <1>4, <1>5, <1>6, <1>7, <1>8, <1>9 DEF Next

\* A proof of an outcome is not undone by further postings.
LEMMA ProvenGrows ==
  ASSUME NEW p, NEW side, NEW S, NEW T, S \subseteq T, OutcomeProven(p, side, S)
  PROVE  OutcomeProven(p, side, T)
BY DEF OutcomeProven

\* A market whose stats an authentic proof names has the outcome it proves.
LEMMA SettleProves ==
  ASSUME TypeOK, NEW m \in Markets, Books(m), NEW a, NEW b, NEW op,
         market[m].status = "Open",
         BoundToMarket(market[m].params, a, b, op), Authentic(a, b),
         NEW side, side = IF YesHolds(market[m].params, a, b, op) THEN SIDE_YES ELSE SIDE_NO
  PROVE  OutcomeProven(market[m].params, side, posted)
<1> DEFINE p == market[m].params
<1>1. (p.stat_key2 # NoStat) = (p.op # NoOp)
  BY DEF Books, ParamsAreChecked
<1>2. /\ a \in posted /\ b \in posted \cup {NoStat}
      /\ a.fixture_id = p.fixture_id /\ a.key = p.stat_key /\ a.period = p.period
      /\ op = p.op
      /\ p.stat_key2 = NoStat => b = NoStat
  BY <1>1 DEF BoundToMarket, Authentic
<1>3. p.stat_key2 # NoStat =>
        /\ b # NoStat
        /\ b.fixture_id = p.fixture_id /\ b.key = p.stat_key2 /\ b.period = p.period
        /\ OneRoot => b.seq = a.seq
  BY <1>1, <1>2 DEF BoundToMarket, Authentic
<1> HIDE DEF p
<1>4. side = IF Holds(Combine(p.op, a.value, IF b = NoStat THEN 0 ELSE b.value),
                      p.comparison, p.threshold)
               THEN SIDE_YES ELSE SIDE_NO
  BY <1>2 DEF YesHolds, p
<1>5. OutcomeProven(p, side, posted)
  BY <1>2, <1>3, <1>4 DEF OutcomeProven
<1> QED BY <1>5 DEF p

\* What is no settlement resolves no market.
LEMMA OthersResolveNone ==
  ASSUME TypeOK, BooksBalance, NEW m \in Markets, market[m].status # "Resolved",
         \/ \E creator \in Creators, nonce \in Nonces, params \in Params :
              CreateMarket(creator, nonce, params)
         \/ \E bettor \in Bettors, n \in Markets, side \in 0..2, amount \in Amounts :
              PlacePosition(bettor, n, side, amount)
         \/ \E claimant \in Bettors, n \in Markets, pb \in Bettors, dest \in Accounts :
              Claim(claimant, n, n, pb, n, dest)
         \/ \E authority \in Signers, n \in Markets : VoidMarket(authority, n)
         \/ UNCHANGED market
  PROVE  market'[m].status # "Resolved"
<1>1. market[m] \in MarketType
  BY DEF TypeOK
<1>2. ASSUME NEW creator \in Creators, NEW nonce \in Nonces, NEW params \in Params,
             CreateMarket(creator, nonce, params)
      PROVE  market'[m].status # "Resolved"
  <2>1. market' = [market EXCEPT ![<<creator, nonce>>] = NewMarket("Open", params)]
    BY <1>2 DEF CreateMarket
  <2> QED BY <2>1 DEF NewMarket, TypeOK
<1>3. ASSUME NEW bettor \in Bettors, NEW n \in Markets, NEW side \in 0..2, NEW amount \in Nat,
             PlacePosition(bettor, n, side, amount)
      PROVE  market'[m].status # "Resolved"
  <2>1. PICK yes \in Nat, no \in Nat : StakeAdded(bettor, n, yes, no)
    BY <1>3, PlacePositionEffect
  <2>2. \A k \in Markets \ {n} : market'[k] = market[k]
    BY <2>1 DEF StakeAdded
  <2>3. market'[n] = [market[n] EXCEPT !.yes_pool = @ + yes, !.no_pool = @ + no]
    BY <2>1 DEF StakeAdded
  <2>4. CASE m = n
    BY <1>1, <2>3, <2>4 DEF MarketType
  <2> QED BY <2>2, <2>4
<1>4. ASSUME NEW claimant \in Bettors, NEW n \in Markets, NEW pb \in Bettors,
             NEW dest \in Accounts, Claim(claimant, n, n, pb, n, dest)
      PROVE  market'[m].status # "Resolved"
  <2> DEFINE payout == ClaimAmount(market[n], position[n][pb])
  <2>1. /\ \A k \in Markets \ {n} : market'[k] = market[k]
        /\ market'[n] = [market[n] EXCEPT !.total_claimed = @ + payout]
        /\ position'[n][pb] = [position[n][pb] EXCEPT !.claimed = TRUE]
    BY <1>4, ClaimEffect
  <2> HIDE DEF payout
  <2>2. CASE m = n
    BY <1>1, <2>1, <2>2 DEF MarketType
  <2> QED BY <2>1, <2>2
<1>5. ASSUME NEW authority \in Signers, NEW n \in Markets, VoidMarket(authority, n)
      PROVE  market'[m].status # "Resolved"
  <2>1. MakeVoid(n)
    BY <1>5 DEF VoidMarket
  <2>2. /\ \A k \in Markets \ {n} : market'[k] = market[k]
        /\ market'[n] =
             [market[n] EXCEPT !.status = "Voided", !.winning_side = SIDE_NONE, !.settle_ts = now]
    BY <2>1, VoidEffect
  <2>3. CASE m = n
    BY <1>1, <2>2, <2>3 DEF MarketType
  <2> QED BY <2>2, <2>3
<1>6. CASE UNCHANGED market
  BY <1>6
<1> QED BY <1>2, <1>3, <1>4, <1>5, <1>6, InputAssumption

\* The only step that resolves a market is a settlement of it.
LEMMA BecomesResolved ==
  ASSUME TypeOK, BooksBalance, [Next]_vars, NEW m \in Markets,
         market[m].status # "Resolved", market'[m].status = "Resolved"
  PROVE  SettleAny(m)
<1>1. ASSUME NEW n \in Markets, SettleAny(n), n # m
      PROVE  FALSE
  <2>1. CASE VoidForLackOfWinners(n)
    BY <1>1, <2>1, VoidEffect DEF VoidForLackOfWinners
  <2>2. ASSUME NEW side \in {SIDE_YES, SIDE_NO}, Resolve(n, side),
               SplitOk(WinnersOf(market[n], side), LosersOf(market[n], side),
                       market[n].params.fee_bps)
        PROVE  FALSE
    <3>1. \A k \in Markets \ {n} : market'[k] = market[k]
      BY <2>2, ResolveEffect
    <3> QED BY <1>1, <3>1
  <2> QED BY <1>1, <2>1, <2>2, SettleCases
<1> QED BY <1>1, StepCases, OthersResolveNone

LEMMA NextProven == TypeOK /\ BooksBalance /\ OutcomeIsProven /\ [Next]_vars => OutcomeIsProven'
<1> SUFFICES ASSUME TypeOK, BooksBalance, OutcomeIsProven, [Next]_vars,
                    NEW m \in Markets, market'[m].status = "Resolved"
             PROVE  OutcomeProven(market'[m].params, market'[m].winning_side, posted')
  BY DEF OutcomeIsProven
<1>0. market[m] \in MarketType /\ Books(m)
  BY DEF TypeOK, BooksBalance
<1>1. CASE market[m].status = "Resolved"
  <2>1. market'[m] = [market[m] EXCEPT !.total_claimed = market'[m].total_claimed]
    BY <1>1, NextFinal DEF FinalStep, Final
  <2>2. /\ market'[m].params = market[m].params
        /\ market'[m].winning_side = market[m].winning_side
    BY <1>0, <2>1 DEF MarketType
  <2>3. OutcomeProven(market[m].params, market[m].winning_side, posted)
    BY <1>1 DEF OutcomeIsProven
  <2> QED BY <2>2, <2>3, PostedGrows, ProvenGrows
<1>2. CASE market[m].status # "Resolved"
  <2>1. SettleAny(m)
    BY <1>2, BecomesResolved
  <2>2. PICK a \in Attestable, b \in Attestable \cup {NoStat}, op \in BinaryOps \cup {NoOp} :
          Settle(m, a, b, op)
    BY <2>1 DEF SettleAny
  <2> DEFINE side == IF YesHolds(market[m].params, a, b, op) THEN SIDE_YES ELSE SIDE_NO
  <2>3. /\ market[m].status = "Open" /\ posted' = posted
        /\ BoundToMarket(market[m].params, a, b, op) /\ Authentic(a, b)
        /\ SplitOk(WinnersOf(market[m], side), LosersOf(market[m], side),
                   market[m].params.fee_bps)
        /\ VoidForLackOfWinners(m) \/ Resolve(m, side)
    BY <2>2 DEF Settle, SettleAllowed, SideProven
  <2>4. side \in {SIDE_YES, SIDE_NO}
    OBVIOUS
  <2>5. OutcomeProven(market[m].params, side, posted)
    BY <1>0, <2>3, SettleProves
  <2> HIDE DEF side
  <2>6. CASE VoidForLackOfWinners(m)
    <3>1. market'[m] =
            [market[m] EXCEPT !.status = "Voided", !.winning_side = SIDE_NONE, !.settle_ts = now]
      BY <2>6, VoidEffect DEF VoidForLackOfWinners
    <3> QED BY <1>0, <3>1 DEF MarketType
  <2>7. CASE Resolve(m, side)
    <3>1. market'[m] = [market[m] EXCEPT
            !.status = "Resolved", !.winning_side = side, !.settle_ts = now,
            !.fee_collected = FeeOf(m, side), !.total_payout_pool = PoolOf(m, side)]
      BY <2>3, <2>4, <2>7, ResolveEffect
    <3>2. market'[m].params = market[m].params /\ market'[m].winning_side = side
      BY <1>0, <3>1 DEF MarketType
    <3> QED BY <2>3, <2>5, <3>2
  <2> QED BY <2>3, <2>6, <2>7
<1> QED BY <1>1, <1>2

\* A resolved market's outcome is one the oracle attested about its own stats.
THEOREM OutcomeAlwaysProven == Spec => []OutcomeIsProven
<1>1. Init => OutcomeIsProven
  BY DEF Init, NewMarket, OutcomeIsProven
<1>2. Init => TypeOK /\ BooksBalance
  BY InitTypeOK, InitBooks
<1> QED BY <1>1, <1>2, NextTypeOK, NextBooks, NextProven, PTL DEF Spec

(***************************************************************************)
(* Where the program orients a predicate towards a side and where it       *)
(* refuses (state.rs:117-146), and that its TypeScript mirror agrees       *)
(* (predicate.ts:81-98): YES is the stored predicate, NO is refused only   *)
(* at the edge of the threshold's range, and elsewhere holds of exactly    *)
(* the values of which YES does not.                                       *)
(***************************************************************************)
THEOREM OrientedDecides ==
  ASSUME NEW lo \in Int, NEW hi \in Int, NEW value \in Int, NEW threshold \in lo..hi,
         NEW comparison \in Comparisons
  PROVE  /\ oriented_predicate(lo, hi, TRUE, comparison, threshold)
              = {[comparison |-> comparison, threshold |-> threshold]}
         /\ oriented_predicate(lo, hi, FALSE, comparison, threshold) = {}
              <=> \/ comparison = "GreaterThan" /\ threshold = hi
                  \/ comparison = "LessThan" /\ threshold = lo
         /\ \A p \in oriented_predicate(lo, hi, FALSE, comparison, threshold) :
              /\ p = orientedPredicate(FALSE, comparison, threshold)
              /\ Holds(value, p.comparison, p.threshold) <=> ~Holds(value, comparison, threshold)
<1> DEFINE no == orientedPredicate(FALSE, comparison, threshold)
<1>1. oriented_predicate(lo, hi, TRUE, comparison, threshold)
        = {[comparison |-> comparison, threshold |-> threshold]}
  BY DEF oriented_predicate, orientedPredicate
<1>2. oriented_predicate(lo, hi, FALSE, comparison, threshold)
        = IF no.threshold \in lo..hi THEN {no} ELSE {}
  BY DEF oriented_predicate
<1>3. CASE comparison = "GreaterThan"
  <2>1. no.comparison = "LessThan" /\ no.threshold = threshold + 1
    BY <1>3 DEF orientedPredicate
  <2>2. Holds(value, "LessThan", threshold + 1) <=> ~Holds(value, comparison, threshold)
    BY <1>3 DEF Holds
  <2>3. threshold + 1 \in lo..hi <=> threshold # hi
    OBVIOUS
  <2> HIDE DEF no
  <2>4. Holds(value, no.comparison, no.threshold) <=> ~Holds(value, comparison, threshold)
    BY <2>1, <2>2
  <2>5. no.threshold \in lo..hi <=> threshold # hi
    BY <2>1, <2>3
  <2> QED BY <1>1, <1>2, <1>3, <2>4, <2>5 DEF no
<1>4. CASE comparison = "LessThan"
  <2>1. no.comparison = "GreaterThan" /\ no.threshold = threshold - 1
    BY <1>4 DEF orientedPredicate
  <2>2. Holds(value, "GreaterThan", threshold - 1) <=> ~Holds(value, comparison, threshold)
    BY <1>4 DEF Holds
  <2>3. threshold - 1 \in lo..hi <=> threshold # lo
    OBVIOUS
  <2> HIDE DEF no
  <2>4. Holds(value, no.comparison, no.threshold) <=> ~Holds(value, comparison, threshold)
    BY <2>1, <2>2
  <2>5. no.threshold \in lo..hi <=> threshold # lo
    BY <2>1, <2>3
  <2> QED BY <1>1, <1>2, <1>4, <2>4, <2>5 DEF no
<1> QED BY <1>3, <1>4 DEF Comparisons
=============================================================================
