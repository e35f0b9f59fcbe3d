---------------------------- MODULE FinalWhistle ----------------------------
(***************************************************************************)
(* The on-chain program: programs/finalwhistle.  Every instruction is one  *)
(* action, because a Solana transaction either executes its instruction    *)
(* whole or leaves every account as it was; a guard that fails is a        *)
(* transaction that reverts, which is no step.  The instructions of any    *)
(* number of users interleave on the ledger in any order.                  *)
(*                                                                         *)
(* Accounts are addressed the way the program derives them: a market by    *)
(* <<creator, nonce>>, its escrow token account by the market (the escrow  *)
(* PDA has one market), a position by a market and a bettor.  All token    *)
(* accounts hold the market's mint.                                        *)
(*                                                                         *)
(* The score oracle (TxLINE's validate_stat) is outside the repository: it *)
(* is the set `posted' of stats whose Merkle root is on the ledger, and    *)
(* a proof is authentic when the stats it names are in that set.           *)
(***************************************************************************)
EXTENDS Parimutuel, Predicate, TokenSums

CONSTANTS
  Creators,       (* keys that may sign create_market                       *)
  Nonces,         (* creator-chosen market numbers                          *)
  Bettors,        (* keys that stake and claim, each with a token account   *)
  Treasury,       (* the treasury's token account                           *)
  NoKey,          (* Pubkey::default(), an uninitialised account's field    *)
  NoStat, NoOp,   (* None, for an optional second stat and operator         *)
  Params,         (* the CreateMarketParams that callers submit             *)
  Attestable,     (* the stats the oracle may come to post                  *)
  OneRoot,        (* whether validate_stat wants both stats under one root  *)
  Amounts,        (* the amounts that callers stake or transfer             *)
  Payees,         (* accounts that bettors send tokens to beside their own  *)
  InitialWallet,  (* what each bettor's token account holds at first        *)
  MIN_STAKE,
  MAX_FEE_BPS,
  MaxTime         (* bound on the ledger clock                              *)

Markets  == Creators \X Nonces
Accounts == Bettors \cup Markets \cup {Treasury}
Signers  == Creators \cup Bettors

\* A title is given by its length in bytes.
ParamsType ==
  [fixture_id : Int, seq : Int, stat_key : Int, stat_key2 : Int \cup {NoStat},
   op : BinaryOps \cup {NoOp}, period : Int, threshold : Int,
   comparison : Comparisons, close_ts : Int, fee_bps : Nat, title : Nat]

\* One stat of one score event, as the oracle attests it.
StatType == [fixture_id : Int, seq : Int, key : Int, period : Int, value : Int]

ASSUME KeysAssumption ==
  /\ IsFiniteSet(Bettors) /\ IsFiniteSet(Creators) /\ IsFiniteSet(Nonces)
  /\ Bettors \cap Markets = {}
  /\ Treasury \notin Bettors \cup Markets
  /\ NoKey \notin Bettors \cup Markets
  /\ Payees \subseteq Accounts

ASSUME InputAssumption ==
  /\ Params \subseteq ParamsType /\ Params # {}
  /\ Attestable \subseteq StatType /\ NoStat \notin Attestable
  /\ OneRoot \in BOOLEAN
  /\ Amounts \subseteq Nat
  /\ MaxTime \in Nat

\* The supply of the mint is itself a u64 of the token program.
ASSUME SupplyAssumption ==
  /\ InitialWallet \in [Bettors -> Nat]
  /\ SumOver(InitialWallet, Bettors) <= U64Max

ASSUME FeeAssumption ==
  /\ MIN_STAKE \in Nat \ {0}
  /\ MAX_FEE_BPS \in Nat /\ MAX_FEE_BPS <= BPS_DENOMINATOR

VARIABLES
  market,     (* market[m]: the Market account                              *)
  position,   (* position[m][b]: the Position account                       *)
  balance,    (* balance[a]: token account balances                         *)
  posted,     (* the stats attested on the ledger so far                    *)
  now         (* Clock::unix_timestamp                                      *)

vars == <<market, position, balance, posted, now>>

Final == {"Resolved", "Voided"}

\* create_market.rs:62.
MAX_TITLE_LEN == 80

MarketType ==
  [status : {"Absent", "Open"} \cup Final, params : Params,
   yes_pool : Nat, no_pool : Nat, winning_side : {SIDE_NONE, SIDE_YES, SIDE_NO},
   settle_ts : Nat, fee_collected : Nat, total_payout_pool : Nat, total_claimed : Nat]

PositionType ==
  [market : Markets \cup {NoKey}, owner : Bettors \cup {NoKey},
   yes_amount : Nat, no_amount : Nat, claimed : BOOLEAN]

NewMarket(status, params) ==
  [status |-> status, params |-> params, yes_pool |-> 0, no_pool |-> 0,
   winning_side |-> SIDE_NONE, settle_ts |-> 0, fee_collected |-> 0,
   total_payout_pool |-> 0, total_claimed |-> 0]

NoPosition ==
  [market |-> NoKey, owner |-> NoKey, yes_amount |-> 0, no_amount |-> 0, claimed |-> FALSE]

Init ==
  /\ market = [m \in Markets |-> NewMarket("Absent", CHOOSE p \in Params : TRUE)]
  /\ position = [m \in Markets |-> [b \in Bettors |-> NoPosition]]
  /\ balance = [a \in Accounts |-> IF a \in Bettors THEN InitialWallet[a] ELSE 0]
  /\ posted = {}
  /\ now = 0

-----------------------------------------------------------------------------
(* The token program (external): transfer_checked.                         *)

\* Mutant of CanPay: any account that is not empty may be drawn on.
CanPayIfNotEmpty(from, amount) == balance[from] > 0

\* Fails, and the instruction with it, when the source holds too little.
CanPay(from, amount) == balance[from] >= amount

Transfer(from, to, amount) ==
  balance' = [a \in Accounts |-> balance[a] - (IF a = from THEN amount ELSE 0)
                                            + (IF a = to THEN amount ELSE 0)]

-----------------------------------------------------------------------------
(* The score oracle (external): validate_stat.                             *)

\* b is NoStat for a proof of one stat.  A proof is of one fixture, but each of its
\* stats has an event root of its own, which settle does not compare: that both
\* belong to one event is up to the oracle.
Authentic(a, b) ==
  /\ a \in posted
  /\ b # NoStat => /\ b \in posted
                   /\ b.fixture_id = a.fixture_id
                   /\ OneRoot => b.seq = a.seq

\* Mutant of YesHolds: "more than" read as "at least".
YesHoldsInclusive(params, a, b, op) ==
  LET value == Combine(op, a.value, IF b = NoStat THEN 0 ELSE b.value) IN
  Holds(value, params.comparison, params.threshold) \/ value = params.threshold

\* What validate_stat returns for the YES predicate of params.
YesHolds(params, a, b, op) ==
  Holds(Combine(op, a.value, IF b = NoStat THEN 0 ELSE b.value),
        params.comparison, params.threshold)

-----------------------------------------------------------------------------
(* create_market                                                           *)

\* Mutant of CreateMarket: an account that exists is made anew.
CreateMarketAgain(creator, nonce, params) ==
  /\ params.fee_bps <= MAX_FEE_BPS
  /\ params.title <= MAX_TITLE_LEN
  /\ params.close_ts > now
  /\ (params.stat_key2 # NoStat) = (params.op # NoOp)
  /\ market' = [market EXCEPT ![<<creator, nonce>>] = NewMarket("Open", params)]
  /\ UNCHANGED <<position, balance, posted, now>>

CreateMarket(creator, nonce, params) ==
  LET m == <<creator, nonce>> IN
  /\ market[m].status = "Absent"
  /\ params.fee_bps <= MAX_FEE_BPS
  /\ params.title <= MAX_TITLE_LEN
  /\ params.close_ts > now
  /\ (params.stat_key2 # NoStat) = (params.op # NoOp)
  /\ market' = [market EXCEPT ![m] = NewMarket("Open", params)]
  /\ UNCHANGED <<position, balance, posted, now>>

-----------------------------------------------------------------------------
(* place_position                                                          *)

\* Mutant of BettingOpen: the boundary belongs to both sides.
BettingOpenInclusive(m) == now <= market[m].params.close_ts

BettingOpen(m) == now < market[m].params.close_ts

PlacePosition(bettor, m, side, amount) ==
  LET held    == position[m][bettor]
      opened  == IF held.market = NoKey
                   THEN [held EXCEPT !.market = m, !.owner = bettor]
                   ELSE held
      yes     == IF side = SIDE_YES THEN amount ELSE 0
      no      == IF side = SIDE_YES THEN 0 ELSE amount
  IN
  /\ market[m].status = "Open"
  /\ side = SIDE_YES \/ side = SIDE_NO
  /\ amount >= MIN_STAKE
  /\ BettingOpen(m)
  /\ CanPay(bettor, amount)
  /\ Transfer(bettor, m, amount)
  /\ opened.market = m
  /\ FitsU64(held.yes_amount + yes) /\ FitsU64(held.no_amount + no)
  /\ FitsU64(market[m].yes_pool + yes) /\ FitsU64(market[m].no_pool + no)
  /\ position' = [position EXCEPT
       ![m][bettor] = [opened EXCEPT !.yes_amount = @ + yes, !.no_amount = @ + no]]
  /\ market' = [market EXCEPT
       ![m] = [market[m] EXCEPT !.yes_pool = @ + yes, !.no_pool = @ + no]]
  /\ UNCHANGED <<posted, now>>

-----------------------------------------------------------------------------
(* settle                                                                  *)

\* Mutant of BoundToMarket: the fixture is not compared.
BoundToStat(params, a, b, op) ==
  /\ a.key = params.stat_key
  /\ a.period = params.period
  /\ IF params.stat_key2 # NoStat
       THEN b # NoStat /\ b.key = params.stat_key2 /\ b.period = params.period /\ op = params.op
       ELSE b = NoStat /\ op = NoOp

\* The proof names this market's stats.  Its seq is not compared.
BoundToMarket(params, a, b, op) ==
  /\ a.key = params.stat_key
  /\ a.period = params.period
  /\ a.fixture_id = params.fixture_id
  /\ IF params.stat_key2 # NoStat /\ params.op # NoOp
       THEN /\ b # NoStat
            /\ b.key = params.stat_key2
            /\ b.period = params.period
            /\ op = params.op
       ELSE b = NoStat /\ op = NoOp

WinnersOf(mk, side) == OnSide(side, mk.yes_pool, mk.no_pool)
LosersOf(mk, side)  == OnSide(Opposite(side), mk.yes_pool, mk.no_pool)

MakeVoid(m) ==
  market' = [market EXCEPT
    ![m] = [@ EXCEPT !.status = "Voided", !.winning_side = SIDE_NONE, !.settle_ts = now]]

\* Mutant of VoidForLackOfWinners: an empty winning pool is an error.
RefuseForLackOfWinners(m) == FALSE

\* Nobody backed the winning side: every bettor is to be refunded.
VoidForLackOfWinners(m) ==
  /\ MakeVoid(m)
  /\ UNCHANGED balance

Resolve(m, side) ==
  LET mk   == market[m]
      fee  == Fee(LosersOf(mk, side), mk.params.fee_bps)
      pool == PayoutPool(WinnersOf(mk, side), LosersOf(mk, side), mk.params.fee_bps)
  IN
  /\ CanPay(m, fee)
  /\ Transfer(m, Treasury, fee)
  /\ market' = [market EXCEPT
       ![m] = [@ EXCEPT !.status = "Resolved", !.winning_side = side, !.settle_ts = now,
                        !.fee_collected = fee, !.total_payout_pool = pool]]

SideProven(m, a, b, op) ==
  IF YesHolds(market[m].params, a, b, op) THEN SIDE_YES ELSE SIDE_NO

\* Mutant of SettleAllowed: close_ts itself still belongs to the window.
SettleAllowedLate(m, a, b, op) ==
  LET mk == market[m] IN
  /\ mk.status = "Open"
  /\ now > mk.params.close_ts
  /\ BoundToMarket(mk.params, a, b, op)
  /\ Authentic(a, b)
  /\ LET side == SideProven(m, a, b, op) IN
       SplitOk(WinnersOf(mk, side), LosersOf(mk, side), mk.params.fee_bps)

\* Permissionless: any signer may submit any authentic proof.
SettleAllowed(m, a, b, op) ==
  LET mk == market[m] IN
  /\ mk.status = "Open"
  /\ now >= mk.params.close_ts
  /\ BoundToMarket(mk.params, a, b, op)
  /\ Authentic(a, b)
  /\ LET side == SideProven(m, a, b, op) IN
       SplitOk(WinnersOf(mk, side), LosersOf(mk, side), mk.params.fee_bps)

Settle(m, a, b, op) ==
  LET side == SideProven(m, a, b, op) IN
  /\ SettleAllowed(m, a, b, op)
  /\ \/ WinnersOf(market[m], side) = 0 /\ VoidForLackOfWinners(m)
     \/ WinnersOf(market[m], side) # 0 /\ Resolve(m, side)
  /\ UNCHANGED <<position, posted, now>>

-----------------------------------------------------------------------------
(* claim                                                                   *)

\* What claim pays a position out of a market in a given state.
ClaimAmount(mk, p) ==
  IF mk.status = "Resolved"
    THEN Payout(OnSide(mk.winning_side, p.yes_amount, p.no_amount),
                OnSide(mk.winning_side, mk.yes_pool, mk.no_pool),
                mk.total_payout_pool)
    ELSE p.yes_amount + p.no_amount

\* Mutants of MayClaim: the claimed flag, then the position's market, is not
\* checked.
MayClaimAgain(claimant, m, p) == p.owner = claimant /\ p.market = m
MayClaimAcrossMarkets(claimant, m, p) == p.owner = claimant /\ ~p.claimed

MayClaim(claimant, m, p) ==
  /\ p.owner = claimant
  /\ p.market = m
  /\ ~p.claimed

\* The caller names every account: the market m, the position of pb in pm,
\* the escrow account and the account to be paid, any account of the mint.
ClaimAllowed(claimant, m, pm, pb, escrow) ==
  LET payout == ClaimAmount(market[m], position[pm][pb]) IN
  /\ market[m].status \in Final
  /\ escrow = m
  /\ MayClaim(claimant, m, position[pm][pb])
  /\ payout > 0
  /\ FitsU64(payout)
  /\ CanPay(escrow, payout)
  /\ FitsU64(market[m].total_claimed + payout)

Claim(claimant, m, pm, pb, escrow, dest) ==
  LET payout == ClaimAmount(market[m], position[pm][pb]) IN
  /\ ClaimAllowed(claimant, m, pm, pb, escrow)
  /\ Transfer(escrow, dest, payout)
  /\ position' = [position EXCEPT ![pm][pb].claimed = TRUE]
  /\ market' = [market EXCEPT ![m].total_claimed = @ + payout]
  /\ UNCHANGED <<posted, now>>

-----------------------------------------------------------------------------
(* void_market                                                             *)

\* Mutant of VoidMarket: the status is not checked.
VoidMarketAnyTime(authority, m) ==
  /\ market[m].status # "Absent"
  /\ authority = m[1]
  /\ MakeVoid(m)
  /\ UNCHANGED <<position, balance, posted, now>>

VoidMarket(authority, m) ==
  /\ market[m].status = "Open"
  /\ authority = m[1]
  /\ MakeVoid(m)
  /\ UNCHANGED <<position, balance, posted, now>>

-----------------------------------------------------------------------------
(* The rest of the ledger (external): the clock, the oracle's postings and *)
(* bettors who move their own tokens, into an escrow account if they like. *)

Tick ==
  /\ now < MaxTime
  /\ now' = now + 1
  /\ UNCHANGED <<market, position, balance, posted>>

Post(stat) ==
  /\ stat \notin posted
  /\ posted' = posted \cup {stat}
  /\ UNCHANGED <<market, position, balance, now>>

WalletTransfer(bettor, dest, amount) ==
  /\ CanPay(bettor, amount)
  /\ Transfer(bettor, dest, amount)
  /\ UNCHANGED <<market, position, posted, now>>

-----------------------------------------------------------------------------
SettleAny(m) ==
  \E a \in Attestable, b \in Attestable \cup {NoStat}, op \in BinaryOps \cup {NoOp} :
    Settle(m, a, b, op)

ClaimAny(claimant) ==
  \E m \in Markets, pm \in Markets, pb \in Bettors, escrow \in Markets,
     dest \in {claimant} \cup Payees :
    Claim(claimant, m, pm, pb, escrow, dest)

Next ==
  \/ \E creator \in Creators, nonce \in Nonces, params \in Params :
       CreateMarket(creator, nonce, params)
  \/ \E bettor \in Bettors, m \in Markets, side \in 0..2, amount \in Amounts :
       PlacePosition(bettor, m, side, amount)
  \/ \E m \in Markets : SettleAny(m)
  \/ \E claimant \in Bettors : ClaimAny(claimant)
  \/ \E authority \in Signers, m \in Markets : VoidMarket(authority, m)
  \/ Tick
  \/ \E stat \in Attestable : Post(stat)
  \/ \E bettor \in Bettors, dest \in Payees, amount \in Amounts :
       WalletTransfer(bettor, dest, amount)

Spec == Init /\ [][Next]_vars

-----------------------------------------------------------------------------
(* The ledger of one market                                                *)

Unclaimed(m) == {b \in Bettors : ~position[m][b].claimed}
Claimed(m)   == {b \in Bettors : position[m][b].claimed}

StakesOn(m, side) ==
  [b \in Bettors |-> OnSide(side, position[m][b].yes_amount, position[m][b].no_amount)]
StakesOf(m) ==
  [b \in Bettors |-> position[m][b].yes_amount + position[m][b].no_amount]

\* What a bettor can count on from a market: the payout once it is resolved,
\* and until then (or once void) the refund of both stakes, which the
\* authority's void can turn an open market into at any moment.
Owed(m) == [b \in Bettors |-> ClaimAmount(market[m], position[m][b])]

\* What a market has to pay out in all.
Pot(m) ==
  IF market[m].status = "Resolved" THEN market[m].total_payout_pool
  ELSE market[m].yes_pool + market[m].no_pool

Winners(m) == {b \in Bettors : StakesOn(m, market[m].winning_side)[b] > 0}

-----------------------------------------------------------------------------
(* Properties                                                              *)

\* Every account keeps the shape its Anchor type gives it.
TypeOK ==
  /\ market \in [Markets -> MarketType]
  /\ position \in [Markets -> [Bettors -> PositionType]]
  /\ balance \in [Accounts -> Nat]
  /\ posted \subseteq Attestable
  /\ now \in 0..MaxTime

\* The pools are the sums of the positions' stakes (place_position.rs).
PoolsAreStakes(m) ==
  /\ market[m].yes_pool = SumOver(StakesOn(m, SIDE_YES), Bettors)
  /\ market[m].no_pool = SumOver(StakesOn(m, SIDE_NO), Bettors)
  /\ market[m].yes_pool + market[m].no_pool = SumOver(StakesOf(m), Bettors)

\* What was in the pot is in the escrow or has been claimed, and fits a u64.
PotIsCovered(m) ==
  /\ Pot(m) <= balance[m] + market[m].total_claimed
  /\ FitsU64(Pot(m))

\* total_claimed is what the claimed positions were owed.
ClaimsAreCounted(m) == market[m].total_claimed = SumOver(Owed(m), Claimed(m))

\* Nothing is claimed from a market before it is final.
NotFinalIsUnclaimed(m) == market[m].status \notin Final => Claimed(m) = {}

\* A resolved market has a backed winning side whose pool the payout covers.
ResolvedHasWinners(m) ==
  market[m].status = "Resolved" =>
    /\ market[m].winning_side \in {SIDE_YES, SIDE_NO}
    /\ 0 < WinnersOf(market[m], market[m].winning_side)
    /\ WinnersOf(market[m], market[m].winning_side) <= market[m].total_payout_pool

\* A position account carries the keys it was derived from, unless it is as it was
\* zeroed: there is no stake in it that its owner could not claim.
PositionsAreOwn(m) ==
  \A b \in Bettors :
    \/ position[m][b].market = m /\ position[m][b].owner = b
    \/ position[m][b] = NoPosition

AbsentIsEmpty(m) ==
  market[m].status = "Absent" => market[m].yes_pool = 0 /\ market[m].no_pool = 0

ParamsAreChecked(m) ==
  market[m].status # "Absent" =>
    /\ market[m].params.fee_bps <= MAX_FEE_BPS
    /\ (market[m].params.stat_key2 # NoStat) = (market[m].params.op # NoOp)

SupplyIsConstant == SumOver(balance, Accounts) = SumOver(InitialWallet, Bettors)

\* The books balance: for every market the pools are the sum of the stakes,
\* what they hold is in the escrow or has been claimed, total_claimed is what
\* the claimed positions were owed, and no token appears or disappears.  With
\* TypeOK this is the inductive invariant of the program.
Books(m) ==
  /\ PoolsAreStakes(m)
  /\ PotIsCovered(m)
  /\ ClaimsAreCounted(m)
  /\ NotFinalIsUnclaimed(m)
  /\ ResolvedHasWinners(m)
  /\ PositionsAreOwn(m)
  /\ AbsentIsEmpty(m)
  /\ ParamsAreChecked(m)

BooksBalance == (\A m \in Markets : Books(m)) /\ SupplyIsConstant

\* Solvency: at every moment the escrow of a market holds enough to pay every
\* claim not yet paid, in whatever order the claims come and however their
\* shares round (claim.rs, settle.rs, state.rs payout).
Solvent == \A m \in Markets : SumOver(Owed(m), Unclaimed(m)) <= balance[m]

\* Backing a side that wins never loses money: after the fee and the rounding
\* a winner is still paid at least its winning stake (settlement_split, payout).
WinnersKeepStake ==
  \A m \in Markets, b \in Bettors :
    market[m].status = "Resolved" =>
      StakesOn(m, market[m].winning_side)[b] <= Owed(m)[b]

\* Rounding strands less than one base unit for each winner: when every winner
\* has been paid, what is left of the payout pool is below their number.
DustBelowWinners ==
  \A m \in Markets :
    /\ market[m].status = "Resolved"
    /\ Winners(m) \cap Unclaimed(m) = {}
    => market[m].total_payout_pool - market[m].total_claimed < Cardinality(Winners(m))

\* Nobody who is entitled is refused: an open market can settle for either side,
\* with the checked arithmetic in range and the fee in the escrow, although pools
\* and wallets together reach u64::MAX; and whoever is owed something by a final
\* market passes every check of claim at once, whoever else has claimed before
\* (settle_handler, settlement_split, claim_handler).
NobodyIsRefused ==
  \A m \in Markets :
    /\ market[m].status = "Open" =>
         \A side \in {SIDE_YES, SIDE_NO} :
           /\ SplitOk(WinnersOf(market[m], side), LosersOf(market[m], side),
                      market[m].params.fee_bps)
           /\ CanPay(m, Fee(LosersOf(market[m], side), market[m].params.fee_bps))
    /\ market[m].status \in Final =>
         \A b \in Unclaimed(m) : Owed(m)[b] > 0 => ClaimAllowed(b, m, m, b, m)

\* Among stats there are some of the fixture, keys and period that p names, of one
\* event if the oracle sees to it, that give the outcome side.
OutcomeProven(p, side, stats) ==
  \E a \in stats, b \in stats \cup {NoStat} :
    /\ a.fixture_id = p.fixture_id /\ a.key = p.stat_key /\ a.period = p.period
    /\ p.stat_key2 = NoStat => b = NoStat
    /\ p.stat_key2 # NoStat =>
         /\ b # NoStat
         /\ b.fixture_id = p.fixture_id /\ b.key = p.stat_key2 /\ b.period = p.period
         /\ OneRoot => b.seq = a.seq
    /\ side = IF Holds(Combine(p.op, a.value, IF b = NoStat THEN 0 ELSE b.value),
                        p.comparison, p.threshold)
                THEN SIDE_YES ELSE SIDE_NO

\* A market resolves only to what the oracle attested about its own fixture,
\* stats and period: proofs of other stats cannot decide it (settle_handler).
OutcomeIsProven ==
  \A m \in Markets :
    market[m].status = "Resolved" =>
      OutcomeProven(market[m].params, market[m].winning_side, posted)

\* Whoever submits the proof, and whichever authentic proof it is, a market has
\* one outcome (docs/TECHNICAL.md:48).
CallerCannotBias ==
  \A m \in Markets :
    LET p == market[m].params
        Usable(a, b, op) == BoundToMarket(p, a, b, op) /\ Authentic(a, b)
    IN market[m].status = "Open" =>
         \A a1, a2 \in posted, b1, b2 \in posted \cup {NoStat}, op \in {p.op} :
           Usable(a1, b1, op) /\ Usable(a2, b2, op) =>
             (YesHolds(p, a1, b1, op) <=> YesHolds(p, a2, b2, op))

FinalStep ==
  \A m \in Markets : market[m].status \in Final =>
    /\ market'[m] = [market[m] EXCEPT !.total_claimed = market'[m].total_claimed]
    /\ \A b \in Bettors :
         \/ position'[m][b] = position[m][b]
         \/ position'[m][b] = [position[m][b] EXCEPT !.claimed = TRUE]

\* Once final, a market's outcome, pools and every position's stakes stay what
\* they were, and what has been claimed stays claimed: nothing re-settles,
\* voids, stakes on or un-pays a finished market.
FinalIsFinal == [][FinalStep]_vars

StakeStep ==
  \A m \in Markets :
    now >= market[m].params.close_ts =>
      /\ market'[m].yes_pool = market[m].yes_pool
      /\ market'[m].no_pool = market[m].no_pool

\* No stake is taken from the moment a result could be submitted: settlement
\* and staking never overlap at the close_ts boundary (place_position, settle).
NoStakeOnceSettleable == [][StakeStep]_vars

EscrowStep ==
  \A m \in Markets :
    LET paid == balance[m] - balance'[m] IN
    paid > 0 =>
      \/ /\ market[m].status = "Open" /\ market'[m].status = "Resolved"
         /\ paid = market'[m].fee_collected
         /\ balance'[Treasury] = balance[Treasury] + paid
      \/ \E b \in Unclaimed(m) :
           /\ paid = Owed(m)[b]
           /\ position' = [position EXCEPT ![m][b].claimed = TRUE]

\* Money leaves an escrow in two ways only: the fee, once, as the market
\* resolves; or one position's exact entitlement, as that position, and no
\* other position anywhere, goes from unclaimed to claimed.
EscrowPaysOnlyWhatIsOwed == [][EscrowStep]_vars

\* A market whose oracle stats will be posted does not stay open for ever.
EventuallyFinal ==
  \A m \in Markets :
    LET p == market[m].params IN
    (/\ market[m].status = "Open"
     /\ \E a \in Attestable, b \in Attestable \cup {NoStat} :
          /\ BoundToMarket(p, a, b, p.op)
          /\ b # NoStat => b.seq = a.seq)
      ~> market[m].status \in Final

\* Whoever is owed something by a final market and keeps claiming is paid:
\* neither another bettor's claim nor rounding can block it for good.
EveryoneIsPaid ==
  \A m \in Markets, b \in Bettors :
    (market[m].status \in Final /\ Owed(m)[b] > 0) ~> position[m][b].claimed
=============================================================================
