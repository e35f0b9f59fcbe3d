------------------------------ MODULE Parimutuel ------------------------------
(***************************************************************************)
(* The money arithmetic of a market (programs/finalwhistle/src/state.rs):  *)
(* which pool wins, the protocol fee taken from the losing pool, the pool  *)
(* the winners share, and the pro-rata payout of one position.  Amounts    *)
(* are u64 base units of the token.  The products are u128 in the code,    *)
(* wide enough for a u64 times a u64, so they are exact here; what the     *)
(* code checks or truncates to u64 is checked or truncated to U64Max.      *)
(***************************************************************************)
EXTENDS Integers

CONSTANTS U64Max,           (* u64::MAX                                    *)
          BPS_DENOMINATOR   (* basis points in the whole: 10000 in the code *)

ASSUME ArithmeticAssumption ==
  /\ U64Max \in Nat \ {0}
  /\ BPS_DENOMINATOR \in Nat \ {0}

SIDE_NONE == 0
SIDE_YES  == 1
SIDE_NO   == 2

Opposite(side) == IF side = SIDE_YES THEN SIDE_NO ELSE SIDE_YES

\* The part of a (yes, no) pair that lies on a side: a market's winning pool,
\* a position's winning stake.
OnSide(side, yes, no) ==
  IF side = SIDE_YES THEN yes ELSE IF side = SIDE_NO THEN no ELSE 0

FitsU64(n) == n <= U64Max

\* Mutant of Fee: the basis points are not divided out.
FeeUndivided(losing_pool, fee_bps) == (losing_pool * fee_bps) % (U64Max + 1)

\* settlement_split: the fee, and what the winners share once it is taken.
\* The quotient is cast with `as u64`, which keeps the low 64 bits.
Fee(losing_pool, fee_bps) ==
  ((losing_pool * fee_bps) \div BPS_DENOMINATOR) % (U64Max + 1)

\* Mutants of PayoutPool: the fee is forgotten; the fee is taken from both pools.
PayoutPoolBeforeFee(winning_pool, losing_pool, fee_bps) == winning_pool + losing_pool
PayoutPoolTaxed(winning_pool, losing_pool, fee_bps) ==
  winning_pool + losing_pool - Fee(winning_pool + losing_pool, fee_bps)

PayoutPool(winning_pool, losing_pool, fee_bps) ==
  winning_pool + (losing_pool - Fee(losing_pool, fee_bps))

\* The checked_sub and the checked_add of settlement_split succeed.
SplitOk(winning_pool, losing_pool, fee_bps) ==
  /\ Fee(losing_pool, fee_bps) <= losing_pool
  /\ FitsU64(PayoutPool(winning_pool, losing_pool, fee_bps))

\* Mutants of Payout: rounded up; divided before it is multiplied.
PayoutRoundedUp(stake, winning_pool, total_payout_pool) ==
  IF winning_pool = 0 THEN 0
  ELSE (stake * total_payout_pool + winning_pool - 1) \div winning_pool
PayoutByRate(stake, winning_pool, total_payout_pool) ==
  IF winning_pool = 0 THEN 0
  ELSE stake * (total_payout_pool \div winning_pool)

\* Position::payout: the stake's share of the payout pool, rounded down.
Payout(stake, winning_pool, total_payout_pool) ==
  IF winning_pool = 0 THEN 0
  ELSE (stake * total_payout_pool) \div winning_pool
=============================================================================
