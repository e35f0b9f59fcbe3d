--------------------------- MODULE ParimutuelProofs ---------------------------
(***************************************************************************)
(* What the settlement arithmetic returns for every pool, fee and stake.   *)
(***************************************************************************)
EXTENDS Parimutuel, TLAPS

\* Division with remainder, as the provers need it.
LEMMA Division ==
  ASSUME NEW n \in Nat, NEW p \in Nat \ {0}
  PROVE  /\ n \div p \in Nat
         /\ n % p \in 0..(p - 1)
         /\ n = p * (n \div p) + (n % p)
OBVIOUS

\* Multiplication by a natural number keeps the order.
LEMMA TimesMonotone ==
  ASSUME NEW a \in Nat, NEW b \in Nat, NEW k \in Nat, a <= b
  PROVE  k * a <= k * b
<1>1. PICK e \in Nat : b = a + e
  <2>1. b - a \in Nat /\ b = a + (b - a)
    OBVIOUS
  <2> QED BY <2>1
<1>2. k * b = k * a + k * e
  BY <1>1
<1>3. k * a \in Nat /\ k * e \in Nat
  BY <1>1
<1> QED BY <1>2, <1>3

\* Strict order survives multiplication by a positive number.
LEMMA TimesCancel ==
  ASSUME NEW a \in Nat, NEW b \in Nat, NEW k \in Nat \ {0}, k * a < k * b
  PROVE  a < b
<1>1. SUFFICES ASSUME b <= a PROVE FALSE
  OBVIOUS
<1>2. k * b <= k * a
  BY <1>1, TimesMonotone
<1>3. k * a \in Nat /\ k * b \in Nat
  OBVIOUS
<1> QED BY <1>2, <1>3

\* A quotient is the largest number whose product does not exceed n.
LEMMA QuotientBounds ==
  ASSUME NEW n \in Nat, NEW p \in Nat \ {0}
  PROVE  /\ p * (n \div p) <= n
         /\ \A q \in Nat : p * q <= n => q <= n \div p
         /\ \A q \in Nat : n <= p * q => n \div p <= q
<1> DEFINE d == n \div p
           r == n % p
<1>1. d \in Nat /\ r \in 0..(p - 1) /\ n = p * d + r
  BY Division
<1> HIDE DEF d, r
<1>2. p * d \in Nat
  BY <1>1
<1>3. p * d <= n
  BY <1>1, <1>2
<1>4. ASSUME NEW q \in Nat, p * q <= n PROVE q <= d
  <2>1. p * (d + 1) = p * d + p
    BY <1>1
  <2>2. p * q < p * (d + 1)
    <3>1. p * q \in Nat
      OBVIOUS
    <3> QED BY <1>1, <1>2, <1>4, <2>1, <3>1
  <2>3. q < d + 1
    <3>1. d + 1 \in Nat
      BY <1>1
    <3> QED BY <2>2, <3>1, TimesCancel
  <2> QED BY <1>1, <2>3
<1>5. ASSUME NEW q \in Nat, n <= p * q PROVE d <= q
  <2>1. SUFFICES ASSUME q < d PROVE FALSE
    BY <1>1
  <2>2. q + 1 <= d /\ q + 1 \in Nat
    BY <1>1, <2>1
  <2>3. p * (q + 1) <= p * d
    BY <1>1, <2>2, TimesMonotone
  <2>4. p * (q + 1) = p * q + p /\ p * q \in Nat
    OBVIOUS
  <2> QED BY <1>2, <1>3, <1>5, <2>3, <2>4
<1> QED BY <1>3, <1>4, <1>5 DEF d

\* The low 64 bits of a number that fits are the number.
LEMMA LowBits ==
  ASSUME NEW n \in Nat, NEW m \in Nat, n <= m
  PROVE  n % (m + 1) = n
<1> DEFINE p == m + 1
           d == n \div p
           r == n % p
<1>1. p \in Nat \ {0} /\ n < p
  OBVIOUS
<1>2. d \in Nat /\ r \in 0..(p - 1) /\ n = p * d + r
  BY <1>1, Division
<1>3. d <= 0
  <2>1. n < p * 1
    BY <1>1
  <2> HIDE DEF p, d, r
  <2>2. p * d < p * 1
    <3>1. p * d \in Nat
      BY <1>1, <1>2
    <3> QED BY <1>1, <1>2, <2>1, <3>1
  <2>3. d < 1
    BY <1>1, <1>2, <2>2, TimesCancel
  <2> QED BY <1>2, <2>3
<1> HIDE DEF p, d, r
<1>4. d = 0
  BY <1>2, <1>3
<1>5. n = r
  BY <1>1, <1>2, <1>4
<1> QED BY <1>5 DEF r, p

\* With a fee rate of at most the whole, the fee is at most the losing pool
\* and the cast to u64 loses nothing of it.
THEOREM FeeBounds ==
  ASSUME NEW losing \in Nat, FitsU64(losing),
         NEW bps \in Nat, bps <= BPS_DENOMINATOR
  PROVE  Fee(losing, bps) \in Nat /\ Fee(losing, bps) <= losing
<1> DEFINE q == (losing * bps) \div BPS_DENOMINATOR
<1>1. BPS_DENOMINATOR \in Nat \ {0} /\ U64Max \in Nat
  BY ArithmeticAssumption
<1>2. losing * bps \in Nat
  OBVIOUS
<1>3. losing * bps <= BPS_DENOMINATOR * losing
  <2>1. losing * bps <= losing * BPS_DENOMINATOR
    BY <1>1, TimesMonotone
  <2> QED BY <1>1, <2>1
<1>4. q \in Nat
  BY <1>1, <1>2, Division
<1>5. q <= losing
  BY <1>1, <1>2, <1>3, QuotientBounds
<1> HIDE DEF q
<1>6. q % (U64Max + 1) = q
  BY <1>1, <1>4, <1>5, LowBits DEF FitsU64
<1> QED BY <1>4, <1>5, <1>6 DEF Fee, q

\* A market whose pools fit a u64 together can always be split, and what the
\* winners share lies between their own pool and both pools.
THEOREM SplitBounds ==
  ASSUME NEW winning \in Nat, NEW losing \in Nat, FitsU64(winning + losing),
         NEW bps \in Nat, bps <= BPS_DENOMINATOR
  PROVE  /\ SplitOk(winning, losing, bps)
         /\ PayoutPool(winning, losing, bps) \in Nat
         /\ winning <= PayoutPool(winning, losing, bps)
         /\ PayoutPool(winning, losing, bps) + Fee(losing, bps) = winning + losing
<1>1. U64Max \in Nat
  BY ArithmeticAssumption
<1>2. FitsU64(losing)
  BY <1>1 DEF FitsU64
<1>3. Fee(losing, bps) \in Nat /\ Fee(losing, bps) <= losing
  BY <1>2, FeeBounds
<1> QED BY <1>1, <1>3 DEF SplitOk, PayoutPool, FitsU64

\* A payout is a natural number, the stake's exact share rounded down; a winner
\* gets its stake back at least.
THEOREM PayoutBounds ==
  ASSUME NEW stake \in Nat, NEW winning \in Nat \ {0}, NEW pool \in Nat
  PROVE  /\ Payout(stake, winning, pool) \in Nat
         /\ winning * Payout(stake, winning, pool) <= pool * stake
         /\ pool * stake < winning * (Payout(stake, winning, pool) + 1)
         /\ winning <= pool => stake <= Payout(stake, winning, pool)
         /\ stake <= winning => Payout(stake, winning, pool) <= pool
<1> DEFINE n == stake * pool
           d == n \div winning
<1>1. n \in Nat
  OBVIOUS
<1>2. d \in Nat /\ winning * d <= n
  BY <1>1, Division, QuotientBounds
<1>3. n = pool * stake
  OBVIOUS
<1>4. Payout(stake, winning, pool) = d
  BY DEF Payout
<1>5. ASSUME winning <= pool PROVE stake <= d
  <2>1. stake * winning <= stake * pool
    BY <1>5, TimesMonotone
  <2>2. winning * stake <= n
    BY <2>1
  <2> HIDE DEF n
  <2> QED BY <1>1, <2>2, QuotientBounds
<1>6. ASSUME stake <= winning PROVE d <= pool
  <2>1. pool * stake <= pool * winning
    BY <1>6, TimesMonotone
  <2>2. n <= winning * pool
    BY <2>1
  <2> HIDE DEF n
  <2> QED BY <1>1, <2>2, QuotientBounds
<1>7. n < winning * (d + 1)
  <2> DEFINE r == n % winning
  <2>1. r \in 0..(winning - 1) /\ n = winning * d + r
    BY <1>1, Division
  <2> HIDE DEF n, d, r
  <2>2. winning * (d + 1) = winning * d + winning /\ winning * d \in Nat
    BY <1>2
  <2> QED BY <2>1, <2>2
<1> HIDE DEF n, d
<1> QED BY <1>2, <1>3, <1>4, <1>5, <1>6, <1>7

\* A higher stake is never paid less than a lower one, and no stake nothing.
THEOREM PayoutMonotone ==
  ASSUME NEW low \in Nat, NEW high \in Nat, low <= high,
         NEW winning \in Nat \ {0}, NEW pool \in Nat
  PROVE  /\ Payout(low, winning, pool) <= Payout(high, winning, pool)
         /\ Payout(0, winning, pool) = 0
<1> DEFINE d == Payout(low, winning, pool)
           n == high * pool
<1>1. d \in Nat /\ winning * d <= pool * low
  BY PayoutBounds
<1>2. pool * low <= pool * high
  BY TimesMonotone
<1>3. n \in Nat /\ pool * high = n /\ pool * low \in Nat
  OBVIOUS
<1>4. Payout(high, winning, pool) = n \div winning
  BY DEF Payout
<1> HIDE DEF d, n
<1>5. winning * d <= n
  <2>1. winning * d \in Nat
    BY <1>1
  <2> QED BY <1>1, <1>2, <1>3, <2>1
<1>6. d <= n \div winning
  BY <1>1, <1>3, <1>5, QuotientBounds
<1>7. Payout(0, winning, pool) = 0
  <2>1. /\ Payout(0, winning, pool) \in Nat
        /\ winning * Payout(0, winning, pool) <= pool * 0
    BY PayoutBounds
  <2>2. winning * Payout(0, winning, pool) < winning * 1
    BY <2>1
  <2>3. Payout(0, winning, pool) < 1
    BY <2>1, <2>2, TimesCancel
  <2> QED BY <2>1, <2>3
<1> QED BY <1>4, <1>6, <1>7 DEF d
=============================================================================
