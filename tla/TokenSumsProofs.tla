--------------------------- MODULE TokenSumsProofs ---------------------------
(***************************************************************************)
(* What SumOver returns and how it changes, for every finite set and every *)
(* function into the naturals.                                             *)
(***************************************************************************)
EXTENDS TokenSums, FiniteSetTheorems, FunctionTheorems, TLAPS

\* A unit of x is a pair of x and a number between 1 and f[x].
LEMMA UnitsMember ==
  ASSUME NEW S, NEW f, NEW x, NEW i
  PROVE  <<x, i>> \in Units(f, S) <=> x \in S /\ i \in 1..f[x]
BY DEF Units

LEMMA UnitsShape ==
  ASSUME NEW S, NEW f, NEW u \in Units(f, S)
  PROVE  /\ u = <<u[1], u[2]>>
         /\ u[1] \in S
         /\ u[2] \in 1..f[u[1]]
BY DEF Units

\* The units of a finite set of holders are finitely many.
LEMMA UnitsFinite ==
  ASSUME NEW S, IsFiniteSet(S), NEW f, \A x \in S : f[x] \in Nat
  PROVE  IsFiniteSet(Units(f, S))
<1> DEFINE block == [x \in S |-> {x} \X (1..f[x])]
           blocks == {{x} \X (1..f[x]) : x \in S}
<1>1. block \in Surjection(S, blocks)
  BY DEF Surjection
<1>2. IsFiniteSet(blocks)
  <2> HIDE DEF block, blocks
  <2> QED BY <1>1, FS_Surjection
<1>3. ASSUME NEW T \in blocks PROVE IsFiniteSet(T)
  <2>1. PICK x \in S : T = {x} \X (1..f[x])
    OBVIOUS
  <2>2. IsFiniteSet({x})
    BY FS_Singleton
  <2>3. f[x] \in Int
    OBVIOUS
  <2>4. IsFiniteSet(1..f[x])
    BY <2>3, FS_Interval
  <2> QED BY <2>1, <2>2, <2>4, FS_Product
<1>4. IsFiniteSet(UNION blocks)
  <2> HIDE DEF blocks
  <2> QED BY <1>2, <1>3, FS_UNION
<1> QED BY <1>4 DEF Units

\* A sum is a natural number.
THEOREM SumType ==
  ASSUME NEW S, IsFiniteSet(S), NEW f, \A x \in S : f[x] \in Nat
  PROVE  SumOver(f, S) \in Nat
BY UnitsFinite, FS_CardinalityType DEF SumOver

\* The sum over no holder is zero.
THEOREM SumEmpty ==
  ASSUME NEW f
  PROVE  SumOver(f, {}) = 0
BY FS_EmptySet DEF SumOver, Units

\* Two functions that agree on S have the same sum over S.
THEOREM SumSame ==
  ASSUME NEW S, NEW f, NEW g, \A x \in S : f[x] = g[x]
  PROVE  SumOver(f, S) = SumOver(g, S)
<1>1. Units(f, S) = Units(g, S)
  BY DEF Units
<1> QED BY <1>1 DEF SumOver

\* One holder more adds what that holder has.
THEOREM SumAdd ==
  ASSUME NEW S, IsFiniteSet(S), NEW x, x \notin S,
         NEW f, \A y \in S \cup {x} : f[y] \in Nat
  PROVE  SumOver(f, S \cup {x}) = SumOver(f, S) + f[x]
<1> DEFINE A == Units(f, S)
           B == {x} \X (1..f[x])
<1>1. IsFiniteSet(A)
  BY UnitsFinite
<1>2. IsFiniteSet(B) /\ Cardinality(B) = f[x]
  <2>1. IsFiniteSet({x}) /\ Cardinality({x}) = 1
    BY FS_Singleton
  <2>2. IsFiniteSet(1..f[x]) /\ Cardinality(1..f[x]) = f[x]
    <3>1. f[x] \in Nat
      OBVIOUS
    <3>2. /\ IsFiniteSet(1..f[x])
          /\ Cardinality(1..f[x]) = IF 1 > f[x] THEN 0 ELSE f[x] - 1 + 1
      BY <3>1, FS_Interval
    <3> QED BY <3>1, <3>2
  <2>3. IsFiniteSet(B) /\ Cardinality(B) = 1 * f[x]
    BY <2>1, <2>2, FS_Product
  <2> QED BY <2>3
<1>3. Units(f, S \cup {x}) = A \cup B
  BY DEF Units
<1>4. A \cap B = {}
  BY DEF Units
<1>5. Cardinality(A \cup B) = Cardinality(A) + Cardinality(B) - Cardinality({})
  <2> HIDE DEF A, B
  <2> QED BY <1>1, <1>2, <1>4, FS_Union
<1>6. Cardinality(A) \in Nat
  BY <1>1, FS_CardinalityType
<1>7. SumOver(f, S) = Cardinality(A) /\ SumOver(f, S \cup {x}) = Cardinality(A \cup B)
  BY <1>3 DEF SumOver
<1> HIDE DEF A, B
<1> QED BY <1>2, <1>5, <1>6, <1>7, FS_EmptySet

\* Taking one holder out of the set removes what that holder has.
THEOREM SumRemove ==
  ASSUME NEW S, IsFiniteSet(S), NEW x \in S,
         NEW f, \A y \in S : f[y] \in Nat
  PROVE  SumOver(f, S) = SumOver(f, S \ {x}) + f[x]
<1>1. IsFiniteSet(S \ {x})
  BY FS_RemoveElement
<1>2. S = (S \ {x}) \cup {x}
  OBVIOUS
<1>3. SumOver(f, (S \ {x}) \cup {x}) = SumOver(f, S \ {x}) + f[x]
  BY <1>1, SumAdd
<1> QED BY <1>2, <1>3

\* No holder has more than the sum.
THEOREM SumBoundsMember ==
  ASSUME NEW S, IsFiniteSet(S), NEW x \in S,
         NEW f, \A y \in S : f[y] \in Nat
  PROVE  f[x] <= SumOver(f, S)
<1>1. IsFiniteSet(S \ {x})
  BY FS_RemoveElement
<1>2. SumOver(f, S \ {x}) \in Nat
  BY <1>1, SumType
<1>3. SumOver(f, S) = SumOver(f, S \ {x}) + f[x]
  BY SumRemove
<1>4. f[x] \in Nat
  OBVIOUS
<1> QED BY <1>2, <1>3, <1>4

\* Changing what one holder has changes the sum by the difference.
THEOREM SumUpdate ==
  ASSUME NEW S, IsFiniteSet(S), NEW x \in S,
         NEW f, \A y \in S : f[y] \in Nat,
         NEW g, \A y \in S : g[y] \in Nat,
         \A y \in S \ {x} : g[y] = f[y]
  PROVE  SumOver(g, S) = SumOver(f, S) - f[x] + g[x]
<1>1. SumOver(f, S) = SumOver(f, S \ {x}) + f[x]
  BY SumRemove
<1>2. SumOver(g, S) = SumOver(g, S \ {x}) + g[x]
  BY SumRemove
<1>3. SumOver(f, S \ {x}) = SumOver(g, S \ {x})
  BY SumSame
<1>4. SumOver(f, S \ {x}) \in Nat
  <2>1. IsFiniteSet(S \ {x})
    BY FS_RemoveElement
  <2> QED BY <2>1, SumType
<1>5. f[x] \in Nat /\ g[x] \in Nat
  OBVIOUS
<1> QED BY <1>1, <1>2, <1>3, <1>4, <1>5

\* The sum over two disjoint sets of holders is the sum of the two sums.
THEOREM SumSplit ==
  ASSUME NEW S, IsFiniteSet(S), NEW T \in SUBSET S,
         NEW f, \A y \in S : f[y] \in Nat
  PROVE  SumOver(f, S) = SumOver(f, T) + SumOver(f, S \ T)
<1> DEFINE A == Units(f, T)
           B == Units(f, S \ T)
<1>1. IsFiniteSet(T) /\ IsFiniteSet(S \ T)
  BY FS_Subset
<1>2. IsFiniteSet(A) /\ IsFiniteSet(B)
  BY <1>1, UnitsFinite
<1>3. Units(f, S) = A \cup B
  BY DEF Units
<1>4. A \cap B = {}
  BY DEF Units
<1>5. Cardinality(A \cup B) = Cardinality(A) + Cardinality(B) - Cardinality({})
  <2> HIDE DEF A, B
  <2> QED BY <1>2, <1>4, FS_Union
<1>6. Cardinality(A) \in Nat /\ Cardinality(B) \in Nat
  BY <1>2, FS_CardinalityType
<1> QED BY <1>3, <1>5, <1>6, FS_EmptySet DEF SumOver

\* A function that is zero on S sums to zero.
THEOREM SumZero ==
  ASSUME NEW S, NEW f, \A x \in S : f[x] = 0
  PROVE  SumOver(f, S) = 0
<1>1. Units(f, S) = {}
  <2>1. ASSUME NEW u \in Units(f, S) PROVE FALSE
    <3>1. u[1] \in S /\ u[2] \in 1..f[u[1]]
      BY UnitsShape
    <3> QED BY <3>1
  <2> QED BY <2>1
<1> QED BY <1>1, FS_EmptySet DEF SumOver

\* A unit more for each holder adds their number.
THEOREM SumSucc ==
  ASSUME NEW S, IsFiniteSet(S),
         NEW f, \A x \in S : f[x] \in Nat,
         NEW h, \A x \in S : h[x] = f[x] + 1
  PROVE  SumOver(h, S) = SumOver(f, S) + Cardinality(S)
<1> DEFINE A == Units(f, S)
           top == [x \in S |-> <<x, f[x] + 1>>]
           B == {<<x, f[x] + 1>> : x \in S}
<1>1. IsFiniteSet(A)
  BY UnitsFinite
<1>2. IsFiniteSet(B) /\ Cardinality(B) = Cardinality(S)
  <2>1. top \in Surjection(S, B) /\ top \in Injection(S, B)
    BY DEF Surjection, Injection, IsInjective
  <2> HIDE DEF top, B
  <2> QED BY <2>1, FS_Surjection
<1>3. Units(h, S) = A \cup B
  <2>1. ASSUME NEW x \in S
        PROVE  {x} \X (1..h[x]) = ({x} \X (1..f[x])) \cup {<<x, f[x] + 1>>}
    <3>1. 1..h[x] = (1..f[x]) \cup {f[x] + 1}
      OBVIOUS
    <3> QED BY <3>1
  <2> QED BY <2>1 DEF Units
<1>4. A \cap B = {}
  <2>1. ASSUME NEW x \in S PROVE <<x, f[x] + 1>> \notin A
    <3>1. f[x] \in Nat /\ f[x] + 1 \notin 1..f[x]
      OBVIOUS
    <3> QED BY <3>1, UnitsMember
  <2> QED BY <2>1
<1>5. SumOver(f, S) = Cardinality(A) /\ SumOver(h, S) = Cardinality(A \cup B)
  BY <1>3 DEF SumOver
<1> HIDE DEF A, B
<1>6. Cardinality(A) \in Nat /\ Cardinality(S) \in Nat
  BY <1>1, FS_CardinalityType
<1>7. Cardinality(A \cup B) = Cardinality(A) + Cardinality(B) - Cardinality({})
  BY <1>1, <1>2, <1>4, FS_Union
<1> QED BY <1>2, <1>5, <1>6, <1>7, FS_EmptySet

(***************************************************************************)
(* Sums of rounded shares.  If w * f[x] <= p * g[x] for every x then       *)
(* w times the sum of f is at most p times the sum of g: rounding each     *)
(* share down can only leave units over.  The proof counts: unit           *)
(* number k of the w copies of x's f-units goes to unit number k of the p  *)
(* copies of its g-units, which is an injection.                           *)
(***************************************************************************)
\* Division with remainder, as the provers need it.
LEMMA DivMod ==
  ASSUME NEW n \in Nat, NEW p \in Nat \ {0}
  PROVE  /\ n \div p \in Nat
         /\ n % p \in 0..(p - 1)
         /\ n = p * (n \div p) + (n % p)
OBVIOUS

\* A product bound on a number bounds its quotient.
LEMMA DivBelow ==
  ASSUME NEW n \in Nat, NEW p \in Nat \ {0}, NEW q \in Nat, n < p * q
  PROVE  n \div p < q
<1> DEFINE d == n \div p
<1>1. d \in Nat /\ n % p \in Nat /\ n = p * d + (n % p)
  BY DivMod
<1> HIDE DEF d
<1>2. SUFFICES ASSUME d >= q PROVE FALSE
  BY <1>1 DEF d
<1>3. PICK e \in Nat : d = q + e
  <2>1. d - q \in Nat /\ d = q + (d - q)
    BY <1>1, <1>2
  <2> QED BY <2>1
<1>4. p * d = p * q + p * e
  BY <1>3
<1>5. p * e \in Nat /\ p * q \in Nat
  BY <1>3
<1> QED BY <1>1, <1>4, <1>5

\* Position and copy are determined by the unit number k = (i - 1) * w + j - 1.
LEMMA NumberingInjective ==
  ASSUME NEW w \in Nat \ {0},
         NEW a \in Nat, NEW b \in Nat, NEW j \in 0..(w - 1), NEW k \in 0..(w - 1),
         a * w + j = b * w + k
  PROVE  a = b /\ j = k
<1>1. ASSUME NEW c \in Nat, NEW d \in Nat, NEW m \in 0..(w - 1), NEW n \in 0..(w - 1),
             c * w + m = d * w + n, c < d
      PROVE  FALSE
  <2>1. PICK e \in Nat : d = c + 1 + e
    <3>1. d - c - 1 \in Nat /\ d = c + 1 + (d - c - 1)
      BY <1>1
    <3> QED BY <3>1
  <2>2. d * w = c * w + w + e * w
    BY <2>1
  <2>3. e * w \in Nat /\ c * w \in Nat
    BY <2>1
  <2> QED BY <1>1, <2>2, <2>3
<1>2. a = b
  <2>1. ~(a < b)
    BY <1>1
  <2>2. ~(b < a)
    BY <1>1
  <2> QED BY <2>1, <2>2
<1>3. a * w = b * w /\ a * w \in Nat
  BY <1>2
<1> QED BY <1>2, <1>3

THEOREM SumScaled ==
  ASSUME NEW S, IsFiniteSet(S),
         NEW f, \A x \in S : f[x] \in Nat,
         NEW g, \A x \in S : g[x] \in Nat,
         NEW w \in Nat \ {0}, NEW p \in Nat \ {0},
         \A x \in S : w * f[x] <= p * g[x]
  PROVE  w * SumOver(f, S) <= p * SumOver(g, S)
<1> DEFINE A == Units(f, S) \X (1..w)
           B == Units(g, S) \X (1..p)
           num(u) == (u[1][2] - 1) * w + (u[2] - 1)
           image(u) == <<<<u[1][1], (num(u) \div p) + 1>>, (num(u) % p) + 1>>
           h == [u \in A |-> image(u)]
<1>1. ASSUME NEW u \in A
      PROVE  /\ u = <<<<u[1][1], u[1][2]>>, u[2]>>
             /\ u[1][1] \in S
             /\ u[1][2] \in 1..f[u[1][1]]
             /\ u[2] \in 1..w
  BY UnitsShape
<1>2. ASSUME NEW u \in A
      PROVE  /\ num(u) \in Nat
             /\ num(u) < p * g[u[1][1]]
  <2> DEFINE x == u[1][1]
             i == u[1][2] - 1
             j == u[2] - 1
  <2>1. x \in S /\ i \in 0..(f[x] - 1) /\ j \in 0..(w - 1) /\ f[x] \in Nat /\ g[x] \in Nat
    BY <1>1
  <2>2. w * f[x] <= p * g[x]
    BY <2>1
  <2> HIDE DEF x, i, j
  <2>3. PICK e \in Nat : f[x] = i + 1 + e
    <3>1. f[x] - i - 1 \in Nat /\ f[x] = i + 1 + (f[x] - i - 1)
      BY <2>1
    <3> QED BY <3>1
  <2>4. i \in Nat /\ w * f[x] = i * w + w + w * e
    BY <2>1, <2>3
  <2>5. i * w \in Nat /\ w * e \in Nat /\ p * g[x] \in Nat
    BY <2>1, <2>3
  <2>6. i * w + j \in Nat /\ i * w + j < p * g[x]
    BY <2>1, <2>2, <2>4, <2>5
  <2> QED BY <2>6 DEF x, i, j
<1>3. ASSUME NEW u \in A
      PROVE  h[u] \in B
  <2>1. u[1][1] \in S /\ g[u[1][1]] \in Nat
    BY <1>1
  <2> DEFINE n == num(u)
  <2>2. n \in Nat /\ n < p * g[u[1][1]]
    BY <1>2
  <2> HIDE DEF n
  <2>3. n \div p \in Nat /\ n % p \in 0..(p - 1) /\ n \div p < g[u[1][1]]
    BY <2>1, <2>2, DivMod, DivBelow
  <2>4. <<u[1][1], (n \div p) + 1>> \in Units(g, S)
    BY <2>1, <2>3, UnitsMember
  <2>5. (n % p) + 1 \in 1..p
    BY <2>3
  <2>6. h[u] = <<<<u[1][1], (n \div p) + 1>>, (n % p) + 1>>
    BY DEF n
  <2> QED BY <2>4, <2>5, <2>6
<1>4. ASSUME NEW u \in A, NEW v \in A, h[u] = h[v]
      PROVE  u = v
  <2> DEFINE m == num(u)
             n == num(v)
  <2>1. m \in Nat /\ n \in Nat
    BY <1>2
  <2>2. h[u] = <<<<u[1][1], (m \div p) + 1>>, (m % p) + 1>>
    OBVIOUS
  <2>3. h[v] = <<<<v[1][1], (n \div p) + 1>>, (n % p) + 1>>
    OBVIOUS
  <2>4. m = (u[1][2] - 1) * w + (u[2] - 1) /\ n = (v[1][2] - 1) * w + (v[2] - 1)
    OBVIOUS
  <2> HIDE DEF m, n
  <2>5. u[1][1] = v[1][1] /\ (m \div p) + 1 = (n \div p) + 1 /\ (m % p) + 1 = (n % p) + 1
    BY <1>4, <2>2, <2>3
  <2>6. m \div p \in Nat /\ n \div p \in Nat /\ m % p \in Nat /\ n % p \in Nat
    <3>1. m \div p \in Nat /\ m % p \in 0..(p - 1)
      BY <2>1, DivMod
    <3>2. n \div p \in Nat /\ n % p \in 0..(p - 1)
      BY <2>1, DivMod
    <3> QED BY <3>1, <3>2
  <2>7. m = n
    <3>1. m = p * (m \div p) + (m % p) /\ n = p * (n \div p) + (n % p)
      BY <2>1, DivMod
    <3>2. m \div p = n \div p /\ m % p = n % p
      BY <2>5, <2>6
    <3> QED BY <3>1, <3>2
  <2>8. /\ u[1][2] - 1 \in Nat /\ v[1][2] - 1 \in Nat
        /\ u[2] - 1 \in 0..(w - 1) /\ v[2] - 1 \in 0..(w - 1)
        /\ u[1][2] \in Int /\ v[1][2] \in Int /\ u[2] \in Int /\ v[2] \in Int
    <3>1. /\ u[1][1] \in S /\ v[1][1] \in S
          /\ u[1][2] \in 1..f[u[1][1]] /\ v[1][2] \in 1..f[v[1][1]]
          /\ u[2] \in 1..w /\ v[2] \in 1..w
      BY <1>1
    <3>2. f[u[1][1]] \in Nat /\ f[v[1][1]] \in Nat
      BY <3>1
    <3> QED BY <3>1, <3>2
  <2>9. u[1][2] - 1 = v[1][2] - 1 /\ u[2] - 1 = v[2] - 1
    <3> DEFINE a == u[1][2] - 1
               b == v[1][2] - 1
               j == u[2] - 1
               k == v[2] - 1
    <3>1. /\ a \in Nat /\ b \in Nat
          /\ j \in 0..(w - 1) /\ k \in 0..(w - 1)
          /\ a * w + j = b * w + k
      BY <2>4, <2>7, <2>8
    <3> HIDE DEF a, b, j, k
    <3>2. a = b /\ j = k
      BY <3>1, NumberingInjective
    <3> QED BY <3>2 DEF a, b, j, k
  <2>10. u[1][2] = v[1][2] /\ u[2] = v[2]
    BY <2>8, <2>9
  <2> QED BY <1>1, <2>5, <2>10
<1>5. h \in Injection(A, B)
  <2> HIDE DEF A, B
  <2>1. h \in [A -> B]
    BY <1>3
  <2>2. \A u, v \in A : h[u] = h[v] => u = v
    BY <1>4
  <2> HIDE DEF h
  <2> QED BY <2>1, <2>2 DEF Injection, IsInjective
<1>6. /\ IsFiniteSet(Units(f, S)) /\ IsFiniteSet(Units(g, S))
      /\ IsFiniteSet(1..w) /\ Cardinality(1..w) = w
      /\ IsFiniteSet(1..p) /\ Cardinality(1..p) = p
  <2>1. IsFiniteSet(1..w) /\ Cardinality(1..w) = IF 1 > w THEN 0 ELSE w - 1 + 1
    BY FS_Interval
  <2>2. IsFiniteSet(1..p) /\ Cardinality(1..p) = IF 1 > p THEN 0 ELSE p - 1 + 1
    BY FS_Interval
  <2> QED BY <2>1, <2>2, UnitsFinite
<1>7. /\ IsFiniteSet(A) /\ Cardinality(A) = SumOver(f, S) * w
      /\ IsFiniteSet(B) /\ Cardinality(B) = SumOver(g, S) * p
  BY <1>6, FS_Product DEF SumOver
<1>8. Cardinality(A) <= Cardinality(B)
  <2> HIDE DEF A, B, h
  <2> QED BY <1>5, <1>7, FS_Injection
<1>9. SumOver(f, S) \in Nat /\ SumOver(g, S) \in Nat
  BY SumType
<1> QED
  <2>1. SumOver(f, S) * w <= SumOver(g, S) * p
    BY <1>7, <1>8
  <2> HIDE DEF A, B, h
  <2> QED BY <2>1, <1>9
=============================================================================
