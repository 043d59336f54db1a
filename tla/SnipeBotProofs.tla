--------------------------- MODULE SnipeBotProofs ---------------------------
(***************************************************************************)
(* Machine-checked lemmas about the arithmetic of the swaps, and about     *)
(* natural numbers.                                                        *)
(***************************************************************************)
EXTENDS SnipeBot, FiniteSetTheorems, WellFoundedInduction, TLAPS

(* A set of natural numbers has a least one: the form in which induction   *)
(* is used below.                                                          *)
LEMMA LeastNumber ==
  ASSUME NEW S \in SUBSET Nat, S # {}
  PROVE  \E x \in S : \A y \in S : x <= y
<1> DEFINE T == {0 .. x : x \in S}
<1>1. IsWellFoundedOn(StrictSubsetOrdering(Nat), FiniteSubsetsOf(Nat))
  BY FS_StrictSubsetOrderingWellFounded
<1>2. T \subseteq FiniteSubsetsOf(Nat)
  <2>1. \A x \in Nat : 0 .. x \in SUBSET Nat /\ IsFiniteSet(0 .. x)
    BY FS_Interval
  <2> QED BY <2>1 DEF FiniteSubsetsOf
<1>3. T # {}
  OBVIOUS
<1> HIDE DEF T
<1>4. PICK t \in T : \A u \in T : ~ (<<u, t>> \in StrictSubsetOrdering(Nat))
  BY <1>1, <1>2, <1>3, WFMin
<1>5. PICK x \in S : t = 0 .. x
  BY DEF T
<1>6. ASSUME NEW y \in S, ~ x <= y
      PROVE  FALSE
  <2>1. 0 .. y \in T /\ t \in T
    BY DEF T
  <2>2. 0 .. y \in SUBSET Nat /\ t \in SUBSET Nat
    BY <1>5
  <2>3. 0 .. y \subseteq t /\ 0 .. y # t
    <3>1. x \in Nat /\ y \in Nat /\ y < x
      BY <1>6
    <3>2. 0 .. y \subseteq 0 .. x
      BY <3>1
    <3>3. x \in 0 .. x /\ x \notin 0 .. y
      BY <3>1
    <3> QED BY <3>2, <3>3, <1>5
  <2>4. <<0 .. y, t>> \in StrictSubsetOrdering(Nat)
    BY <2>1, <2>2, <2>3, <1>2 DEF StrictSubsetOrdering, FiniteSubsetsOf
  <2> QED BY <2>1, <2>4, <1>4
<1> QED BY <1>6

(* What \div computes.                                                    *)
LEMMA Division ==
  ASSUME NEW x \in Nat, NEW c \in Nat \ {0}
  PROVE  /\ x \div c \in Nat
         /\ (x \div c) * c <= x
         /\ x < (x \div c + 1) * c
  OBVIOUS

(* Multiplication by a natural number keeps the order.                     *)
LEMMA MultiplicationMonotonic ==
  ASSUME NEW a \in Nat, NEW b \in Nat, NEW c \in Nat, a <= b
  PROVE  a * c <= b * c /\ c * a <= c * b /\ a * c \in Nat /\ a * c = c * a
  OBVIOUS

LEMMA QuotientAtLeast ==
  ASSUME NEW q \in Nat, NEW y \in Nat, NEW d \in Nat \ {0}, q * d <= y
  PROVE  q <= y \div d
<1> DEFINE r == y \div d
<1>1. r \in Nat /\ y < (r + 1) * d
  BY Division
<1> HIDE DEF r
<1>2. CASE q > r
  <2>1. (r + 1) * d <= q * d
    BY <1>1, <1>2, MultiplicationMonotonic
  <2> QED BY <1>1, <2>1
<1> QED BY <1>1, <1>2 DEF r

(* A larger dividend and a smaller divisor give a larger quotient.         *)
LEMMA QuotientMonotonic ==
  ASSUME NEW x \in Nat, NEW y \in Nat, NEW c \in Nat \ {0}, NEW d \in Nat \ {0},
         x <= y, d <= c
  PROVE  x \div c <= y \div d
<1> DEFINE q == x \div c
<1>1. q \in Nat /\ q * c <= x
  BY Division
<1> HIDE DEF q
<1>2. q * d <= q * c /\ q * d \in Nat /\ q * c \in Nat
  BY <1>1, MultiplicationMonotonic
<1>3. q * d <= y
  BY <1>1, <1>2
<1> QED BY <1>1, <1>3, QuotientAtLeast DEF q

LEMMA QuotientAtMost ==
  ASSUME NEW x \in Nat, NEW c \in Nat \ {0}, NEW t \in Nat, x <= c * t
  PROVE  x \div c <= t
<1> DEFINE q == x \div c
<1>1. q \in Nat /\ q * c <= x
  BY Division
<1> HIDE DEF q
<1>2. CASE q > t
  <2>1. (t + 1) * c <= q * c /\ (t + 1) * c = c * t + c
    BY <1>1, <1>2, MultiplicationMonotonic
  <2> QED BY <1>1, <2>1
<1> QED BY <1>1, <1>2 DEF q

(* A buy never takes more tokens than the pool has.                        *)
LEMMA BoughtLessThanReserve ==
  ASSUME NEW pool \in Pool, NEW value \in Nat \ {0}, HasLiquidity(pool)
  PROVE  TokensBought(pool, value) \in 0 .. pool.token
<1> DEFINE N == pool.native
           T == pool.token
           V == value * 997
<1>1. N \in Nat \ {0} /\ T \in Nat \ {0} /\ V \in Nat \ {0}
  <2>1. N \in Nat /\ T \in Nat
    BY DEF Pool
  <2>2. N > 0 /\ T > 0
    BY DEF HasLiquidity
  <2>3. V \in Nat \ {0}
    OBVIOUS
  <2> QED BY <2>1, <2>2, <2>3
<1> HIDE DEF N, T, V
<1> DEFINE C == N * 1000 + V
<1>2. C \in Nat \ {0} /\ V <= C
  BY <1>1
<1> HIDE DEF C
<1>3. V * T \in Nat /\ V * T <= C * T
  BY <1>1, <1>2, MultiplicationMonotonic
<1>4. (V * T) \div C \in Nat /\ (V * T) \div C <= T
  BY <1>1, <1>2, <1>3, Division, QuotientAtMost
<1> QED BY <1>1, <1>4 DEF TokensBought, AmountOut, N, T, V, C

(* The simulation underestimates: selling the tokens to the pool as it was *)
(* before the buy returns no more than selling them to the pool after it.  *)
LEMMA RoundTripIsBetter ==
  ASSUME NEW pool \in Pool, NEW value \in Nat \ {0}, HasLiquidity(pool),
         TokensBought(pool, value) > 0
  PROVE  /\ NativeSold(pool, TokensBought(pool, value)) \in Nat
         /\ RoundTrip(pool, value) \in Nat
         /\ NativeSold(pool, TokensBought(pool, value)) <= RoundTrip(pool, value)
<1> DEFINE N == pool.native
           T == pool.token
           a == TokensBought(pool, value)
<1>1. N \in Nat \ {0} /\ T \in Nat \ {0} /\ a \in Nat \ {0} /\ a <= T
  <2>1. N \in Nat /\ T \in Nat
    BY DEF Pool
  <2>2. N > 0 /\ T > 0
    BY DEF HasLiquidity
  <2>3. a \in Nat \ {0} /\ a <= T
    <3>1. a \in 0 .. T
      BY BoughtLessThanReserve
    <3> QED BY <2>1, <3>1
  <2> QED BY <2>1, <2>2, <2>3
<1>2. RoundTrip(pool, value) = (a * 997 * (N + value)) \div ((T - a) * 1000 + a * 997)
  BY DEF RoundTrip, NativeSold, AmountOut, AfterBuy, Pool
<1>3. NativeSold(pool, a) = (a * 997 * N) \div (T * 1000 + a * 997)
  BY DEF NativeSold, AmountOut
<1> HIDE DEF N, T, a
<1> DEFINE A == a * 997
<1>4. A \in Nat \ {0}
  BY <1>1
<1>5. T * 1000 + A \in Nat \ {0} /\ (T - a) * 1000 + A \in Nat \ {0}
      /\ (T - a) * 1000 + A <= T * 1000 + A
  BY <1>1, <1>4
<1> HIDE DEF A
<1>6. A * N \in Nat /\ A * (N + value) \in Nat /\ A * N <= A * (N + value)
  BY <1>1, <1>4, MultiplicationMonotonic
<1>7. (A * N) \div (T * 1000 + A) <= (A * (N + value)) \div ((T - a) * 1000 + A)
  <2> DEFINE x == A * N
             y == A * (N + value)
             c == T * 1000 + A
             d == (T - a) * 1000 + A
  <2> HIDE DEF x, y, c, d
  <2>1. x \in Nat /\ y \in Nat /\ c \in Nat \ {0} /\ d \in Nat \ {0} /\ x <= y /\ d <= c
    BY <1>5, <1>6 DEF x, y, c, d
  <2>2. x \div c <= y \div d
    BY <2>1, QuotientMonotonic
  <2> QED BY <2>2 DEF x, y, c, d
<1>8. (A * N) \div (T * 1000 + A) \in Nat
      /\ (A * (N + value)) \div ((T - a) * 1000 + A) \in Nat
  BY <1>5, <1>6, Division
<1> QED BY <1>2, <1>3, <1>7, <1>8 DEF a, A
=============================================================================
