------------------------------ MODULE Numbers ------------------------------
(***************************************************************************)
(* Facts about numbers that the proofs of several modules rest on: what    *)
(* products and quotients by a variable amount to, and least elements,     *)
(* through which the proofs do their inductions.                           *)
(***************************************************************************)
EXTENDS Integers, FiniteSetsExt, FiniteSetTheorems, WellFoundedInduction, TLAPS

\* Multiplying keeps the order.
LEMMA MulMonotone ==
  ASSUME NEW a \in Int, NEW b \in Int, NEW c \in Nat, a <= b
  PROVE  a * c <= b * c
  OBVIOUS

\* A common positive factor can be taken away.
LEMMA MulCancel ==
  ASSUME NEW a \in Int, NEW b \in Int, NEW c \in Nat \ {0}, a * c < b * c
  PROVE  a < b
  OBVIOUS

\* What \div and % are.
LEMMA DivMod ==
  ASSUME NEW x \in Int, NEW c \in Nat \ {0}
  PROVE  /\ x \div c \in Int
         /\ x % c \in 0..(c - 1)
         /\ x = c * (x \div c) + (x % c)
  OBVIOUS

\* A quotient is found by its remainder.
LEMMA QuotientIs ==
  ASSUME NEW x \in Int, NEW c \in Nat \ {0}, NEW q \in Int, NEW r \in Nat, r < c, x = c * q + r
  PROVE  x \div c = q /\ x % c = r
<1> DEFINE p == x \div c
           s == x % c
<1>1. p \in Int /\ s \in 0..(c - 1) /\ x = c * p + s
  BY DivMod
<1> HIDE DEF p, s
<1>2. ASSUME p < q PROVE FALSE
  <2>1. p + 1 <= q
    BY <1>1, <1>2
  <2>2. (p + 1) * c <= q * c
    BY <1>1, <2>1, MulMonotone
  <2>3. (p + 1) * c = c * p + c /\ q * c = c * q /\ c * p \in Int /\ c * q \in Int
    BY <1>1
  <2> QED
    BY <1>1, <2>2, <2>3
<1>3. ASSUME q < p PROVE FALSE
  <2>1. q + 1 <= p
    BY <1>1, <1>3
  <2>2. (q + 1) * c <= p * c
    BY <1>1, <2>1, MulMonotone
  <2>3. (q + 1) * c = c * q + c /\ p * c = c * p /\ c * p \in Int /\ c * q \in Int
    BY <1>1
  <2> QED
    BY <1>1, <2>2, <2>3
<1>4. p = q
  BY <1>1, <1>2, <1>3
<1>5. s = r
  BY <1>1, <1>4
<1> QED
  BY <1>4, <1>5 DEF p, s

\* A multiple leaves no remainder.
LEMMA ModOfMultiple ==
  ASSUME NEW n \in Int, NEW c \in Nat \ {0}
  PROVE  (n * c) % c = 0
<1> DEFINE x == n * c
           q == x \div c
           r == x % c
<1>1. x \in Int
  OBVIOUS
<1> HIDE DEF x
<1>2. q \in Int /\ r \in 0..(c - 1) /\ x = c * q + r
  BY <1>1, DivMod
<1> HIDE DEF q, r
<1>3. r = (n - q) * c
  BY <1>2 DEF x
<1>4. n - q < 1
  <2>1. (n - q) * c < 1 * c
    BY <1>2, <1>3
  <2> QED
    BY <2>1, <1>2, MulCancel
<1>5. n - q > -1
  <2>1. (-1) * c < (n - q) * c
    BY <1>2, <1>3
  <2> QED
    BY <2>1, <1>2, MulCancel
<1>6. r = 0
  BY <1>2, <1>3, <1>4, <1>5
<1> QED
  BY <1>6 DEF r, x

\* A quotient rounded up, times its divisor, is no less than what was divided.
LEMMA CeilingCovers ==
  ASSUME NEW a \in Nat, NEW c \in Nat \ {0}
  PROVE  /\ (a + c - 1) \div c \in Nat
         /\ a <= ((a + c - 1) \div c) * c
<1> DEFINE x == a + c - 1
           q == x \div c
<1>1. x \in Nat
  OBVIOUS
<1> HIDE DEF x
<1>2. q \in Int /\ x = c * q + (x % c) /\ x % c \in 0..(c - 1)
  BY <1>1, DivMod
<1> HIDE DEF q
<1>3. a <= q * c
  BY <1>2 DEF x
<1>4. q > -1
  <2>1. (-1) * c < q * c
    BY <1>2, <1>3
  <2> QED
    BY <2>1, <1>2, MulCancel
<1> QED
  BY <1>2, <1>3, <1>4 DEF q, x

\* A nonempty set of naturals has a least element.
LEMMA LeastNatural ==
  ASSUME NEW T, T \subseteq Nat, T # {}
  PROVE  \E x \in T : \A y \in T : x <= y
<1> DEFINE R == OpToRel(<, Nat)
<1>1. IsWellFoundedOn(R, Nat)
  BY NatLessThanWellFounded
<1>2. \A x, y \in Nat : x < y => <<x, y>> \in R
  BY DEF OpToRel
<1> HIDE DEF R
<1>3. PICK x \in T : \A y \in T : <<y, x>> \notin R
  BY <1>1, WFMin
<1>4. \A y \in T : ~ (y < x)
  BY <1>2, <1>3
<1> QED
  BY <1>4

\* A finite nonempty set of integers has a greatest element.
LEMMA GreatestInteger ==
  ASSUME NEW S, S \subseteq Int, IsFiniteSet(S), S # {}
  PROVE  \E x \in S : \A y \in S : y <= x
<1> DEFINE Has(T) == \E x \in T : \A y \in T : y <= x
           Without == {T \in SUBSET S : T # {} /\ ~Has(T)}
           sizes == {Cardinality(T) : T \in Without}
<1>1. \A T \in SUBSET S : IsFiniteSet(T) /\ Cardinality(T) \in Nat
  BY FS_Subset, FS_CardinalityType
<1>2. SUFFICES ASSUME Without # {} PROVE FALSE
  OBVIOUS
<1>3. sizes \subseteq Nat /\ sizes # {}
  BY <1>1, <1>2
<1>4. PICK n \in sizes : \A m \in sizes : n <= m
  BY <1>3, LeastNatural
<1>5. PICK T \in Without : n = Cardinality(T)
  BY <1>4
<1>6. PICK x \in T : TRUE
  BY <1>5
<1>7. IsFiniteSet(T) /\ Cardinality(T) \in Nat /\ Cardinality(T \ {x}) = Cardinality(T) - 1
  BY <1>1, <1>5, <1>6, FS_RemoveElement
<1>8. T \ {x} \notin Without
  <2>1. SUFFICES ASSUME T \ {x} \in Without PROVE FALSE
    OBVIOUS
  <2>2. Cardinality(T \ {x}) \in sizes
    BY <2>1
  <2> HIDE DEF sizes, Without
  <2>3. n <= Cardinality(T \ {x})
    BY <1>4, <2>2
  <2> QED
    BY <1>5, <1>7, <2>3
<1>9. CASE T \ {x} = {}
  BY <1>5, <1>6, <1>9
<1>10. CASE T \ {x} # {}
  <2>1. PICK y \in T \ {x} : \A z \in T \ {x} : z <= y
    BY <1>5, <1>8, <1>10
  <2>2. x \in Int /\ y \in Int /\ \A z \in T : z \in Int
    BY <1>5, <1>6
  <2>3. CASE x <= y
    BY <1>5, <2>1, <2>2, <2>3
  <2>4. CASE y <= x
    <3>1. \A z \in T : z <= x
      BY <2>1, <2>2, <2>4
    <3> QED
      BY <1>5, <1>6, <3>1
  <2> QED
    BY <2>2, <2>3, <2>4
<1> QED
  BY <1>9, <1>10

-----------------------------------------------------------------------------
(* Powers of two: as many as a set has subsets.                            *)

LEMMA SubsetsOfInterval ==
  ASSUME NEW n \in Nat
  PROVE  IsFiniteSet(SUBSET (1..n)) /\ Cardinality(SUBSET (1..n)) = 2^n
<1>1. IsFiniteSet(1..n) /\ Cardinality(1..n) = n
  BY FS_Interval
<1> QED
  BY <1>1, FS_SUBSET

LEMMA PowerOfTwo ==
  ASSUME NEW n \in Nat
  PROVE  2^n \in Nat \ {0}
<1>1. {} \in SUBSET (1..n)
  OBVIOUS
<1>2. Cardinality(SUBSET (1..n)) # 0 /\ Cardinality(SUBSET (1..n)) \in Nat
  BY <1>1, SubsetsOfInterval, FS_EmptySet, FS_CardinalityType
<1> QED
  BY <1>2, SubsetsOfInterval

LEMMA NextPower ==
  ASSUME NEW n \in Nat
  PROVE  2^(n + 1) = 2 * 2^n
<1> DEFINE S == SUBSET (1..n)
           f == [X \in S |-> X \union {n + 1}]
           T == {f[X] : X \in S}
<1>1. IsFiniteSet(S) /\ Cardinality(S) = 2^n
  BY SubsetsOfInterval
<1>2. n + 1 \notin 1..n
  OBVIOUS
<1>3. f \in Bijection(S, T)
  <2>1. \A X, Y \in S : f[X] = f[Y] => X = Y
    BY <1>2
  <2>2. f \in [S -> T]
    OBVIOUS
  <2>3. \A Y \in T : \E X \in S : f[X] = Y
    OBVIOUS
  <2> HIDE DEF S, T, f
  <2> QED
    BY <2>1, <2>2, <2>3 DEF Bijection, Injection, IsInjective, Surjection
<1>4. IsFiniteSet(T) /\ Cardinality(T) = Cardinality(S)
  BY <1>1, <1>3, FS_Bijection DEF ExistsBijection
<1>5. SUBSET (1..(n + 1)) = S \union T
  <2>1. 1..(n + 1) = (1..n) \union {n + 1}
    OBVIOUS
  <2>2. ASSUME NEW X \in SUBSET (1..(n + 1)), n + 1 \in X PROVE X \in T
    <3>1. X \ {n + 1} \in S /\ X = (X \ {n + 1}) \union {n + 1}
      BY <2>1, <2>2
    <3> QED
      BY <3>1
  <2>3. T \subseteq SUBSET (1..(n + 1)) /\ S \subseteq SUBSET (1..(n + 1))
    BY <2>1
  <2>4. \A X \in SUBSET (1..(n + 1)) : n + 1 \notin X => X \in S
    BY <2>1
  <2> QED
    BY <2>2, <2>3, <2>4
<1>6. S \intersect T = {}
  BY <1>2
<1> HIDE DEF S, T, f
<1>7. Cardinality(S \union T) = Cardinality(S) + Cardinality(T) - Cardinality(S \intersect T)
  BY <1>1, <1>4, FS_Union
<1>8. Cardinality(S \intersect T) = 0
  BY <1>6, FS_EmptySet
<1>9. Cardinality(SUBSET (1..(n + 1))) = 2^(n + 1)
  BY SubsetsOfInterval, n + 1 \in Nat
<1>10. Cardinality(SUBSET (1..(n + 1))) = Cardinality(S \union T)
  BY <1>5
<1>11. 2^n \in Nat
  BY PowerOfTwo
<1>12. Cardinality(S \union T) = 2^n + 2^n - 0
  BY <1>1, <1>4, <1>7, <1>8
<1> QED
  BY <1>9, <1>10, <1>11, <1>12

LEMMA PowerOfSum ==
  ASSUME NEW a \in Nat, NEW b \in Nat
  PROVE  2^(a + b) = 2^a * 2^b
<1> DEFINE Wrong == {n \in Nat : 2^(a + n) # 2^a * 2^n}
<1>1. SUFFICES ASSUME Wrong # {} PROVE FALSE
  OBVIOUS
<1>2. PICK n \in Wrong : \A m \in Wrong : n <= m
  BY <1>1, LeastNatural
<1>3. CASE n = 0
  <2>1. 2^a \in Nat /\ a + 0 = a
    BY PowerOfTwo
  <2>2. 2^(a + n) = 2^a * 1
    BY <1>3, <2>1
  <2> QED
    BY <1>2, <1>3, <2>2
<1>4. CASE n # 0
  <2>1. n - 1 \in Nat /\ n - 1 \notin Wrong
    BY <1>2, <1>4
  <2>2. 2^(a + (n - 1)) = 2^a * 2^(n - 1)
    BY <2>1
  <2>3. 2^n = 2 * 2^(n - 1)
    BY <2>1, NextPower, (n - 1) + 1 = n
  <2>4. 2^(a + n) = 2 * 2^(a + (n - 1))
    BY <2>1, NextPower, (a + (n - 1)) + 1 = a + n, a + (n - 1) \in Nat
  <2>5. 2^a \in Nat /\ 2^(n - 1) \in Nat
    BY <2>1, PowerOfTwo
  <2>6. 2^(a + n) = 2^a * 2^n
    BY <2>2, <2>3, <2>4, <2>5
  <2> QED
    BY <1>2, <2>6
<1> QED
  BY <1>3, <1>4

-----------------------------------------------------------------------------
(* Finite sets, and sums over them, which MapThenSumSet takes one element  *)
(* at a time.                                                              *)

\* What holds of a set as soon as it holds of the set without any of its elements
\* holds of every finite set.
LEMMA SmallerFirst ==
  ASSUME NEW S, IsFiniteSet(S), NEW Good,
         \A T \in SUBSET S : (\A x \in T : T \ {x} \in Good) => T \in Good
  PROVE  \A T \in SUBSET S : T \in Good
<1> DEFINE Bad == (SUBSET S) \ Good
           sizes == {Cardinality(T) : T \in Bad}
<1>1. SUFFICES ASSUME Bad # {} PROVE FALSE
  OBVIOUS
<1>2. \A T \in SUBSET S : IsFiniteSet(T) /\ Cardinality(T) \in Nat
  BY FS_Subset, FS_CardinalityType
<1>3. sizes \subseteq Nat /\ sizes # {}
  BY <1>1, <1>2
<1>4. PICK n \in sizes : \A k \in sizes : n <= k
  <2> HIDE DEF sizes
  <2> QED
    BY <1>3, LeastNatural
<1>5. PICK T \in Bad : n = Cardinality(T)
  BY <1>4
<1>6. PICK x \in T : T \ {x} \in Bad
  <2>1. T \in SUBSET S /\ T \notin Good
    BY <1>5
  <2>2. PICK x \in T : T \ {x} \notin Good
    BY <2>1
  <2> QED
    BY <2>1, <2>2
<1>7. Cardinality(T \ {x}) = Cardinality(T) - 1
  BY <1>2, <1>5, <1>6, FS_RemoveElement
<1>8. Cardinality(T \ {x}) \in sizes
  BY <1>6
<1> HIDE DEF sizes, Bad
<1> QED
  BY <1>3, <1>4, <1>5, <1>7, <1>8

Sum(f, S) == MapThenSumSet(LAMBDA x : f[x], S)

AnyOf(s) == CHOOSE x \in s : TRUE

\* g gives each part of S its sum, as MapThenSumSet reckons it.
Sums(g, f, S) ==
  g = [s \in SUBSET S |-> IF s = {} THEN 0 ELSE f[AnyOf(s)] + g[s \ {AnyOf(s)}]]

LEMMA SumByChoice ==
  ASSUME NEW f, NEW S
  PROVE  Sum(f, S) = (CHOOSE g : Sums(g, f, S))[S]
BY DEF Sum, MapThenSumSet, MapThenFoldSet, Sums, AnyOf

LEMMA AnyOfIsOne ==
  ASSUME NEW s, s # {}
  PROVE  AnyOf(s) \in s
BY DEF AnyOf

LEMMA SumsOfParts ==
  ASSUME NEW S, NEW f, NEW g, Sums(g, f, S), NEW T \in SUBSET S, NEW h, Sums(h, f, T), IsFiniteSet(T)
  PROVE  h[T] = g[T]
<1> DEFINE Good == {V \in SUBSET T : h[V] = g[V]}
<1>1. ASSUME NEW V \in SUBSET T, \A x \in V : V \ {x} \in Good PROVE V \in Good
  <2>1. CASE V = {}
    BY <2>1 DEF Sums
  <2>2. CASE V # {}
    <3>1. AnyOf(V) \in V
      BY <2>2, AnyOfIsOne
    <3>2. h[V \ {AnyOf(V)}] = g[V \ {AnyOf(V)}]
      BY <1>1, <3>1
    <3>3. h[V] = f[AnyOf(V)] + h[V \ {AnyOf(V)}] /\ g[V] = f[AnyOf(V)] + g[V \ {AnyOf(V)}]
      BY <2>2 DEF Sums
    <3> QED
      BY <3>2, <3>3
  <2> QED
    BY <2>1, <2>2
<1>2. \A V \in SUBSET T : V \in Good
  <2> HIDE DEF Good
  <2> QED
    BY <1>1, SmallerFirst
<1> QED
  BY <1>2

LEMMA SumsExist ==
  ASSUME NEW S, IsFiniteSet(S), NEW f
  PROVE  \E g : Sums(g, f, S)
<1> DEFINE Good == {T \in SUBSET S : \A V \in SUBSET T : \E g : Sums(g, f, V)}
<1>1. ASSUME NEW T \in SUBSET S, \A x \in T : T \ {x} \in Good PROVE T \in Good
  <2>1. ASSUME NEW V \in SUBSET T, V # T PROVE \E g : Sums(g, f, V)
    BY <1>1, <2>1
  <2> DEFINE k == [V \in SUBSET T |-> IF V = {} THEN 0 ELSE f[AnyOf(V)] + Sum(f, V \ {AnyOf(V)})]
  <2>2. ASSUME NEW W \in SUBSET T, W # T PROVE k[W] = Sum(f, W)
    <3>1. PICK g : Sums(g, f, W) /\ Sum(f, W) = g[W]
      BY <2>1, <2>2, SumByChoice
    <3>2. CASE W = {}
      BY <3>1, <3>2 DEF Sums
    <3>3. CASE W # {}
      <4> DEFINE z == AnyOf(W)
                 U == W \ {z}
      <4>1. z \in W
        BY <3>3, AnyOfIsOne
      <4>2. PICK h : Sums(h, f, U) /\ Sum(f, U) = h[U]
        BY <2>1, <2>2, <4>1, SumByChoice
      <4>3. IsFiniteSet(U)
        BY FS_Subset
      <4>4. h[U] = g[U]
        <5> HIDE DEF U
        <5> QED
          BY <3>1, <4>2, <4>3, SumsOfParts, U \in SUBSET W DEF U
      <4>5. g[W] = f[z] + g[U]
        BY <3>1, <3>3 DEF Sums
      <4>6. k[W] = f[z] + Sum(f, U)
        BY <3>3
      <4> QED
        BY <3>1, <4>2, <4>4, <4>5, <4>6
    <3> QED
      BY <3>2, <3>3
  <2>3. ASSUME NEW V \in SUBSET T, V # {}
        PROVE  k[V] = f[AnyOf(V)] + k[V \ {AnyOf(V)}]
    <3>1. AnyOf(V) \in V
      BY <2>3, AnyOfIsOne
    <3>2. k[V \ {AnyOf(V)}] = Sum(f, V \ {AnyOf(V)})
      BY <2>2, <3>1
    <3> QED
      BY <2>3, <3>2
  <2>4. k[{}] = 0
    OBVIOUS
  <2>5. k = [V \in SUBSET T |-> k[V]]
    OBVIOUS
  <2> HIDE DEF k
  <2>6. Sums(k, f, T)
    BY <2>3, <2>4, <2>5 DEF Sums
  <2> QED
    BY <2>1, <2>6
<1>2. \A T \in SUBSET S : T \in Good
  <2> HIDE DEF Good
  <2> QED
    BY <1>1, SmallerFirst
<1> QED
  BY <1>2

LEMMA SumOfNone ==
  ASSUME NEW f
  PROVE  Sum(f, {}) = 0
<1>1. PICK g : Sums(g, f, {}) /\ Sum(f, {}) = g[{}]
  BY FS_EmptySet, SumsExist, SumByChoice
<1> QED
  BY <1>1 DEF Sums

LEMMA SumByAnyOf ==
  ASSUME NEW S, IsFiniteSet(S), S # {}, NEW f
  PROVE  Sum(f, S) = f[AnyOf(S)] + Sum(f, S \ {AnyOf(S)})
<1> DEFINE y == AnyOf(S)
           T == S \ {y}
<1>1. IsFiniteSet(T)
  BY FS_Subset
<1> HIDE DEF T
<1>2. PICK g : Sums(g, f, S) /\ Sum(f, S) = g[S]
  BY SumsExist, SumByChoice
<1>3. PICK h : Sums(h, f, T) /\ Sum(f, T) = h[T]
  BY <1>1, SumsExist, SumByChoice
<1>4. h[T] = g[T]
  BY <1>1, <1>2, <1>3, SumsOfParts, T \in SUBSET S DEF T
<1>5. g[S] = f[y] + g[T]
  BY <1>2 DEF Sums, T
<1> QED
  BY <1>2, <1>3, <1>4, <1>5 DEF T

LEMMA SumIsInt ==
  ASSUME NEW S, IsFiniteSet(S), NEW f, \A x \in S : f[x] \in Int
  PROVE  Sum(f, S) \in Int
<1> DEFINE Good == {T \in SUBSET S : Sum(f, T) \in Int}
<1>1. ASSUME NEW T \in SUBSET S, \A x \in T : T \ {x} \in Good PROVE T \in Good
  <2>1. CASE T = {}
    BY <2>1, SumOfNone
  <2>2. CASE T # {}
    <3>1. AnyOf(T) \in T
      BY <2>2, AnyOfIsOne
    <3>2. IsFiniteSet(T)
      BY FS_Subset
    <3>3. Sum(f, T) = f[AnyOf(T)] + Sum(f, T \ {AnyOf(T)})
      BY <2>2, <3>2, SumByAnyOf
    <3> QED
      BY <1>1, <3>1, <3>3
  <2> QED
    BY <2>1, <2>2
<1>2. \A T \in SUBSET S : T \in Good
  <2> HIDE DEF Good
  <2> QED
    BY <1>1, SmallerFirst
<1> QED
  BY <1>2

\* A sum is any of its terms and the sum of the others.
LEMMA SumTakes ==
  ASSUME NEW S, IsFiniteSet(S), NEW f, \A x \in S : f[x] \in Int
  PROVE  /\ Sum(f, S) \in Int
         /\ \A x \in S : Sum(f, S) = f[x] + Sum(f, S \ {x})
<1> DEFINE Good == {T \in SUBSET S : Sum(f, T) \in Int /\ \A x \in T : Sum(f, T) = f[x] + Sum(f, T \ {x})}
<1>1. ASSUME NEW T \in SUBSET S, \A x \in T : T \ {x} \in Good PROVE T \in Good
  <2>1. CASE T = {}
    BY <2>1, SumOfNone
  <2>2. CASE T # {}
    <3> DEFINE y == AnyOf(T)
    <3>1. y \in T
      BY <2>2, AnyOfIsOne
    <3>2. IsFiniteSet(T)
      BY FS_Subset
    <3>3. Sum(f, T) = f[y] + Sum(f, T \ {y})
      BY <2>2, <3>2, SumByAnyOf
    <3> HIDE DEF y
    <3>4. f[y] \in Int /\ Sum(f, T \ {y}) \in Int
      BY <1>1, <3>1
    <3>5. ASSUME NEW x \in T PROVE Sum(f, T) = f[x] + Sum(f, T \ {x})
      <4>1. CASE x = y
        BY <3>3, <4>1
      <4>2. CASE x # y
        <5>1. Sum(f, (T \ {y}) \ {x}) = Sum(f, (T \ {x}) \ {y})
          <6>1. (T \ {y}) \ {x} = (T \ {x}) \ {y}
            OBVIOUS
          <6> QED
            BY <6>1
        <5>2. Sum(f, T \ {y}) = f[x] + Sum(f, (T \ {y}) \ {x})
          BY <1>1, <3>1, <4>2
        <5>3. Sum(f, T \ {x}) = f[y] + Sum(f, (T \ {x}) \ {y})
          BY <1>1, <3>1, <4>2
        <5>4. IsFiniteSet((T \ {y}) \ {x})
          BY <3>2, FS_Subset
        <5>5. Sum(f, (T \ {y}) \ {x}) \in Int
          BY <5>4, SumIsInt
        <5>6. f[x] \in Int
          OBVIOUS
        <5> QED
          BY <3>3, <3>4, <5>1, <5>2, <5>3, <5>5, <5>6
      <4> QED
        BY <4>1, <4>2
    <3> QED
      BY <3>3, <3>4, <3>5
  <2> QED
    BY <2>1, <2>2
<1>2. \A T \in SUBSET S : T \in Good
  <2> HIDE DEF Good
  <2> QED
    BY <1>1, SmallerFirst
<1> QED
  BY <1>2
LEMMA SumAdds ==
  ASSUME NEW S, IsFiniteSet(S), NEW x, x \notin S, NEW f, f[x] \in Int, \A y \in S : f[y] \in Int
  PROVE  Sum(f, S \union {x}) = f[x] + Sum(f, S)
<1>1. IsFiniteSet(S \union {x})
  BY FS_AddElement
<1>2. (S \union {x}) \ {x} = S
  OBVIOUS
<1>3. \A y \in S \union {x} : f[y] \in Int
  OBVIOUS
<1> QED
  BY <1>1, <1>2, <1>3, SumTakes, x \in S \union {x}

\* Equal terms make equal sums.
LEMMA SumOfEquals ==
  ASSUME NEW S, IsFiniteSet(S), NEW f, NEW g, \A x \in S : f[x] = g[x]
  PROVE  Sum(f, S) = Sum(g, S)
<1> DEFINE Good == {T \in SUBSET S : Sum(f, T) = Sum(g, T)}
<1>1. ASSUME NEW T \in SUBSET S, \A x \in T : T \ {x} \in Good PROVE T \in Good
  <2>1. CASE T = {}
    BY <2>1, SumOfNone
  <2>2. CASE T # {}
    <3>1. AnyOf(T) \in T
      BY <2>2, AnyOfIsOne
    <3>2. IsFiniteSet(T)
      BY FS_Subset
    <3>3. /\ Sum(f, T) = f[AnyOf(T)] + Sum(f, T \ {AnyOf(T)})
          /\ Sum(g, T) = g[AnyOf(T)] + Sum(g, T \ {AnyOf(T)})
      BY <2>2, <3>2, SumByAnyOf
    <3> QED
      BY <1>1, <3>1, <3>3
  <2> QED
    BY <2>1, <2>2
<1>2. \A T \in SUBSET S : T \in Good
  <2> HIDE DEF Good
  <2> QED
    BY <1>1, SmallerFirst
<1> QED
  BY <1>2

\* Larger terms make larger sums.
LEMMA SumOfLarger ==
  ASSUME NEW S, IsFiniteSet(S), NEW f, NEW g,
         \A x \in S : f[x] \in Int /\ g[x] \in Int /\ f[x] <= g[x]
  PROVE  Sum(f, S) <= Sum(g, S)
<1> DEFINE Good == {T \in SUBSET S : Sum(f, T) <= Sum(g, T)}
<1>1. ASSUME NEW T \in SUBSET S, \A x \in T : T \ {x} \in Good PROVE T \in Good
  <2>1. CASE T = {}
    BY <2>1, SumOfNone
  <2>2. CASE T # {}
    <3> DEFINE y == AnyOf(T)
               U == T \ {y}
    <3>1. y \in T
      BY <2>2, AnyOfIsOne
    <3>2. IsFiniteSet(T) /\ IsFiniteSet(U)
      BY FS_Subset
    <3>3. Sum(f, T) = f[y] + Sum(f, U) /\ Sum(g, T) = g[y] + Sum(g, U)
      BY <2>2, <3>2, SumByAnyOf
    <3>4. Sum(f, U) \in Int /\ Sum(g, U) \in Int
      BY <3>2, SumIsInt
    <3>5. Sum(f, U) <= Sum(g, U)
      BY <1>1, <3>1
    <3>6. f[y] \in Int /\ g[y] \in Int /\ f[y] <= g[y]
      BY <3>1
    <3> HIDE DEF U, y
    <3> QED
      BY <3>3, <3>4, <3>5, <3>6
  <2> QED
    BY <2>1, <2>2
<1>2. \A T \in SUBSET S : T \in Good
  <2> HIDE DEF Good
  <2> QED
    BY <1>1, SmallerFirst
<1> QED
  BY <1>2

\* The sum of sums.
LEMMA SumOfBoth ==
  ASSUME NEW S, IsFiniteSet(S), NEW f, NEW g, NEW h,
         \A x \in S : f[x] \in Int /\ g[x] \in Int /\ h[x] = f[x] + g[x]
  PROVE  Sum(h, S) = Sum(f, S) + Sum(g, S)
<1> DEFINE Good == {T \in SUBSET S : Sum(h, T) = Sum(f, T) + Sum(g, T)}
<1>1. ASSUME NEW T \in SUBSET S, \A x \in T : T \ {x} \in Good PROVE T \in Good
  <2>1. CASE T = {}
    BY <2>1, SumOfNone
  <2>2. CASE T # {}
    <3> DEFINE y == AnyOf(T)
               U == T \ {y}
    <3>1. y \in T
      BY <2>2, AnyOfIsOne
    <3>2. IsFiniteSet(T) /\ IsFiniteSet(U)
      BY FS_Subset
    <3>3. Sum(f, T) = f[y] + Sum(f, U) /\ Sum(g, T) = g[y] + Sum(g, U) /\ Sum(h, T) = h[y] + Sum(h, U)
      BY <2>2, <3>2, SumByAnyOf
    <3>4. Sum(f, U) \in Int /\ Sum(g, U) \in Int
      BY <3>2, SumIsInt
    <3>5. Sum(h, U) = Sum(f, U) + Sum(g, U)
      BY <1>1, <3>1
    <3>6. f[y] \in Int /\ g[y] \in Int /\ h[y] = f[y] + g[y]
      BY <3>1
    <3> HIDE DEF U, y
    <3> QED
      BY <3>3, <3>4, <3>5, <3>6
  <2> QED
    BY <2>1, <2>2
<1>2. \A T \in SUBSET S : T \in Good
  <2> HIDE DEF Good
  <2> QED
    BY <1>1, SmallerFirst
<1> QED
  BY <1>2

\* The sum of two parts.
LEMMA SumOfParts ==
  ASSUME NEW S, IsFiniteSet(S), NEW T, IsFiniteSet(T), S \intersect T = {}, NEW f,
         \A x \in S \union T : f[x] \in Int
  PROVE  Sum(f, S \union T) = Sum(f, S) + Sum(f, T)
<1> DEFINE Good == {U \in SUBSET T : Sum(f, S \union U) = Sum(f, S) + Sum(f, U)}
<1>1. ASSUME NEW U \in SUBSET T, \A x \in U : U \ {x} \in Good PROVE U \in Good
  <2>1. CASE U = {}
    <3>1. S \union U = S /\ Sum(f, S) \in Int
      BY <2>1, SumIsInt
    <3> QED
      BY <2>1, <3>1, SumOfNone
  <2>2. CASE U # {}
    <3> DEFINE y == AnyOf(U)
               V == U \ {y}
    <3>1. y \in U
      BY <2>2, AnyOfIsOne
    <3>2. IsFiniteSet(U) /\ IsFiniteSet(V)
      BY FS_Subset
    <3>3. IsFiniteSet(S \union U)
      BY <3>2, FS_Union
    <3>4. (S \union U) \ {y} = S \union V
      BY <3>1
    <3>5. Sum(f, S \union U) = f[y] + Sum(f, S \union V)
      BY <3>1, <3>3, <3>4, SumTakes
    <3>6. Sum(f, U) = f[y] + Sum(f, V)
      BY <3>1, <3>2, SumTakes
    <3>7. Sum(f, S) \in Int /\ Sum(f, V) \in Int /\ f[y] \in Int
      BY <3>1, <3>2, SumIsInt
    <3>8. Sum(f, S \union V) = Sum(f, S) + Sum(f, V)
      BY <1>1, <3>1
    <3> HIDE DEF V, y
    <3> QED
      BY <3>5, <3>6, <3>7, <3>8
  <2> QED
    BY <2>1, <2>2
<1>2. \A U \in SUBSET T : U \in Good
  <2> HIDE DEF Good
  <2> QED
    BY <1>1, SmallerFirst
<1> QED
  BY <1>2

\* A sum of naturals is one, and more terms make it no smaller.
LEMMA SumOfNaturals ==
  ASSUME NEW S, IsFiniteSet(S), NEW f, \A x \in S : f[x] \in Nat
  PROVE  /\ Sum(f, S) \in Nat
         /\ \A T \in SUBSET S : Sum(f, T) \in Nat /\ Sum(f, T) <= Sum(f, S)
         /\ \A x \in S : f[x] <= Sum(f, S)
         /\ Sum(f, S) > 0 => \E x \in S : f[x] > 0
<1> DEFINE zero == [x \in S |-> 0]
<1>1. ASSUME NEW T \in SUBSET S PROVE Sum(f, T) \in Nat
  <2> DEFINE Good == {U \in SUBSET S : Sum(f, U) \in Nat}
  <2>1. ASSUME NEW U \in SUBSET S, \A x \in U : U \ {x} \in Good PROVE U \in Good
    <3>1. CASE U = {}
      BY <3>1, SumOfNone
    <3>2. CASE U # {}
      <4>1. AnyOf(U) \in U
        BY <3>2, AnyOfIsOne
      <4>2. IsFiniteSet(U)
        BY FS_Subset
      <4>3. Sum(f, U) = f[AnyOf(U)] + Sum(f, U \ {AnyOf(U)})
        BY <3>2, <4>2, SumByAnyOf
      <4> QED
        BY <2>1, <4>1, <4>3
    <3> QED
      BY <3>1, <3>2
  <2>2. \A U \in SUBSET S : U \in Good
    <3> HIDE DEF Good
    <3> QED
      BY <2>1, SmallerFirst
  <2> QED
    BY <2>2
<1>2. ASSUME NEW T \in SUBSET S PROVE Sum(f, T) <= Sum(f, S)
  <2> DEFINE U == S \ T
  <2>1. IsFiniteSet(T) /\ IsFiniteSet(U)
    BY FS_Subset
  <2>2. S = T \union U /\ T \intersect U = {} /\ U \in SUBSET S
    OBVIOUS
  <2>3. \A x \in T \union U : f[x] \in Int
    BY <2>2
  <2> HIDE DEF U
  <2>4. Sum(f, T \union U) = Sum(f, T) + Sum(f, U)
    BY <2>1, <2>2, <2>3, SumOfParts
  <2>5. Sum(f, T) \in Nat /\ Sum(f, U) \in Nat
    BY <1>1, <2>2
  <2> QED
    BY <2>2, <2>4, <2>5
<1>3. ASSUME NEW x \in S PROVE f[x] <= Sum(f, S)
  <2>1. Sum(f, S) = f[x] + Sum(f, S \ {x})
    BY SumTakes
  <2>2. Sum(f, S \ {x}) \in Nat
    BY <1>1
  <2> QED
    BY <2>1, <2>2
<1>4. ASSUME Sum(f, S) > 0, \A x \in S : ~(f[x] > 0) PROVE FALSE
  <2>1. \A x \in S : f[x] = 0
    BY <1>4
  <2> DEFINE Good == {U \in SUBSET S : Sum(f, U) = 0}
  <2>2. ASSUME NEW U \in SUBSET S, \A x \in U : U \ {x} \in Good PROVE U \in Good
    <3>1. CASE U = {}
      BY <3>1, SumOfNone
    <3>2. CASE U # {}
      <4>1. AnyOf(U) \in U
        BY <3>2, AnyOfIsOne
      <4>2. IsFiniteSet(U)
        BY FS_Subset
      <4>3. Sum(f, U) = f[AnyOf(U)] + Sum(f, U \ {AnyOf(U)})
        BY <3>2, <4>2, SumByAnyOf
      <4> QED
        BY <2>1, <2>2, <4>1, <4>3
    <3> QED
      BY <3>1, <3>2
  <2>3. \A U \in SUBSET S : U \in Good
    <3> HIDE DEF Good
    <3> QED
      BY <2>2, SmallerFirst
  <2>4. Sum(f, S) = 0
    BY <2>3
  <2> QED
    BY <1>4, <2>4
<1> QED
  BY <1>1, <1>2, <1>3, <1>4

\* A sum can be taken place by place.
LEMMA SumByPlaces ==
  ASSUME NEW S, IsFiniteSet(S), NEW T, IsFiniteSet(T), NEW h, \A x \in S : h[x] \in T,
         NEW f, \A x \in S : f[x] \in Int
  PROVE  Sum(f, S) = Sum([y \in T |-> Sum(f, {x \in S : h[x] = y})], T)
<1> DEFINE In(V) == {x \in S : h[x] \in V}
           At(y) == {x \in S : h[x] = y}
           part == [y \in T |-> Sum(f, At(y))]
           Good == {V \in SUBSET T : Sum(f, In(V)) = Sum(part, V)}
<1>1. \A y \in T : part[y] = Sum(f, At(y))
  OBVIOUS
<1>2. \A U \in SUBSET S : IsFiniteSet(U) /\ Sum(f, U) \in Int
  BY FS_Subset, SumIsInt
<1>3. \A y \in T : part[y] \in Int
  BY <1>1, <1>2
<1>4. ASSUME NEW V \in SUBSET T, \A y \in V : V \ {y} \in Good PROVE V \in Good
  <2>1. CASE V = {}
    <3>1. In(V) = {}
      BY <2>1
    <3> QED
      BY <2>1, <3>1, SumOfNone
  <2>2. CASE V # {}
    <3> DEFINE y == AnyOf(V)
               W == V \ {y}
    <3>1. y \in V
      BY <2>2, AnyOfIsOne
    <3>2. IsFiniteSet(V)
      BY FS_Subset
    <3>3. Sum(part, V) = part[y] + Sum(part, W)
      <4> HIDE DEF part
      <4> QED
        BY <2>2, <3>2, SumByAnyOf
    <3>4. Sum(f, In(W)) = Sum(part, W)
      <4>1. W \in Good
        BY <1>4, <3>1
      <4> HIDE DEF part, In, W
      <4> QED
        BY <4>1
    <3>5. In(V) = In(W) \union At(y) /\ In(W) \intersect At(y) = {}
      BY <3>1
    <3>6. In(W) \in SUBSET S /\ At(y) \in SUBSET S /\ y \in T
      BY <3>1
    <3> HIDE DEF In, At, W, y, part
    <3>7. IsFiniteSet(In(W)) /\ IsFiniteSet(At(y)) /\ Sum(f, In(W)) \in Int /\ Sum(f, At(y)) \in Int
      BY <1>2, <3>6
    <3>8. Sum(f, In(V)) = Sum(f, In(W)) + Sum(f, At(y))
      BY <3>5, <3>6, <3>7, SumOfParts
    <3> QED
      BY <1>1, <3>3, <3>4, <3>6, <3>7, <3>8
  <2> QED
    BY <2>1, <2>2
<1>5. \A V \in SUBSET T : V \in Good
  <2> HIDE DEF Good
  <2> QED
    BY <1>4, SmallerFirst
<1>6. In(T) = S
  OBVIOUS
<1> HIDE DEF In, part
<1>7. Sum(f, In(T)) = Sum(part, T)
  BY <1>5
<1> QED
  BY <1>6, <1>7 DEF part

\* A sum of one.
LEMMA SumOfOne ==
  ASSUME NEW x, NEW f, f[x] \in Int
  PROVE  Sum(f, {x}) = f[x]
<1>1. IsFiniteSet({x}) /\ {x} \ {x} = {}
  BY FS_Singleton
<1>2. Sum(f, {x}) = f[x] + Sum(f, {})
  BY <1>1, SumTakes
<1> QED
  BY <1>2, SumOfNone

\* More terms that are nothing make no difference.
LEMMA SumWidened ==
  ASSUME NEW T, IsFiniteSet(T), NEW S \in SUBSET T, NEW f, NEW g,
         \A x \in S : f[x] \in Int /\ g[x] = f[x], \A x \in T \ S : g[x] = 0
  PROVE  Sum(g, T) = Sum(f, S)
<1> DEFINE U == T \ S
           zero == [x \in U |-> 0]
<1>1. IsFiniteSet(S) /\ IsFiniteSet(U)
  BY FS_Subset
<1>2. S \intersect U = {} /\ T = S \union U
  OBVIOUS
<1>3. \A x \in U : g[x] = 0 /\ zero[x] = 0
  OBVIOUS
<1> HIDE DEF U, zero
<1>4. \A x \in S \union U : g[x] \in Int
  BY <1>3
<1>5. Sum(g, T) = Sum(g, S) + Sum(g, U)
  BY <1>1, <1>2, <1>4, SumOfParts
<1>6. Sum(g, S) = Sum(f, S)
  BY <1>1, SumOfEquals
<1>7. Sum(g, U) = 0
  <2>1. Sum(g, U) \in Nat /\ (Sum(g, U) > 0 => \E x \in U : g[x] > 0)
    BY <1>1, <1>3, SumOfNaturals
  <2> QED
    BY <1>3, <2>1
<1>8. Sum(f, S) \in Int
  BY <1>1, SumIsInt
<1> QED
  BY <1>5, <1>6, <1>7, <1>8

\* A common factor.
LEMMA SumScaled ==
  ASSUME NEW S, IsFiniteSet(S), NEW k \in Int, NEW f, NEW g,
         \A x \in S : f[x] \in Int /\ g[x] = f[x] * k
  PROVE  Sum(g, S) = Sum(f, S) * k
<1> DEFINE Good == {T \in SUBSET S : Sum(g, T) = Sum(f, T) * k}
<1>1. ASSUME NEW T \in SUBSET S, \A x \in T : T \ {x} \in Good PROVE T \in Good
  <2>1. CASE T = {}
    BY <2>1, SumOfNone
  <2>2. CASE T # {}
    <3> DEFINE y == AnyOf(T)
               U == T \ {y}
    <3>1. y \in T
      BY <2>2, AnyOfIsOne
    <3>2. IsFiniteSet(T) /\ IsFiniteSet(U)
      BY FS_Subset
    <3>3. Sum(f, T) = f[y] + Sum(f, U) /\ Sum(g, T) = g[y] + Sum(g, U)
      BY <2>2, <3>2, SumByAnyOf
    <3>4. Sum(f, U) \in Int
      BY <3>2, SumIsInt
    <3>5. Sum(g, U) = Sum(f, U) * k
      BY <1>1, <3>1
    <3>6. f[y] \in Int /\ g[y] = f[y] * k
      BY <3>1
    <3> HIDE DEF U, y
    <3>7. (f[y] + Sum(f, U)) * k = f[y] * k + Sum(f, U) * k
      BY <3>4, <3>6
    <3> QED
      BY <3>3, <3>5, <3>6, <3>7
  <2> QED
    BY <2>1, <2>2
<1>2. \A T \in SUBSET S : T \in Good
  <2> HIDE DEF Good
  <2> QED
    BY <1>1, SmallerFirst
<1> QED
  BY <1>2

\* The same terms under other names.
LEMMA SumRenamed ==
  ASSUME NEW S, IsFiniteSet(S), NEW T, NEW h \in Bijection(S, T), NEW f, NEW g,
         \A x \in S : g[x] = f[h[x]] /\ g[x] \in Int
  PROVE  Sum(g, S) = Sum(f, T)
<1> DEFINE part == [y \in T |-> Sum(g, {x \in S : h[x] = y})]
<1>1. IsFiniteSet(T) /\ \A x \in S : h[x] \in T
  BY FS_Bijection DEF ExistsBijection, Bijection, Injection
<1>2. Sum(g, S) = Sum(part, T)
  BY <1>1, SumByPlaces
<1>3. ASSUME NEW y \in T PROVE part[y] = f[y]
  <2>1. PICK x \in S : h[x] = y /\ \A z \in S : h[z] = y => z = x
    BY DEF Bijection, Injection, IsInjective, Surjection
  <2>2. {z \in S : h[z] = y} = {x}
    BY <2>1
  <2>3. Sum(g, {x}) = g[x]
    BY <2>1, SumOfOne
  <2> QED
    BY <2>1, <2>2, <2>3
<1> HIDE DEF part
<1>4. Sum(part, T) = Sum(f, T)
  BY <1>1, <1>3, SumOfEquals
<1> QED
  BY <1>2, <1>4

\* A set has as many elements as it has ones.
LEMMA SumOfOnes ==
  ASSUME NEW S, IsFiniteSet(S), NEW f, \A x \in S : f[x] = 1
  PROVE  Sum(f, S) = Cardinality(S)
<1> DEFINE Good == {T \in SUBSET S : Sum(f, T) = Cardinality(T)}
<1>1. ASSUME NEW T \in SUBSET S, \A x \in T : T \ {x} \in Good PROVE T \in Good
  <2>1. CASE T = {}
    BY <2>1, SumOfNone, FS_EmptySet
  <2>2. CASE T # {}
    <3> DEFINE y == AnyOf(T)
               U == T \ {y}
    <3>1. y \in T
      BY <2>2, AnyOfIsOne
    <3>2. IsFiniteSet(T)
      BY FS_Subset
    <3>3. Sum(f, T) = f[y] + Sum(f, U)
      BY <2>2, <3>2, SumByAnyOf
    <3>4. Cardinality(U) = Cardinality(T) - 1 /\ Cardinality(T) \in Nat
      BY <3>1, <3>2, FS_RemoveElement, FS_CardinalityType
    <3>5. Sum(f, U) = Cardinality(U) /\ f[y] = 1
      BY <1>1, <3>1
    <3> HIDE DEF U, y
    <3> QED
      BY <3>3, <3>4, <3>5
  <2> QED
    BY <2>1, <2>2
<1>2. \A T \in SUBSET S : T \in Good
  <2> HIDE DEF Good
  <2> QED
    BY <1>1, SmallerFirst
<1> QED
  BY <1>2

=============================================================================
