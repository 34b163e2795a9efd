---------------------------- MODULE PlannerProofs ----------------------------
(***************************************************************************)
(* What is proved of the planner, whatever the digests, the cases and the  *)
(* number of levels.                                                       *)
(***************************************************************************)
EXTENDS Planner, Numbers

-----------------------------------------------------------------------------
(* Quadkeys.  Written out to the deepest level, a quadkey is a number, and *)
(* the order of quadkeys is that of these numbers, and of the levels where *)
(* they are equal.                                                         *)

\* No bit of the word is set beyond the level's own: what parsing makes.
Formed(k) == k \in Quadkeys /\ k.bits < 2 ^ (2 * k.level)

Extended(k) == k.bits * 2 ^ (2 * (MaxLevel - k.level))

\* What is below, at and above a quotient.
LEMMA AroundQuotient ==
  ASSUME NEW x \in Nat, NEW y \in Nat, NEW s \in Nat \ {0}
  PROVE  /\ y \div s \in Nat
         /\ x < y \div s => x * s < y
         /\ x > y \div s => x * s > y
         /\ x = y \div s => x * s <= y
<1> DEFINE q == y \div s
           r == y % s
<1>1. q \in Int /\ r \in 0..(s - 1) /\ y = s * q + r
  BY DivMod
<1> HIDE DEF q, r
<1>2. q > -1
  <2>1. (-1) * s < q * s
    BY <1>1
  <2> QED
    BY <1>1, <2>1, MulCancel
<1>3. ASSUME x < q PROVE x * s < y
  <2>1. (x + 1) * s <= q * s
    BY <1>1, <1>3, MulMonotone
  <2> QED
    BY <1>1, <2>1
<1>4. ASSUME x > q PROVE x * s > y
  <2>1. (q + 1) * s <= x * s
    BY <1>1, <1>4, MulMonotone
  <2> QED
    BY <1>1, <2>1
<1>5. ASSUME x = q PROVE x * s <= y
  BY <1>1, <1>5
<1> QED
  BY <1>1, <1>2, <1>3, <1>4, <1>5 DEF q

\* A cut to a level: the bits are divided, save that a shift by the whole word
\* leaves them.
LEMMA TruncatedBits ==
  ASSUME NEW k \in Quadkeys, NEW c \in Nat, c < k.level, c > 0 \/ k.level < MaxLevel
  PROVE  Truncate(k, c).bits = k.bits \div 2 ^ (2 * (k.level - c))
<1>1. MaxLevel \in Nat \ {0} /\ k.level \in 0..MaxLevel
  BY QuadkeyAssumption DEF Quadkeys
<1>2. 2 * (k.level - c) \in 0..(WordSize - 1)
  BY <1>1 DEF WordSize
<1>3. (2 * (k.level - c)) % WordSize = 2 * (k.level - c)
  BY <1>1, <1>2 DEF WordSize
<1> QED
  BY <1>1, <1>3 DEF Truncate, Shr

\* Two quadkeys, the first no deeper, at the level of the first.
LEMMA ComparedAbove ==
  ASSUME NEW k, NEW l, Formed(k), Formed(l), k.level <= l.level
  PROVE  LET p == k.bits
             q == Truncate(l, k.level).bits
         IN  /\ p < q => Extended(k) < Extended(l)
             /\ p > q => Extended(k) > Extended(l)
             /\ p = q => Extended(k) <= Extended(l)
             /\ p = q /\ k.level = l.level => Extended(k) = Extended(l)
             /\ p \in Nat /\ q \in Nat /\ Extended(k) \in Nat /\ Extended(l) \in Nat
<1> DEFINE a == k.level
           b == l.level
           x == k.bits
           y == l.bits
           s == 2 ^ (2 * (b - a))
           r == 2 ^ (2 * (MaxLevel - b))
           q == Truncate(l, a).bits
<1>1. /\ MaxLevel \in Nat \ {0} /\ a \in 0..MaxLevel /\ b \in 0..MaxLevel
      /\ x \in Nat /\ y \in Nat
  BY QuadkeyAssumption DEF Formed, Quadkeys
<1>2. 2 * (b - a) \in Nat /\ 2 * (MaxLevel - b) \in Nat
  BY <1>1
<1>3. s \in Nat \ {0} /\ r \in Nat \ {0}
  BY <1>2, PowerOfTwo
<1>4. 2 ^ (2 * (MaxLevel - a)) = s * r
  <2>1. 2 * (MaxLevel - a) = 2 * (b - a) + 2 * (MaxLevel - b)
    BY <1>1
  <2> QED
    BY <1>2, <2>1, PowerOfSum
<1>5. Extended(k) = (x * s) * r /\ Extended(l) = y * r
  <2>1. Extended(k) = x * (s * r)
    BY <1>4 DEF Extended
  <2>2. x * (s * r) = (x * s) * r
    <3> HIDE DEF x, s, r
    <3> QED
      BY <1>1, <1>3
  <2> QED
    BY <2>1, <2>2 DEF Extended
<1>6. CASE a = b
  <2>1. s = 1
    <3>1. 2 * (b - a) = 0
      BY <1>1, <1>6
    <3>2. 2 ^ 0 = 1
      OBVIOUS
    <3> QED
      BY <3>1, <3>2
  <2>2. q = y
    BY <1>1, <1>6 DEF Truncate
  <2>3. x * s = x
    BY <1>1, <2>1
  <2> HIDE DEF a, b, x, y, s, r, q
  <2>4. /\ x < y => x * r < y * r
        /\ x > y => x * r > y * r
    BY <1>1, <1>3
  <2>5. x * r \in Nat /\ y * r \in Nat
    BY <1>1, <1>3
  <2> QED
    BY <1>1, <1>5, <2>2, <2>3, <2>4, <2>5 DEF a, b, x, y, q
<1>7. CASE a < b /\ (a > 0 \/ b < MaxLevel)
  <2>1. q = y \div s
    BY <1>1, <1>7, TruncatedBits DEF Formed
  <2> HIDE DEF a, b, x, y, s, r, q
  <2>2. /\ q \in Nat
        /\ x < q => x * s < y
        /\ x > q => x * s > y
        /\ x = q => x * s <= y
    BY <1>1, <1>3, <2>1, AroundQuotient
  <2> DEFINE z == x * s
  <2>3. z \in Nat
    BY <1>1, <1>3
  <2> HIDE DEF z
  <2>4. /\ z < y => z * r < y * r
        /\ z > y => z * r > y * r
        /\ z <= y => z * r <= y * r
        /\ z * r \in Nat /\ y * r \in Nat
    BY <1>1, <1>3, <2>3
  <2> QED
    BY <1>1, <1>5, <1>7, <2>2, <2>4 DEF a, b, x, y, q, z
<1>8. CASE a < b /\ a = 0 /\ b = MaxLevel
  <2>1. x = 0
    <3>1. x < 2 ^ (2 * 0)
      BY <1>8 DEF Formed
    <3> QED
      BY <1>1, <3>1
  <2>2. (2 * (b - a)) % WordSize = 0
    BY <1>1, <1>8 DEF WordSize
  <2>3. q = y \div 1
    <3>1. q = y \div 2 ^ ((2 * (b - a)) % WordSize)
      BY <1>1, <1>8 DEF Truncate, Shr
    <3>2. 2 ^ 0 = 1
      OBVIOUS
    <3> QED
      BY <2>2, <3>1, <3>2
  <2>4. q = y
    BY <1>1, <2>3
  <2>5. r = 1
    BY <1>1, <1>8
  <2>6. Extended(k) = 0
    <3> HIDE DEF x, s, r
    <3> QED
      BY <1>3, <1>5, <2>1
  <2>7. Extended(l) = y
    BY <1>1, <1>5, <2>5
  <2> QED
    BY <1>1, <1>8, <2>1, <2>4, <2>6, <2>7
<1> QED
  BY <1>1, <1>6, <1>7, <1>8

\* The order of quadkeys, read off the numbers.
LEMMA PrecedesByExtended ==
  ASSUME NEW k, NEW l, Formed(k), Formed(l)
  PROVE  /\ Extended(k) \in Nat /\ Extended(l) \in Nat
         /\ Precedes(k, l) <=>
              \/ Extended(k) < Extended(l)
              \/ Extended(k) = Extended(l) /\ k.level < l.level
<1>1. k.level \in Nat /\ l.level \in Nat
  BY QuadkeyAssumption DEF Formed, Quadkeys
<1>2. CASE k.level <= l.level
  <2>1. Truncate(k, k.level).bits = k.bits
    BY <1>1 DEF Truncate
  <2> QED
    BY <1>1, <1>2, <2>1, ComparedAbove DEF Precedes
<1>3. CASE l.level < k.level
  <2>1. Truncate(l, l.level).bits = l.bits
    BY <1>1 DEF Truncate
  <2> QED
    BY <1>1, <1>3, <2>1, ComparedAbove DEF Precedes
<1> QED
  BY <1>1, <1>2, <1>3

LEMMA ExtendedTellsApart ==
  ASSUME NEW k, NEW l, Formed(k), Formed(l), k.level = l.level, Extended(k) = Extended(l)
  PROVE  k = l
<1>1. k.level \in Nat /\ k.bits \in Nat /\ l.bits \in Nat
  BY QuadkeyAssumption DEF Formed, Quadkeys
<1>2. Truncate(l, k.level).bits = l.bits
  BY <1>1 DEF Truncate
<1>3. k.bits = l.bits
  BY <1>1, <1>2, ComparedAbove
<1> QED
  BY <1>3 DEF Formed, Quadkeys

\* The quadkeys that texts parse to are in one order, whatever is cut off either:
\* the sort of a plan (planner.rs:514-533) has one result.
THEOREM QuadkeysAreOrdered ==
  ASSUME NEW k, NEW l, NEW m, Formed(k), Formed(l), Formed(m)
  PROVE  /\ ~Precedes(k, k)
         /\ Precedes(k, l) /\ Precedes(l, m) => Precedes(k, m)
         /\ k = l \/ Precedes(k, l) \/ Precedes(l, k)
<1>1. k.level \in Nat /\ l.level \in Nat /\ m.level \in Nat
  BY QuadkeyAssumption DEF Formed, Quadkeys
<1>2. ~Precedes(k, k)
  BY <1>1, PrecedesByExtended
<1>3. ASSUME Precedes(k, l), Precedes(l, m) PROVE Precedes(k, m)
  BY <1>1, <1>3, PrecedesByExtended
<1>4. k = l \/ Precedes(k, l) \/ Precedes(l, k)
  BY <1>1, PrecedesByExtended, ExtendedTellsApart
<1> QED
  BY <1>2, <1>3, <1>4

\* The word that the first i digits make.
Word(digits, w) ==
  w = [i \in 0..Len(digits) |-> IF i = 0 THEN 0 ELSE Push(w[i - 1], digits[i])]

LEMMA WordExists ==
  ASSUME NEW digits \in Seq(0..3)
  PROVE  \E w : Word(digits, w)
<1> DEFINE n == Len(digits)
           Upto(m, w) == w = [i \in 0..m |-> IF i = 0 THEN 0 ELSE Push(w[i - 1], digits[i])]
           Missing == {m \in 0..n : ~(\E w : Upto(m, w))}
<1>1. n \in Nat
  OBVIOUS
<1>2. SUFFICES ASSUME Missing # {} PROVE FALSE
  <2>1. n \in 0..n
    BY <1>1
  <2> QED
    BY <1>2, <2>1 DEF Word
<1>3. PICK m \in Missing : \A k \in Missing : m <= k
  <2>1. Missing \subseteq Nat
    BY <1>1
  <2> HIDE DEF Missing
  <2> QED
    BY <1>2, <2>1, LeastNatural
<1>4. CASE m = 0
  <2>1. Upto(0, [i \in 0..0 |-> 0])
    OBVIOUS
  <2> QED
    BY <1>3, <1>4, <2>1
<1>5. CASE m # 0
  <2>1. m \in 0..n /\ m - 1 \in 0..n /\ m - 1 \notin Missing
    <3>1. m \in 0..n
      BY <1>3
    <3>2. m - 1 \in 0..n /\ ~(m <= m - 1)
      BY <1>1, <1>5, <3>1
    <3> HIDE DEF Missing
    <3> QED
      BY <1>3, <3>1, <3>2
  <2>2. PICK v : Upto(m - 1, v)
    BY <2>1
  <2> DEFINE w == [i \in 0..m |-> IF i = m THEN Push(v[m - 1], digits[m]) ELSE v[i]]
             u == [i \in 0..m |-> IF i = 0 THEN 0 ELSE Push(w[i - 1], digits[i])]
  <2>3. m \in Nat /\ m - 1 \in Nat
    BY <1>1, <2>1
  <2>4. \A i \in 0..m : w[i] = u[i]
    <3>1. TAKE i \in 0..m
    <3>2. CASE i = m
      BY <1>5, <2>3, <3>2
    <3>3. CASE i # m
      BY <2>2, <2>3, <3>3
    <3> QED
      BY <3>2, <3>3
  <2>5. w = u
    BY <2>4
  <2> QED
    BY <1>3, <2>5
<1> QED
  BY <1>4, <1>5

\* The word of a text that fits: no bit is pushed out.
LEMMA PushedWord ==
  ASSUME NEW digits \in Seq(0..3), Len(digits) <= MaxLevel
  PROVE  \E w \in [0..Len(digits) -> Nat] :
           /\ Pushed(digits) = w[Len(digits)]
           /\ w[0] = 0
           /\ \A i \in 1..Len(digits) : w[i] = 4 * w[i - 1] + digits[i]
           /\ \A i \in 0..Len(digits) : w[i] < 2 ^ (2 * i)
<1> DEFINE n == Len(digits)
           w == CHOOSE v : Word(digits, v)
           Fits(i) == w[i] \in Nat /\ w[i] < 2 ^ (2 * i)
           Exact(i) == i > 0 => w[i] = 4 * w[i - 1] + digits[i]
           Wrong == {i \in 0..n : ~(Fits(i) /\ Exact(i))}
<1>1. n \in Nat /\ MaxLevel \in Nat \ {0} /\ \A i \in 1..n : digits[i] \in 0..3
  BY QuadkeyAssumption
<1>2. Word(digits, w)
  BY WordExists
<1>3. Pushed(digits) = w[n]
  BY DEF Pushed, Word
<1> HIDE DEF w
<1>4. /\ DOMAIN w = 0..n /\ w[0] = 0
      /\ \A i \in 1..n : w[i] = Push(w[i - 1], digits[i])
      /\ w = [i \in 0..n |-> w[i]]
  BY <1>1, <1>2 DEF Word
<1>5. Wrong = {}
  <2>1. SUFFICES ASSUME Wrong # {} PROVE FALSE
    OBVIOUS
  <2>2. PICK i \in Wrong : \A j \in Wrong : i <= j
    <3>1. Wrong \subseteq Nat
      BY <1>1
    <3> HIDE DEF Wrong
    <3> QED
      BY <2>1, <3>1, LeastNatural
  <2>3. i # 0
    <3>1. 2 ^ (2 * 0) = 1
      OBVIOUS
    <3> QED
      BY <1>4, <2>2, <3>1
  <2>4. i - 1 \in 0..n /\ i - 1 \notin Wrong /\ i \in 1..n /\ i \in Nat /\ i - 1 \in Nat
    BY <1>1, <2>2, <2>3
  <2> DEFINE b == w[i - 1]
             d == digits[i]
             s == 2 ^ (2 * (i - 1))
  <2>5. b \in Nat /\ b < s /\ d \in 0..3 /\ w[i] = Push(b, d)
    BY <1>1, <1>4, <2>4
  <2>6. s \in Nat \ {0}
    BY <2>4, PowerOfTwo
  <2>7. 2 ^ (2 * i) = 4 * s
    <3>1. 2 * i = 2 * (i - 1) + 2 /\ 2 * (i - 1) \in Nat
      BY <2>4
    <3>2. 2 ^ 2 = 4
      OBVIOUS
    <3>3. 2 ^ (2 * i) = s * 2 ^ 2
      BY <3>1, PowerOfSum
    <3> QED
      BY <2>6, <3>2, <3>3
  <2> DEFINE t == 2 ^ (2 * (MaxLevel - i))
             e == 2 ^ WordSize
  <2>8. e = 2 ^ (2 * i) * t /\ t \in Nat \ {0}
    <3>1. WordSize = 2 * i + 2 * (MaxLevel - i) /\ 2 * i \in Nat /\ 2 * (MaxLevel - i) \in Nat
      BY <1>1, <2>4 DEF WordSize
    <3> QED
      BY <3>1, PowerOfSum, PowerOfTwo
  <2> HIDE DEF b, d, s, t, e
  <2> DEFINE x == 4 * b + d
  <2>9. x \in Nat /\ x < 4 * s
    BY <2>5, <2>6
  <2>10. e = (4 * s) * t
    BY <2>7, <2>8
  <2>11. 4 * s <= e
    BY <2>6, <2>8, <2>10
  <2>12. x % e = x
    <3> HIDE DEF x
    <3>1. e \in Nat /\ x < e
      BY <2>6, <2>8, <2>9, <2>10, <2>11
    <3> QED
      BY <2>9, <3>1
  <2>13. w[i] = x
    BY <2>5, <2>12 DEF Push, e
  <2>14. Fits(i) /\ Exact(i)
    BY <2>7, <2>9, <2>13 DEF b, d
  <2> QED
    BY <2>2, <2>14
<1>6. \A i \in 0..n : Fits(i) /\ Exact(i)
  BY <1>5
<1>7. w \in [0..n -> Nat]
  BY <1>4, <1>6
<1>8. \A i \in 1..n : w[i] = 4 * w[i - 1] + digits[i]
  BY <1>1, <1>6
<1> QED
  BY <1>3, <1>4, <1>6, <1>7, <1>8

\* What a text parses to is well formed.
LEMMA ParsedIsFormed ==
  ASSUME NEW text \in Seq(0..3), Parses(text)
  PROVE  Formed(FromStr(text)) /\ FromStr(text).level = Len(text)
<1> DEFINE n == Len(text)
           b == Pushed(text)
<1>1. n \in 0..MaxLevel /\ MaxLevel \in Nat
  BY QuadkeyAssumption DEF Parses
<1>2. b \in Nat /\ b < 2 ^ (2 * n)
  BY <1>1, PushedWord
<1>3. 2 ^ (2 * n) \in Nat \ {0} /\ 2 ^ (2 * n) <= 2 ^ WordSize /\ 2 ^ WordSize \in Nat
  <2> DEFINE s == 2 ^ (2 * n)
             t == 2 ^ (2 * (MaxLevel - n))
  <2>1. WordSize = 2 * n + 2 * (MaxLevel - n) /\ 2 * n \in Nat /\ 2 * (MaxLevel - n) \in Nat
    BY <1>1 DEF WordSize
  <2>2. 2 ^ WordSize = s * t /\ s \in Nat \ {0} /\ t \in Nat \ {0}
    BY <2>1, PowerOfSum, PowerOfTwo
  <2> HIDE DEF s, t
  <2>3. s <= s * t /\ s * t \in Nat
    BY <2>2
  <2> QED
    BY <2>2, <2>3 DEF s
<1> HIDE DEF b, n
<1>4. b \in 0..(2 ^ WordSize - 1)
  BY <1>2, <1>3
<1> QED
  BY <1>1, <1>2, <1>4 DEF FromStr, Formed, Quadkeys, b, n

\* A quotient, from what it lies between.
LEMMA QuotientBetween ==
  ASSUME NEW x \in Nat, NEW q \in Nat, NEW s \in Nat \ {0}, q * s <= x, x < (q + 1) * s
  PROVE  x \div s = q
<1> DEFINE p == x \div s
<1>1. p \in Nat
  BY AroundQuotient
<1>2. /\ (q < p => q * s < x) /\ (q = p => q * s <= x) /\ (q > p => q * s > x)
      /\ (q + 1 < p => (q + 1) * s < x) /\ (q + 1 = p => (q + 1) * s <= x)
  BY AroundQuotient
<1> HIDE DEF p
<1>3. q * s \in Nat /\ (q + 1) * s \in Nat
  OBVIOUS
<1>4. ~(q > p) /\ ~(q + 1 < p) /\ q + 1 # p
  BY <1>2, <1>3
<1>5. p = q
  BY <1>1, <1>4
<1> QED
  BY <1>5 DEF p

\* w is the words of the beginnings of a text that parses.
IsWordOf(w, text) ==
  /\ w \in [0..Len(text) -> Nat] /\ w[0] = 0
  /\ \A i \in 1..Len(text) : w[i] = 4 * w[i - 1] + text[i]
  /\ w[Len(text)] = FromStr(text).bits

LEMMA WordOfText ==
  ASSUME NEW text \in Seq(0..3), Parses(text)
  PROVE  \E w : IsWordOf(w, text)
BY PushedWord DEF Parses, IsWordOf, FromStr

SameUpTo(s, t, n) == \A j \in 1..n : s[j] = t[j]

LessUpTo(s, t, n) == \E i \in 1..n : s[i] < t[i] /\ \A j \in 1..(i - 1) : s[j] = t[j]

\* Two texts as far as both go: what their words say of their digits.
LEMMA WordsOfTwo ==
  ASSUME NEW s \in Seq(0..3), NEW t \in Seq(0..3), NEW v, NEW w, IsWordOf(v, s), IsWordOf(w, t),
         NEW n \in Nat, n <= Len(s), n <= Len(t)
  PROVE  /\ v[n] = w[n] <=> SameUpTo(s, t, n)
         /\ v[n] < w[n] <=> LessUpTo(s, t, n)
<1> DEFINE Same(i) == \A j \in 1..i : s[j] = t[j]
           First(i) == s[i] < t[i] /\ \A j \in 1..(i - 1) : s[j] = t[j]
           Less(i) == \E j \in 1..i : First(j)
           Right(i) == (v[i] = w[i] <=> Same(i)) /\ (v[i] < w[i] <=> Less(i))
           Wrong == {i \in 0..n : ~Right(i)}
<1>1. /\ Len(s) \in Nat /\ Len(t) \in Nat
      /\ \A i \in 1..n : s[i] \in 0..3 /\ t[i] \in 0..3
      /\ \A i \in 0..n : v[i] \in Nat /\ w[i] \in Nat
      /\ \A i \in 1..n : v[i] = 4 * v[i - 1] + s[i] /\ w[i] = 4 * w[i - 1] + t[i]
      /\ v[0] = 0 /\ w[0] = 0
  <2>1. Len(s) \in Nat /\ Len(t) \in Nat
    OBVIOUS
  <2>2. \A i \in 1..n : i \in 1..Len(s) /\ i \in 1..Len(t)
    BY <2>1
  <2>3. \A i \in 0..n : i \in 0..Len(s) /\ i \in 0..Len(t)
    BY <2>1
  <2>4. \A i \in 1..n : s[i] \in 0..3 /\ t[i] \in 0..3
    BY <2>2
  <2>5. \A i \in 0..n : v[i] \in Nat /\ w[i] \in Nat
    BY <2>3 DEF IsWordOf
  <2>6. \A i \in 1..n : v[i] = 4 * v[i - 1] + s[i] /\ w[i] = 4 * w[i - 1] + t[i]
    BY <2>2 DEF IsWordOf
  <2> QED
    BY <2>1, <2>4, <2>5, <2>6 DEF IsWordOf
<1>2. ASSUME Wrong # {} PROVE FALSE
  <2>1. PICK i \in Wrong : \A j \in Wrong : i <= j
    <3>1. Wrong \subseteq Nat
      OBVIOUS
    <3> HIDE DEF Wrong
    <3> QED
      BY <1>2, <3>1, LeastNatural
  <2>2. Right(0)
    BY <1>1
  <2>3. i \in 0..n /\ i # 0
    BY <2>1, <2>2
  <2>4. i \in 1..n /\ i - 1 \in 0..n /\ ~(i <= i - 1)
    BY <2>3
  <2>5. Right(i - 1)
    <3>1. i - 1 \notin Wrong
      <4> HIDE DEF Wrong
      <4> QED
        BY <2>1, <2>4
    <3> QED
      BY <2>4, <3>1
  <2>6. Same(i) <=> Same(i - 1) /\ s[i] = t[i]
    BY <2>4
  <2>7. Less(i) <=> Less(i - 1) \/ (Same(i - 1) /\ s[i] < t[i])
    <3>1. \A j \in 1..i : j \in 1..(i - 1) \/ j = i
      BY <2>4
    <3>2. \A j \in 1..(i - 1) : j \in 1..i
      BY <2>4
    <3>3. First(i) <=> Same(i - 1) /\ s[i] < t[i]
      OBVIOUS
    <3> HIDE DEF First, Same
    <3> QED
      BY <2>4, <3>1, <3>2, <3>3
  <2> HIDE DEF Same, Less
  <2>8. /\ v[i] = w[i] <=> v[i - 1] = w[i - 1] /\ s[i] = t[i]
        /\ v[i] < w[i] <=> v[i - 1] < w[i - 1] \/ (v[i - 1] = w[i - 1] /\ s[i] < t[i])
    <3> DEFINE a == v[i - 1]
               b == w[i - 1]
               x == s[i]
               y == t[i]
    <3>1. /\ a \in Nat /\ b \in Nat /\ x \in 0..3 /\ y \in 0..3
          /\ v[i] = 4 * a + x /\ w[i] = 4 * b + y
      BY <1>1, <2>4
    <3> HIDE DEF a, b, x, y
    <3>2. /\ 4 * a + x = 4 * b + y <=> a = b /\ x = y
          /\ 4 * a + x < 4 * b + y <=> a < b \/ (a = b /\ x < y)
      BY <3>1
    <3> QED
      BY <3>1, <3>2 DEF a, b, x, y
  <2> QED
    BY <2>1, <2>5, <2>6, <2>7, <2>8
<1>3. n \notin Wrong
  BY <1>2
<1> QED
  BY <1>3 DEF SameUpTo, LessUpTo

\* Cut to its first m digits, a text has the word it had there.
LEMMA WordCut ==
  ASSUME NEW t \in Seq(0..3), NEW w, IsWordOf(w, t), NEW m \in 0..Len(t)
  PROVE  w[Len(t)] \div 2 ^ (2 * (Len(t) - m)) = w[m]
<1> DEFINE n == Len(t)
           e(i) == 2 ^ (2 * (i - m))
           Right(i) == w[m] * e(i) <= w[i] /\ w[i] < (w[m] + 1) * e(i)
           Wrong == {i \in m..n : ~Right(i)}
<1>1. /\ n \in Nat /\ m \in Nat /\ m <= n
      /\ \A i \in 0..n : w[i] \in Nat
      /\ \A i \in 1..n : w[i] = 4 * w[i - 1] + t[i] /\ t[i] \in 0..3
  BY DEF IsWordOf
<1>2. ASSUME Wrong # {} PROVE FALSE
  <2>1. PICK i \in Wrong : \A j \in Wrong : i <= j
    <3>1. Wrong \subseteq Nat
      BY <1>1
    <3> HIDE DEF Wrong
    <3> QED
      BY <1>2, <3>1, LeastNatural
  <2>2. Right(m)
    <3>1. 2 * (m - m) = 0
      BY <1>1
    <3>2. 2 ^ 0 = 1
      OBVIOUS
    <3>3. e(m) = 1
      BY <3>1, <3>2
    <3> HIDE DEF e
    <3>4. w[m] \in Nat
      BY <1>1
    <3> QED
      BY <3>3, <3>4
  <2>3. i \in m..n /\ ~Right(i)
    BY <2>1
  <2>4. i # m
    BY <2>2, <2>3
  <2>5. i \in 1..n /\ i - 1 \in m..n /\ i - 1 \in 0..n /\ ~(i <= i - 1) /\ i - m \in Nat /\ (i - 1) - m \in Nat
    BY <1>1, <2>3, <2>4
  <2>6. Right(i - 1)
    <3>1. i - 1 \notin Wrong
      <4> HIDE DEF Wrong
      <4> QED
        BY <2>1, <2>5
    <3> QED
      BY <2>5, <3>1
  <2> DEFINE a == e(i - 1)
             b == w[i - 1]
             c == w[m]
             d == t[i]
  <2>7. e(i) = 4 * a
    <3>1. 2 * (i - m) = 2 * ((i - 1) - m) + 2 /\ 2 * ((i - 1) - m) \in Nat
      BY <1>1, <2>5
    <3>2. 2 ^ (2 * (i - m)) = 2 ^ (2 * ((i - 1) - m)) * 2 ^ 2
      BY <3>1, PowerOfSum
    <3>3. 2 ^ 2 = 4
      OBVIOUS
    <3>4. 2 ^ (2 * ((i - 1) - m)) \in Nat
      BY <3>1, PowerOfTwo
    <3> QED
      BY <3>2, <3>3, <3>4
  <2>8. a \in Nat
    BY <2>5, PowerOfTwo, 2 * ((i - 1) - m) \in Nat
  <2>9. b \in Nat /\ c \in Nat /\ d \in 0..3 /\ w[i] = 4 * b + d
    BY <1>1, <2>5
  <2>10. c * a <= b /\ b < (c + 1) * a
    BY <2>6
  <2> HIDE DEF a, b, c, d, e
  <2>11. c * a \in Nat /\ (c + 1) * a \in Nat
    BY <2>8, <2>9
  <2>12. 4 * (c * a) <= 4 * b + d /\ 4 * b + d < 4 * ((c + 1) * a)
    BY <2>9, <2>10, <2>11
  <2>13. c * (4 * a) = 4 * (c * a) /\ (c + 1) * (4 * a) = 4 * ((c + 1) * a)
    BY <2>8, <2>9
  <2>14. Right(i)
    BY <2>7, <2>9, <2>12, <2>13 DEF c
  <2> QED
    BY <2>3, <2>14
<1>3. Right(n)
  <2>1. n \in m..n
    BY <1>1
  <2> HIDE DEF Right, e
  <2> QED
    BY <1>2, <2>1
<1>4. e(n) \in Nat \ {0}
  BY <1>1, PowerOfTwo, 2 * (n - m) \in Nat
<1> HIDE DEF e
<1>5. w[n] \in Nat /\ w[m] \in Nat
  BY <1>1
<1>6. w[n] \div e(n) = w[m]
  BY <1>3, <1>4, <1>5, QuotientBetween
<1> QED
  BY <1>6 DEF e

\* A prefix, digit by digit.
LEMMA PrefixByDigits ==
  ASSUME NEW s \in Seq(0..3), NEW t \in Seq(0..3)
  PROVE  IsPrefix(s, t) <=> Len(s) <= Len(t) /\ \A i \in 1..Len(s) : s[i] = t[i]
<1>1. Len(s) \in Nat /\ Len(t) \in Nat
  OBVIOUS
<1>2. ASSUME Len(s) <= Len(t)
      PROVE  SubSeq(s, 1, Len(s)) = SubSeq(t, 1, Len(s)) <=> \A i \in 1..Len(s) : s[i] = t[i]
  <2> DEFINE u == SubSeq(s, 1, Len(s))
             v == SubSeq(t, 1, Len(s))
  <2>1. /\ u \in Seq(0..3) /\ v \in Seq(0..3) /\ Len(u) = Len(s) /\ Len(v) = Len(s)
        /\ \A i \in 1..Len(s) : u[i] = s[i] /\ v[i] = t[i]
    BY <1>1, <1>2
  <2> HIDE DEF u, v
  <2>2. u = v <=> \A i \in 1..Len(s) : u[i] = v[i]
    BY <2>1
  <2> QED
    BY <2>1, <2>2 DEF u, v
<1> QED
  BY <1>2 DEF IsPrefix

\* A quadkey cut to a level has the word its text had there, unless all of the
\* word would have to be shifted away.
LEMMA CutText ==
  ASSUME NEW t \in Seq(0..3), Parses(t), NEW w, IsWordOf(w, t), NEW m \in 0..Len(t),
         m > 0 \/ Len(t) < MaxLevel
  PROVE  Truncate(FromStr(t), m).bits = w[m]
<1> DEFINE k == FromStr(t)
<1>1. k \in Quadkeys /\ k.level = Len(t) /\ k.bits = w[Len(t)] /\ Len(t) \in Nat
  BY ParsedIsFormed DEF Formed, IsWordOf
<1> HIDE DEF k
<1>2. CASE m = Len(t)
  BY <1>1, <1>2 DEF Truncate, k
<1>3. CASE m < Len(t)
  <2>1. Truncate(k, m).bits = k.bits \div 2 ^ (2 * (k.level - m))
    BY <1>1, <1>3, TruncatedBits
  <2> QED
    BY <1>1, <2>1, WordCut DEF k
<1> QED
  BY <1>1, <1>2, <1>3

\* A prefix is a prefix of the digits.
THEOREM PrefixReadsAlike ==
  ASSUME NEW s \in Seq(0..3), NEW t \in Seq(0..3), Parses(s), Parses(t),
         Shifts(FromStr(t), FromStr(s).level)
  PROVE  StartsWith(FromStr(t), FromStr(s)) <=> IsPrefix(s, t)
<1> DEFINE m == Len(s)
           n == Len(t)
<1>1. m \in Nat /\ n \in Nat /\ FromStr(s).level = m /\ FromStr(t).level = n
  BY ParsedIsFormed
<1>2. PICK v : IsWordOf(v, s)
  BY WordOfText
<1>3. PICK w : IsWordOf(w, t)
  BY WordOfText
<1>4. CASE m > n
  BY <1>1, <1>4 DEF StartsWith, IsPrefix
<1>5. CASE m <= n
  <2>1. Truncate(FromStr(t), m).bits = w[m]
    BY <1>1, <1>3, <1>5, CutText DEF Shifts
  <2>2. FromStr(s).bits = v[m]
    BY <1>2 DEF IsWordOf
  <2>3. v[m] = w[m] <=> SameUpTo(s, t, m)
    BY <1>1, <1>2, <1>3, <1>5, WordsOfTwo
  <2>4. IsPrefix(s, t) <=> SameUpTo(s, t, m)
    BY <1>5, PrefixByDigits DEF SameUpTo
  <2> QED
    BY <1>1, <1>5, <2>1, <2>2, <2>3, <2>4 DEF StartsWith
<1> QED
  BY <1>1, <1>4, <1>5

\* "Sorting quadkeys sorts them the same whether they are structs here or strings
\* in a plan" (quadkey.rs): the order of the quadkeys is that of the texts they
\* were parsed from, at every level.
THEOREM OrderReadsAlike ==
  ASSUME NEW s \in Seq(0..3), NEW t \in Seq(0..3), Parses(s), Parses(t)
  PROVE  Precedes(FromStr(s), FromStr(t)) <=> ReadsBefore(s, t)
<1> DEFINE m == Len(s)
           n == Len(t)
           k == FromStr(s)
           l == FromStr(t)
           Differ == \E i \in DOMAIN s \intersect DOMAIN t : s[i] < t[i] /\ \A j \in 1..(i - 1) : s[j] = t[j]
<1>1. /\ m \in Nat /\ n \in Nat /\ k.level = m /\ l.level = n /\ k.bits \in Nat /\ l.bits \in Nat
      /\ m <= MaxLevel /\ n <= MaxLevel /\ MaxLevel > 0
      /\ DOMAIN s = 1..m /\ DOMAIN t = 1..n
  BY ParsedIsFormed, QuadkeyAssumption DEF Formed, Quadkeys, Parses
<1>2. PICK v : IsWordOf(v, s)
  BY WordOfText
<1>3. PICK w : IsWordOf(w, t)
  BY WordOfText
<1>4. k.bits = v[m] /\ l.bits = w[n] /\ v[0] = 0 /\ w[0] = 0
  BY <1>2, <1>3 DEF IsWordOf
<1>5. ReadsBefore(s, t) <=> IsStrictPrefix(s, t) \/ Differ
  BY DEF ReadsBefore
<1> HIDE DEF k, l
<1>6. CASE m <= n /\ (m > 0 \/ n < MaxLevel)
  <2>1. Truncate(k, m).bits = v[m] /\ Truncate(l, m).bits = w[m]
    <3>1. Truncate(k, m) = k
      BY <1>1 DEF Truncate
    <3>2. m \in 0..n
      BY <1>1, <1>6
    <3> QED
      BY <1>3, <1>4, <1>6, <3>1, <3>2, CutText DEF l
  <2>2. /\ v[m] = w[m] <=> SameUpTo(s, t, m)
        /\ v[m] < w[m] <=> LessUpTo(s, t, m)
    BY <1>1, <1>2, <1>3, <1>6, WordsOfTwo
  <2>3. v[m] < w[m] <=> Differ
    <3>1. DOMAIN s \intersect DOMAIN t = 1..m
      BY <1>1, <1>6
    <3> QED
      BY <2>2, <3>1 DEF LessUpTo
  <2>4. IsPrefix(s, t) <=> v[m] = w[m]
    BY <1>1, <1>6, <2>2, PrefixByDigits DEF SameUpTo
  <2>5. IsPrefix(s, t) => (s # t <=> m < n)
    <3>1. ASSUME IsPrefix(s, t), m = n PROVE s = t
      <4>1. \A j \in 1..m : s[j] = t[j]
        BY <2>2, <2>4, <3>1 DEF SameUpTo
      <4> QED
        BY <3>1, <4>1
    <3>2. m < n => s # t
      BY <1>1
    <3> HIDE DEF m, n
    <3>3. m = n \/ m < n
      BY <1>1, <1>6
    <3>4. m < n => m # n
      BY <1>1
    <3> QED
      BY <3>1, <3>2, <3>3, <3>4
  <2>6. Precedes(k, l) <=> v[m] < w[m] \/ (v[m] = w[m] /\ m < n)
    BY <1>1, <1>6, <2>1 DEF Precedes
  <2> QED
    BY <1>5, <2>3, <2>4, <2>5, <2>6 DEF IsStrictPrefix, k, l
<1>7. CASE n < m /\ (n > 0 \/ m < MaxLevel)
  <2>1. Truncate(k, n).bits = v[n] /\ Truncate(l, n).bits = w[n]
    <3>1. Truncate(l, n) = l
      BY <1>1 DEF Truncate
    <3>2. n \in 0..m
      BY <1>1, <1>7
    <3> QED
      BY <1>2, <1>4, <1>7, <3>1, <3>2, CutText DEF k
  <2>2. v[n] < w[n] <=> LessUpTo(s, t, n)
    BY <1>1, <1>2, <1>3, <1>7, WordsOfTwo
  <2>3. v[n] < w[n] <=> Differ
    <3>1. DOMAIN s \intersect DOMAIN t = 1..n
      BY <1>1, <1>7
    <3> QED
      BY <2>2, <3>1 DEF LessUpTo
  <2>4. ~IsStrictPrefix(s, t)
    BY <1>1, <1>7 DEF IsStrictPrefix, IsPrefix
  <2>5. Precedes(k, l) <=> v[n] < w[n]
    BY <1>1, <1>7, <2>1 DEF Precedes
  <2> QED
    BY <1>5, <2>3, <2>4, <2>5 DEF k, l
<1>8. CASE m = 0 /\ n = MaxLevel
  <2>1. IsStrictPrefix(s, t)
    <3>1. IsPrefix(s, t)
      <4>1. 1..Len(s) = {} /\ Len(s) <= Len(t)
        BY <1>1, <1>8
      <4> QED
        BY <4>1, PrefixByDigits
    <3> QED
      BY <1>1, <1>8, <3>1 DEF IsStrictPrefix
  <2>2. k.bits = 0
    BY <1>4, <1>8
  <2>3. Extended(k) = 0 /\ Extended(l) \in Nat /\ Formed(k) /\ Formed(l)
    <3>1. Formed(k) /\ Formed(l)
      BY ParsedIsFormed DEF k, l
    <3>2. 2 ^ (2 * (MaxLevel - k.level)) \in Nat
      <4>1. 2 * (MaxLevel - k.level) \in Nat
        BY <1>1, QuadkeyAssumption
      <4> QED
        BY <4>1, PowerOfTwo
    <3>3. Extended(k) = 0
      BY <2>2, <3>2 DEF Extended
    <3> QED
      BY <3>1, <3>3, PrecedesByExtended
  <2>4. Precedes(k, l)
    BY <1>1, <1>8, <2>3, PrecedesByExtended
  <2> QED
    BY <1>5, <2>1, <2>4 DEF k, l
<1>9. CASE n = 0 /\ m = MaxLevel
  <2>1. ~IsStrictPrefix(s, t)
    BY <1>1, <1>9 DEF IsStrictPrefix, IsPrefix
  <2>2. ~Differ
    BY <1>1, <1>9
  <2>3. l.bits = 0
    BY <1>4, <1>9
  <2>4. Extended(l) = 0 /\ Extended(k) \in Nat /\ Formed(k) /\ Formed(l)
    <3>1. Formed(k) /\ Formed(l)
      BY ParsedIsFormed DEF k, l
    <3>2. 2 ^ (2 * (MaxLevel - l.level)) \in Nat
      <4>1. 2 * (MaxLevel - l.level) \in Nat
        BY <1>1, QuadkeyAssumption
      <4> QED
        BY <4>1, PowerOfTwo
    <3>3. Extended(l) = 0
      BY <2>3, <3>2 DEF Extended
    <3> QED
      BY <3>1, <3>3, PrecedesByExtended
  <2>5. ~Precedes(k, l)
    BY <1>1, <1>9, <2>4, PrecedesByExtended
  <2> QED
    BY <1>5, <2>1, <2>2, <2>5 DEF k, l
<1> HIDE DEF m, n
<1>10. \/ m <= n /\ (m > 0 \/ n < MaxLevel)
       \/ n < m /\ (n > 0 \/ m < MaxLevel)
       \/ m = 0 /\ n = MaxLevel
       \/ n = 0 /\ m = MaxLevel
  BY <1>1, QuadkeyAssumption
<1> QED
  BY <1>6, <1>7, <1>8, <1>9, <1>10

\* "The digits are the same either way": a text reads back from its quadkey.
THEOREM DigitsReadBack ==
  ASSUME NEW t \in Seq(0..3), Parses(t)
  PROVE  Display(FromStr(t)) = t
<1> DEFINE k == FromStr(t)
           n == Len(t)
<1>1. /\ k.level = n /\ n \in Nat /\ n <= MaxLevel /\ MaxLevel \in Nat \ {0}
      /\ \A i \in 1..n : t[i] \in 0..3
  BY ParsedIsFormed, QuadkeyAssumption DEF Parses
<1>2. PICK w : IsWordOf(w, t)
  BY WordOfText
<1>3. /\ k.bits = w[n] /\ \A i \in 0..n : w[i] \in Nat
      /\ \A i \in 1..n : w[i] = 4 * w[i - 1] + t[i]
  BY <1>2 DEF IsWordOf
<1> HIDE DEF k
<1>4. ASSUME NEW i \in 1..n PROVE Digit(k, i - 1) = t[i]
  <2> DEFINE shift == 2 * (n - i)
  <2>1. 2 * (k.level - 1 - (i - 1)) = shift /\ shift \in 0..(WordSize - 1)
    BY <1>1 DEF WordSize
  <2>2. shift % WordSize = shift
    <3>1. WordSize \in Nat \ {0}
      BY <1>1 DEF WordSize
    <3> HIDE DEF shift
    <3> QED
      BY <2>1, <3>1
  <2>3. Shr(k.bits, 2 * (k.level - 1 - (i - 1))) = w[n] \div 2 ^ shift
    BY <1>3, <2>1, <2>2 DEF Shr
  <2>4. w[n] \div 2 ^ shift = w[i]
    BY <1>1, <1>2, WordCut
  <2>5. Digit(k, i - 1) = w[i] % 4
    BY <2>3, <2>4 DEF Digit
  <2>6. w[i - 1] \in Nat /\ t[i] \in 0..3 /\ w[i] = 4 * w[i - 1] + t[i]
    BY <1>1, <1>3
  <2>7. (4 * w[i - 1] + t[i]) % 4 = t[i]
    BY <2>6
  <2> QED
    BY <2>5, <2>6, <2>7
<1>5. Display(k) = [i \in 1..n |-> Digit(k, i - 1)]
  BY <1>1 DEF Display
<1>6. t = [i \in 1..n |-> t[i]]
  OBVIOUS
<1> QED
  BY <1>4, <1>5, <1>6 DEF k

\* The ancestors of a quadkey are the shorter readings of its text.
THEOREM AncestorsReadBack ==
  ASSUME NEW t \in Seq(0..3), Parses(t), NEW i \in 1..Len(t), Shifts(FromStr(t), i - 1)
  PROVE  Ancestors(FromStr(t))[i] = FromStr(SubSeq(t, 1, i - 1))
<1> DEFINE k == FromStr(t)
           m == i - 1
           s == SubSeq(t, 1, m)
<1>1. m \in 0..Len(t) /\ m \in Nat /\ m < Len(t) /\ Len(t) <= MaxLevel /\ k.level = Len(t)
  BY ParsedIsFormed DEF Parses
<1>2. /\ s \in Seq(0..3) /\ Len(s) = m /\ \A j \in 1..m : s[j] = t[j]
      /\ \A j \in DOMAIN s : s[j] \in 0..3
  BY <1>1
<1> HIDE DEF s, k, m
<1>3. Parses(s)
  BY <1>1, <1>2, QuadkeyAssumption DEF Parses
<1>4. PICK w : IsWordOf(w, t)
  BY WordOfText
<1>5. PICK v : IsWordOf(v, s)
  BY <1>2, <1>3, WordOfText
<1>6. m > 0 \/ Len(t) < MaxLevel
  BY <1>1 DEF Shifts, k, m
<1>7. Truncate(k, m).bits = w[m]
  BY <1>1, <1>4, <1>6, CutText DEF k
<1>8. v[m] = w[m]
  BY <1>1, <1>2, <1>4, <1>5, WordsOfTwo DEF SameUpTo
<1>9. Truncate(k, m) = [level |-> m, bits |-> Truncate(k, m).bits]
  BY <1>1 DEF Truncate
<1>10. FromStr(s) = [level |-> m, bits |-> v[m]]
  BY <1>2, <1>5 DEF FromStr, IsWordOf
<1>11. Ancestors(k)[i] = Truncate(k, m)
  BY <1>1 DEF Ancestors, m
<1> QED
  BY <1>7, <1>8, <1>9, <1>10, <1>11 DEF k, s, m

-----------------------------------------------------------------------------
(* Tiles.  A coordinate is a number with a bit for each digit.             *)

Counts(bits, w) ==
  w = [i \in 0..Len(bits) |-> IF i = 0 THEN 0 ELSE 2 * w[i - 1] + bits[i]]

\* w is the numbers that the beginnings of the bits make.
IsNumberOf(w, bits) ==
  /\ w \in [0..Len(bits) -> Nat] /\ w[0] = 0
  /\ \A i \in 1..Len(bits) : w[i] = 2 * w[i - 1] + bits[i]
  /\ \A i \in 0..Len(bits) : w[i] < 2 ^ i
  /\ w[Len(bits)] = Number(bits)

LEMMA CountsExist ==
  ASSUME NEW bits \in Seq(0..1)
  PROVE  \E w : Counts(bits, w)
<1> DEFINE n == Len(bits)
           Upto(m, w) == w = [i \in 0..m |-> IF i = 0 THEN 0 ELSE 2 * w[i - 1] + bits[i]]
           Missing == {m \in 0..n : ~(\E w : Upto(m, w))}
<1>1. n \in Nat
  OBVIOUS
<1>2. SUFFICES ASSUME Missing # {} PROVE FALSE
  <2>1. n \in 0..n
    BY <1>1
  <2> QED
    BY <1>2, <2>1 DEF Counts
<1>3. PICK m \in Missing : \A k \in Missing : m <= k
  <2>1. Missing \subseteq Nat
    BY <1>1
  <2> HIDE DEF Missing
  <2> QED
    BY <1>2, <2>1, LeastNatural
<1>4. CASE m = 0
  <2>1. Upto(0, [i \in 0..0 |-> 0])
    OBVIOUS
  <2> QED
    BY <1>3, <1>4, <2>1
<1>5. CASE m # 0
  <2>1. m \in 0..n /\ m - 1 \in 0..n /\ m - 1 \notin Missing
    <3>1. m \in 0..n
      BY <1>3
    <3>2. m - 1 \in 0..n /\ ~(m <= m - 1)
      BY <1>1, <1>5, <3>1
    <3> HIDE DEF Missing
    <3> QED
      BY <1>3, <3>1, <3>2
  <2>2. PICK v : Upto(m - 1, v)
    BY <2>1
  <2> DEFINE w == [i \in 0..m |-> IF i = m THEN 2 * v[m - 1] + bits[m] ELSE v[i]]
             u == [i \in 0..m |-> IF i = 0 THEN 0 ELSE 2 * w[i - 1] + bits[i]]
  <2>3. m \in Nat /\ m - 1 \in Nat
    BY <1>1, <2>1
  <2>4. \A i \in 0..m : w[i] = u[i]
    <3>1. TAKE i \in 0..m
    <3>2. CASE i = m
      BY <1>5, <2>3, <3>2
    <3>3. CASE i # m
      BY <2>2, <2>3, <3>3
    <3> QED
      BY <3>2, <3>3
  <2>5. w = u
    BY <2>4
  <2> QED
    BY <1>3, <2>5
<1> QED
  BY <1>4, <1>5

\* A number of n bits is below 2 ^ n, and so is each of its beginnings.
LEMMA NumberOfBits ==
  ASSUME NEW bits \in Seq(0..1)
  PROVE  \E w : IsNumberOf(w, bits)
<1> DEFINE n == Len(bits)
           w == CHOOSE v : Counts(bits, v)
           Fits(i) == w[i] \in Nat /\ w[i] < 2 ^ i
           Wrong == {i \in 0..n : ~Fits(i)}
<1>1. n \in Nat /\ \A i \in 1..n : bits[i] \in 0..1
  OBVIOUS
<1>2. Counts(bits, w)
  BY CountsExist
<1>3. Number(bits) = w[n]
  BY DEF Number, Counts
<1> HIDE DEF w
<1>4. /\ DOMAIN w = 0..n /\ w[0] = 0
      /\ \A i \in 1..n : w[i] = 2 * w[i - 1] + bits[i]
      /\ w = [i \in 0..n |-> w[i]]
  BY <1>1, <1>2 DEF Counts
<1>5. Wrong = {}
  <2>1. SUFFICES ASSUME Wrong # {} PROVE FALSE
    OBVIOUS
  <2>2. PICK i \in Wrong : \A j \in Wrong : i <= j
    <3>1. Wrong \subseteq Nat
      BY <1>1
    <3> HIDE DEF Wrong
    <3> QED
      BY <2>1, <3>1, LeastNatural
  <2>3. i # 0
    <3>1. 2 ^ 0 = 1
      OBVIOUS
    <3>2. Fits(0)
      BY <1>4, <3>1
    <3>3. ~Fits(i)
      BY <2>2
    <3> HIDE DEF Fits
    <3> QED
      BY <3>2, <3>3
  <2>4. i - 1 \in 0..n /\ i - 1 \notin Wrong /\ i \in 1..n /\ i \in Nat /\ i - 1 \in Nat
    BY <1>1, <2>2, <2>3
  <2>5. /\ w[i - 1] \in Nat /\ w[i - 1] < 2 ^ (i - 1) /\ bits[i] \in 0..1
        /\ w[i] = 2 * w[i - 1] + bits[i]
    BY <1>1, <1>4, <2>4
  <2>6. 2 ^ i = 2 * 2 ^ (i - 1) /\ 2 ^ (i - 1) \in Nat
    <3>1. (i - 1) + 1 = i
      BY <2>4
    <3> QED
      BY <2>4, <3>1, NextPower, PowerOfTwo
  <2>7. Fits(i)
    BY <2>5, <2>6
  <2> QED
    BY <2>2, <2>7
<1>6. \A i \in 0..n : Fits(i)
  BY <1>5
<1>7. w \in [0..n -> Nat]
  BY <1>4, <1>6
<1> QED
  BY <1>3, <1>4, <1>6, <1>7 DEF IsNumberOf

\* Shifted right, a number is what its first bits make.
LEMMA NumberCut ==
  ASSUME NEW bits \in Seq(0..1), NEW w, IsNumberOf(w, bits), NEW m \in 0..Len(bits)
  PROVE  w[Len(bits)] \div 2 ^ (Len(bits) - m) = w[m]
<1> DEFINE n == Len(bits)
           e(i) == 2 ^ (i - m)
           Right(i) == w[m] * e(i) <= w[i] /\ w[i] < (w[m] + 1) * e(i)
           Wrong == {i \in m..n : ~Right(i)}
<1>1. /\ n \in Nat /\ m \in Nat /\ m <= n
      /\ \A i \in 0..n : w[i] \in Nat
      /\ \A i \in 1..n : w[i] = 2 * w[i - 1] + bits[i] /\ bits[i] \in 0..1
  <2>1. n \in Nat /\ m \in Nat /\ m <= n /\ \A i \in 1..n : bits[i] \in 0..1
    OBVIOUS
  <2>2. \A i \in 0..n : w[i] \in Nat
    BY DEF IsNumberOf
  <2>3. \A i \in 1..n : w[i] = 2 * w[i - 1] + bits[i]
    BY DEF IsNumberOf
  <2> QED
    BY <2>1, <2>2, <2>3
<1>2. ASSUME Wrong # {} PROVE FALSE
  <2>1. PICK i \in Wrong : \A j \in Wrong : i <= j
    <3>1. Wrong \subseteq Nat
      BY <1>1
    <3> HIDE DEF Wrong
    <3> QED
      BY <1>2, <3>1, LeastNatural
  <2>2. Right(m)
    <3>1. m - m = 0
      BY <1>1
    <3>2. 2 ^ 0 = 1
      OBVIOUS
    <3>3. e(m) = 1
      BY <3>1, <3>2
    <3> HIDE DEF e
    <3>4. w[m] \in Nat
      BY <1>1
    <3> QED
      BY <3>3, <3>4
  <2>3. i \in m..n /\ ~Right(i)
    BY <2>1
  <2>4. i # m
    BY <2>2, <2>3
  <2>5. i \in 1..n /\ i - 1 \in m..n /\ i - 1 \in 0..n /\ ~(i <= i - 1) /\ (i - 1) - m \in Nat
    BY <1>1, <2>3, <2>4
  <2>6. Right(i - 1)
    <3>1. i - 1 \notin Wrong
      <4> HIDE DEF Wrong
      <4> QED
        BY <2>1, <2>5
    <3> QED
      BY <2>5, <3>1
  <2> DEFINE a == e(i - 1)
             b == w[i - 1]
             c == w[m]
             d == bits[i]
  <2>7. e(i) = 2 * a
    <3>1. i - m = ((i - 1) - m) + 1
      BY <1>1, <2>5
    <3> QED
      BY <2>5, <3>1, NextPower
  <2>8. a \in Nat
    BY <2>5, PowerOfTwo
  <2>9. b \in Nat /\ c \in Nat /\ d \in 0..1 /\ w[i] = 2 * b + d
    BY <1>1, <2>5
  <2>10. c * a <= b /\ b < (c + 1) * a
    BY <2>6
  <2> HIDE DEF a, b, c, d, e
  <2>11. c * a \in Nat /\ (c + 1) * a \in Nat
    BY <2>8, <2>9
  <2>12. 2 * (c * a) <= 2 * b + d /\ 2 * b + d < 2 * ((c + 1) * a)
    BY <2>9, <2>10, <2>11
  <2>13. c * (2 * a) = 2 * (c * a) /\ (c + 1) * (2 * a) = 2 * ((c + 1) * a)
    BY <2>8, <2>9
  <2>14. Right(i)
    BY <2>7, <2>9, <2>12, <2>13 DEF c
  <2> QED
    BY <2>3, <2>14
<1>3. Right(n)
  <2>1. n \in m..n
    BY <1>1
  <2> HIDE DEF Right, e
  <2> QED
    BY <1>2, <2>1
<1>4. e(n) \in Nat \ {0}
  BY <1>1, PowerOfTwo, n - m \in Nat
<1> HIDE DEF e
<1>5. w[n] \in Nat /\ w[m] \in Nat
  BY <1>1
<1>6. w[n] \div e(n) = w[m]
  BY <1>3, <1>4, <1>5, QuotientBetween
<1> QED
  BY <1>6 DEF e

\* The bits of a number are those it was made of.
LEMMA BitsReadBack ==
  ASSUME NEW bits \in Seq(0..1)
  PROVE  /\ Number(bits) \in Nat /\ Number(bits) < 2 ^ Len(bits)
         /\ \A i \in 1..Len(bits) : Bit(Number(bits), Len(bits) - i) = bits[i]
<1> DEFINE n == Len(bits)
<1>1. n \in Nat /\ \A i \in 1..n : bits[i] \in 0..1
  OBVIOUS
<1>2. PICK w : IsNumberOf(w, bits)
  BY NumberOfBits
<1>3. /\ Number(bits) = w[n] /\ \A i \in 0..n : w[i] \in Nat /\ w[i] < 2 ^ i
      /\ \A i \in 1..n : w[i] = 2 * w[i - 1] + bits[i]
  BY <1>1, <1>2 DEF IsNumberOf
<1>4. ASSUME NEW i \in 1..n PROVE Bit(Number(bits), n - i) = bits[i]
  <2>1. i \in 0..n /\ i - 1 \in 0..n
    BY <1>1
  <2>2. w[n] \div 2 ^ (n - i) = w[i]
    BY <1>2, <2>1, NumberCut
  <2>3. w[i - 1] \in Nat /\ bits[i] \in 0..1 /\ w[i] = 2 * w[i - 1] + bits[i]
    BY <1>1, <1>3, <2>1
  <2>4. (2 * w[i - 1] + bits[i]) % 2 = bits[i]
    BY <2>3
  <2> QED
    BY <1>3, <2>2, <2>3, <2>4 DEF Bit
<1>5. n \in 0..n
  BY <1>1
<1> QED
  BY <1>3, <1>4, <1>5

\* The digits of a tile, as its quadkey's text has them.
TileText(level, x, y) ==
  [i \in 1..level |-> Bit(x, level - i) + 2 * Bit(y, level - i)]

LEMMA BitOfNatural ==
  ASSUME NEW n \in Nat, NEW i \in Nat
  PROVE  Bit(n, i) \in 0..1
<1>1. 2 ^ i \in Nat \ {0}
  BY PowerOfTwo
<1> DEFINE q == n \div 2 ^ i
<1>2. q \in Int
  BY <1>1, DivMod
<1> HIDE DEF q
<1>3. q % 2 \in 0..1
  BY <1>2
<1> QED
  BY <1>3 DEF Bit, q

LEMMA TileByText ==
  ASSUME NEW level \in 0..MaxLevel, NEW x \in Nat, NEW y \in Nat
  PROVE  /\ TileText(level, x, y) \in Seq(0..3) /\ Len(TileText(level, x, y)) = level
         /\ Parses(TileText(level, x, y))
         /\ FromTile(level, x, y) = FromStr(TileText(level, x, y))
<1> DEFINE t == TileText(level, x, y)
<1>1. level \in Nat /\ level <= MaxLevel /\ MaxLevel \in Nat
  BY QuadkeyAssumption
<1>2. ASSUME NEW i \in 1..level PROVE Bit(x, level - i) + 2 * Bit(y, level - i) \in 0..3
  <2>1. level - i \in Nat
    BY <1>1
  <2>2. Bit(x, level - i) \in 0..1 /\ Bit(y, level - i) \in 0..1
    BY <2>1, BitOfNatural
  <2> QED
    BY <2>2
<1>3. t \in [1..level -> 0..3]
  BY <1>2 DEF TileText
<1>4. t \in Seq(0..3) /\ Len(t) = level
  BY <1>1, <1>3
<1>5. Parses(t)
  BY <1>1, <1>3, <1>4 DEF Parses
<1>6. FromTile(level, x, y) = FromStr(t)
  BY <1>4 DEF FromTile, FromStr, TileText
<1> QED
  BY <1>4, <1>5, <1>6

\* "The digits are the same either way": the tile of a quadkey is one of its level's
\* grid, and has this quadkey.
THEOREM TilesReadBack ==
  ASSUME NEW t \in Seq(0..3), Parses(t), NEW k, k = FromStr(t)
  PROVE  /\ InGrid(TileOf(k)[1], TileOf(k)[2], TileOf(k)[3])
         /\ FromTile(TileOf(k)[1], TileOf(k)[2], TileOf(k)[3]) = k
<1> DEFINE n == Len(t)
           a == [i \in 1..n |-> t[i] % 2]
           b == [i \in 1..n |-> t[i] \div 2]
<1>1. /\ k.level = n /\ n \in Nat /\ n <= MaxLevel /\ n \in 0..MaxLevel
      /\ \A i \in 1..n : t[i] \in 0..3
  BY ParsedIsFormed, QuadkeyAssumption DEF Parses
<1>2. \A i \in 1..n : Digit(k, i - 1) = t[i]
  <2>1. Display(k) = t
    BY DigitsReadBack
  <2> QED
    BY <1>1, <2>1 DEF Display
<1>3. TileOf(k) = <<n, Number(a), Number(b)>>
  <2>1. a = [i \in 1..n |-> Digit(k, i - 1) % 2] /\ b = [i \in 1..n |-> Digit(k, i - 1) \div 2]
    BY <1>2
  <2> HIDE DEF a, b
  <2> QED
    BY <1>1, <2>1 DEF TileOf
<1>4. \A i \in 1..n : t[i] % 2 \in 0..1 /\ t[i] \div 2 \in 0..1 /\ t[i] = (t[i] % 2) + 2 * (t[i] \div 2)
  BY <1>1
<1>5. a \in Seq(0..1) /\ b \in Seq(0..1) /\ Len(a) = n /\ Len(b) = n
  BY <1>1, <1>4
<1>6. \A i \in 1..n : t[i] = a[i] + 2 * b[i]
  BY <1>4
<1> HIDE DEF a, b
<1>7. /\ Number(a) \in Nat /\ Number(a) < 2 ^ n
      /\ \A i \in 1..n : Bit(Number(a), n - i) = a[i]
  BY <1>5, BitsReadBack
<1>8. /\ Number(b) \in Nat /\ Number(b) < 2 ^ n
      /\ \A i \in 1..n : Bit(Number(b), n - i) = b[i]
  BY <1>5, BitsReadBack
<1>9. TileText(n, Number(a), Number(b)) = t
  <2>1. t = [i \in 1..n |-> t[i]]
    OBVIOUS
  <2> QED
    BY <1>6, <1>7, <1>8, <2>1 DEF TileText
<1>10. FromTile(n, Number(a), Number(b)) = k
  BY <1>1, <1>7, <1>8, <1>9, TileByText
<1> QED
  BY <1>1, <1>3, <1>7, <1>8, <1>10 DEF InGrid

LEMMA QuotientOfQuotient ==
  ASSUME NEW x \in Nat, NEW a \in Nat \ {0}, NEW b \in Nat \ {0}
  PROVE  (x \div a) \div b = x \div (a * b)
<1> DEFINE q == x \div a
           r == x % a
           p == q \div b
           s == q % b
<1>1. q \in Int /\ r \in 0..(a - 1) /\ x = a * q + r
  BY DivMod
<1> HIDE DEF q, r
<1>2. p \in Int /\ s \in 0..(b - 1) /\ q = b * p + s
  BY <1>1, DivMod
<1> HIDE DEF p, s
<1> DEFINE c == a * b
           u == a * s + r
<1>3. c \in Nat \ {0} /\ u \in Nat
  BY <1>1, <1>2
<1>4. u < c
  <2>1. s * a <= (b - 1) * a
    BY <1>2, MulMonotone
  <2>2. s * a = a * s /\ (b - 1) * a = a * b - a /\ a * s \in Int /\ a * b \in Int
    BY <1>2
  <2> QED
    BY <1>1, <2>1, <2>2
<1>5. x = c * p + u
  <2>1. a * (b * p + s) = (a * b) * p + a * s
    BY <1>2
  <2>2. (a * b) * p \in Int /\ a * s \in Int
    BY <1>2
  <2> QED
    BY <1>1, <1>2, <2>1, <2>2
<1> HIDE DEF c, u
<1>6. x \div c = p
  BY <1>2, <1>3, <1>4, <1>5, QuotientIs
<1> QED
  BY <1>6 DEF c, p, q

\* Where the middle of a tile is, at a level above: in the tile its own lies in.
LEMMA MiddleOfTile ==
  ASSUME NEW level \in Nat, NEW at \in 0..level, NEW x \in Nat
  PROVE  ((2 * x + 1) * 2 ^ at) \div 2 ^ (level + 1) = x \div 2 ^ (level - at)
<1> DEFINE d == 2 ^ (level - at)
           e == 2 ^ at
           q == x \div d
           r == x % d
<1>1. at \in Nat /\ level - at \in Nat /\ level = (level - at) + at
  OBVIOUS
<1>2. d \in Nat \ {0} /\ e \in Nat \ {0}
  BY <1>1, PowerOfTwo
<1>3. 2 ^ (level + 1) = 2 * (d * e)
  BY <1>1, NextPower, PowerOfSum
<1> HIDE DEF d, e
<1>4. q \in Int /\ r \in 0..(d - 1) /\ x = d * q + r
  BY <1>2, DivMod
<1> HIDE DEF q, r
<1> DEFINE c == 2 * (d * e)
           u == (2 * r + 1) * e
           v == (2 * x + 1) * e
<1>5. c \in Nat \ {0} /\ u \in Nat /\ v \in Int
  BY <1>2, <1>4
<1>6. u < c
  <2>1. (2 * r + 1) * e <= (2 * d - 1) * e
    BY <1>2, <1>4, MulMonotone
  <2>2. (2 * d - 1) * e = 2 * (d * e) - e
    BY <1>2
  <2>3. c - e < c
    BY <1>2, <1>5
  <2>4. u <= c - e
    BY <2>1, <2>2
  <2> QED
    BY ONLY <1>2, <1>5, <2>3, <2>4
<1>7. v = c * q + u
  <2>1. (2 * (d * q + r) + 1) * e = (2 * (d * e)) * q + (2 * r + 1) * e
    BY <1>2, <1>4
  <2> QED
    BY <1>4, <2>1
<1> HIDE DEF c, u
<1>8. v \div c = q
  <2> HIDE DEF v
  <2> QED
    BY <1>4, <1>5, <1>6, <1>7, QuotientIs
<1> QED
  BY <1>3, <1>8 DEF c, v, q, d, e

\* A tile cut to a level above is the tile it lies in.
LEMMA TileTextCut ==
  ASSUME NEW level \in 0..MaxLevel, NEW at \in 0..level, NEW x \in Nat, NEW y \in Nat
  PROVE  /\ x \div 2 ^ (level - at) \in Nat /\ y \div 2 ^ (level - at) \in Nat
         /\ TileText(at, x \div 2 ^ (level - at), y \div 2 ^ (level - at))
              = SubSeq(TileText(level, x, y), 1, at)
<1> DEFINE d == 2 ^ (level - at)
           t == TileText(level, x, y)
<1>1. level \in Nat /\ at \in Nat /\ at <= level /\ level - at \in Nat
  BY QuadkeyAssumption
<1>2. d \in Nat \ {0}
  BY <1>1, PowerOfTwo
<1>3. x \div d \in Nat /\ y \div d \in Nat
  BY <1>2, AroundQuotient
<1>4. ASSUME NEW i \in 1..at, NEW n \in Nat PROVE Bit(n \div d, at - i) = Bit(n, level - i)
  <2>1. at - i \in Nat /\ level - i = (level - at) + (at - i)
    BY <1>1
  <2> DEFINE f == 2 ^ (at - i)
  <2>2. f \in Nat \ {0}
    BY <2>1, PowerOfTwo
  <2>3. 2 ^ (level - i) = d * f
    BY <1>1, <2>1, PowerOfSum
  <2> HIDE DEF d, f
  <2>4. (n \div d) \div f = n \div (d * f)
    BY <1>2, <2>2, QuotientOfQuotient
  <2> QED
    BY <2>3, <2>4 DEF Bit, f
<1>5. /\ t \in Seq(0..3) /\ Len(t) = level
      /\ \A i \in 1..level : t[i] = Bit(x, level - i) + 2 * Bit(y, level - i)
  BY TileByText DEF TileText
<1> HIDE DEF d, t
<1>6. SubSeq(t, 1, at) = [i \in 1..at |-> t[i]]
  BY <1>1, <1>5
<1>7. \A i \in 1..at : i \in 1..level
  BY <1>1
<1>8. TileText(at, x \div d, y \div d) = [i \in 1..at |-> t[i]]
  BY <1>4, <1>5, <1>7 DEF TileText
<1> QED
  BY <1>3, <1>6, <1>8 DEF d, t

\* A text cut to a level, packed or not.
LEMMA TruncatedText ==
  ASSUME NEW t \in Seq(0..3), Parses(t), NEW m \in 0..Len(t), Shifts(FromStr(t), m)
  PROVE  Truncate(FromStr(t), m) = FromStr(SubSeq(t, 1, m))
<1> DEFINE k == FromStr(t)
<1>1. /\ m \in Nat /\ Len(t) \in Nat /\ m <= Len(t) /\ Len(t) <= MaxLevel
      /\ k.level = Len(t)
  BY ParsedIsFormed DEF Parses
<1>2. CASE m = Len(t)
  <2>1. SubSeq(t, 1, Len(t)) = t
    OBVIOUS
  <2> QED
    BY <1>1, <1>2, <2>1 DEF Truncate
<1>3. CASE m < Len(t)
  <2> DEFINE i == m + 1
  <2>1. i \in 1..Len(t) /\ i - 1 = m /\ i \in 1..k.level
    BY <1>1, <1>3
  <2> HIDE DEF i, k
  <2>2. Ancestors(k)[i] = FromStr(SubSeq(t, 1, m))
    BY <2>1, AncestorsReadBack DEF k
  <2>3. Ancestors(k)[i] = Truncate(k, m)
    BY <2>1 DEF Ancestors
  <2> QED
    BY <2>2, <2>3 DEF k
<1> QED
  BY <1>1, <1>2, <1>3

\* The quadkey of a tile's centre is, at every level above, the tile's own cut to that
\* level, whichever edge the rows are counted from (tile.rs, quadkey; quadkey.rs,
\* truncate), save where cutting would shift the whole word away.
THEOREM TilesNest ==
  ASSUME NEW level \in 0..MaxLevel, NEW at \in 0..level,
         NEW x \in 0..(2 ^ level - 1), NEW y \in 0..(2 ^ level - 1)
  PROVE  /\ Shifts(FromTile(level, x, y), at) =>
              QuadkeyAt(FALSE, level, x, y, at) = Truncate(FromTile(level, x, y), at)
         /\ QuadkeyAt(TRUE, level, x, YFromNorth(TRUE, level, y), at) =
              QuadkeyAt(FALSE, level, x, y, at)
<1> DEFINE t == TileText(level, x, y)
           k == FromTile(level, x, y)
           d == 2 ^ (level - at)
<1>1. level \in Nat /\ at \in Nat /\ at <= level /\ at \in 0..MaxLevel /\ 2 ^ level \in Nat
  BY QuadkeyAssumption, PowerOfTwo
<1>2. x \in Nat /\ y \in Nat
  BY <1>1
<1>3. t \in Seq(0..3) /\ Len(t) = level /\ Parses(t) /\ k = FromStr(t)
  BY <1>2, TileByText
<1>4. /\ x \div d \in Nat /\ y \div d \in Nat
      /\ TileText(at, x \div d, y \div d) = SubSeq(t, 1, at)
  BY <1>2, TileTextCut
<1> HIDE DEF d
<1>5. FromTile(at, x \div d, y \div d) = FromStr(SubSeq(t, 1, at))
  <2> DEFINE m == x \div d
             n == y \div d
  <2>1. m \in Nat /\ n \in Nat /\ TileText(at, m, n) = SubSeq(t, 1, at)
    BY <1>4
  <2> HIDE DEF m, n, t
  <2>2. FromTile(at, m, n) = FromStr(TileText(at, m, n))
    BY <1>1, <2>1, TileByText
  <2> QED
    BY <2>1, <2>2 DEF m, n
<1>6. QuadkeyAt(FALSE, level, x, y, at) = FromStr(SubSeq(t, 1, at))
  <2>1. CASE at = 0
    <3>1. SubSeq(t, 1, 0) \in Seq(0..3) /\ Len(SubSeq(t, 1, 0)) = 0
      BY <1>3
    <3>2. Parses(SubSeq(t, 1, 0))
      BY <1>1, <3>1, QuadkeyAssumption DEF Parses
    <3>3. PICK w : IsWordOf(w, SubSeq(t, 1, 0))
      BY <3>1, <3>2, WordOfText
    <3>4. FromStr(SubSeq(t, 1, 0)).bits = 0
      BY <3>1, <3>3 DEF IsWordOf
    <3>5. FromStr(SubSeq(t, 1, 0)) = Root
      BY <3>1, <3>4 DEF FromStr, Root
    <3> QED
      BY <2>1, <3>5 DEF QuadkeyAt
  <2>2. CASE at # 0
    <3>1. /\ ((2 * x + 1) * 2 ^ at) \div 2 ^ (level + 1) = x \div d
          /\ ((2 * y + 1) * 2 ^ at) \div 2 ^ (level + 1) = y \div d
      BY <1>1, <1>2, MiddleOfTile DEF d
    <3>2. QuadkeyAt(FALSE, level, x, y, at) = FromTile(at, x \div d, y \div d)
      BY <2>2, <3>1 DEF QuadkeyAt, YFromNorth
    <3> QED
      BY <1>5, <3>2
  <2> QED
    BY <2>1, <2>2
<1>7. ASSUME Shifts(k, at) PROVE Truncate(k, at) = FromStr(SubSeq(t, 1, at))
  BY <1>1, <1>3, <1>7, TruncatedText
<1>8. QuadkeyAt(TRUE, level, x, YFromNorth(TRUE, level, y), at) = QuadkeyAt(FALSE, level, x, y, at)
  <2>1. YFromNorth(TRUE, level, YFromNorth(TRUE, level, y)) = y /\ YFromNorth(FALSE, level, y) = y
    BY <1>1, <1>2 DEF YFromNorth
  <2> QED
    BY <2>1 DEF QuadkeyAt
<1> QED
  BY <1>6, <1>7, <1>8

\* All that quadkey.rs promises of digits and packed words, at once.
THEOREM QuadkeysReadTheSame ==
  ReadAlike
<1>1. ASSUME NEW s \in Texts PROVE s \in Seq(0..3) /\ Parses(s)
  <2>1. PICK n \in 0..MaxLevel : s \in [1..n -> 0..3]
    BY DEF Texts, SeqOf
  <2>2. s \in Seq(0..3) /\ Len(s) = n
    BY <2>1, QuadkeyAssumption
  <2> QED
    BY <2>1, <2>2, QuadkeyAssumption DEF Parses
<1>2. ASSUME NEW s \in Texts, NEW k, k = FromStr(s)
      PROVE  /\ k \in Quadkeys /\ Display(k) = s
             /\ InGrid(TileOf(k)[1], TileOf(k)[2], TileOf(k)[3])
             /\ FromTile(TileOf(k)[1], TileOf(k)[2], TileOf(k)[3]) = k
             /\ \A i \in DOMAIN Ancestors(k) :
                  Shifts(k, i - 1) => Ancestors(k)[i] = FromStr(SubSeq(s, 1, i - 1))
  <2>1. s \in Seq(0..3) /\ Parses(s)
    BY <1>1
  <2>2. k \in Quadkeys /\ k.level = Len(s)
    BY <1>2, <2>1, ParsedIsFormed DEF Formed
  <2>3. DOMAIN Ancestors(k) = 1..Len(s)
    BY <2>2 DEF Ancestors
  <2>4. Display(k) = s
    BY <1>2, <2>1, DigitsReadBack
  <2>5. /\ InGrid(TileOf(k)[1], TileOf(k)[2], TileOf(k)[3])
        /\ FromTile(TileOf(k)[1], TileOf(k)[2], TileOf(k)[3]) = k
    BY <1>2, <2>1, TilesReadBack
  <2>6. ASSUME NEW i \in 1..Len(s), Shifts(k, i - 1)
        PROVE  Ancestors(k)[i] = FromStr(SubSeq(s, 1, i - 1))
    BY <1>2, <2>1, <2>6, AncestorsReadBack
  <2> QED
    BY <2>2, <2>3, <2>4, <2>5, <2>6
<1>3. ASSUME NEW s \in Texts, NEW t \in Texts, NEW k, NEW l, k = FromStr(s), l = FromStr(t)
      PROVE  /\ Precedes(k, l) <=> ReadsBefore(s, t)
             /\ Shifts(k, l.level) => (StartsWith(k, l) <=> IsPrefix(t, s))
  <2>1. s \in Seq(0..3) /\ Parses(s) /\ t \in Seq(0..3) /\ Parses(t)
    BY <1>1
  <2> QED
    BY <1>3, <2>1, OrderReadsAlike, PrefixReadsAlike
<1> QED
  BY <1>2, <1>3, TilesNest DEF ReadAlike

-----------------------------------------------------------------------------
(* The sort.                                                               *)

IsCandidate(c) ==
  /\ DOMAIN c = {"kind", "qk", "id", "url", "req", "gen", "bytes", "score"}
  /\ c.kind \in Kinds /\ c.id \in Nat /\ c.score \in Nat
  /\ c.req \in Nat /\ c.gen \in Nat /\ c.bytes \in Nat
  /\ c.qk = None \/ Formed(c.qk)

\* The comparison of the sort orders any candidates strictly, and tells apart all
\* that are not of the same document.
LEMMA BeforeIsOrder ==
  ASSUME NEW a, NEW b, NEW c, IsCandidate(a), IsCandidate(b), IsCandidate(c)
  PROVE  /\ ~Before(a, a)
         /\ Before(a, b) /\ Before(b, c) => Before(a, c)
         /\ Before(a, b) \/ Before(b, a) \/ (a.kind = b.kind /\ a.id = b.id)
<1> DEFINE EarlierQk(x, y) == x.qk # y.qk /\ (x.qk = None \/ (y.qk # None /\ Precedes(x.qk, y.qk)))
           Earlier(x, y) ==
             IF Placed(x.kind) # Placed(y.kind) THEN ~Placed(x.kind)
             ELSE IF x.score # y.score THEN x.score > y.score
             ELSE IF x.qk # y.qk THEN EarlierQk(x, y)
             ELSE IF x.id # y.id THEN x.id < y.id
             ELSE KindRank[x.kind] < KindRank[y.kind]
<1>1. /\ ~EarlierQk(a, a)
      /\ EarlierQk(a, b) /\ EarlierQk(b, c) => EarlierQk(a, c)
      /\ ~(EarlierQk(a, b) /\ EarlierQk(b, a))
      /\ a.qk # b.qk => EarlierQk(a, b) \/ EarlierQk(b, a)
  BY QuadkeysAreOrdered DEF IsCandidate
<1>2. /\ KindRank[a.kind] \in Nat /\ KindRank[b.kind] \in Nat /\ KindRank[c.kind] \in Nat
      /\ KindRank[a.kind] = KindRank[b.kind] => a.kind = b.kind
  BY DEF IsCandidate, Kinds, KindRank
<1>3. /\ Before(a, b) <=> Earlier(a, b)
      /\ Before(b, a) <=> Earlier(b, a)
      /\ Before(b, c) <=> Earlier(b, c)
      /\ Before(a, c) <=> Earlier(a, c)
      /\ Before(a, a) <=> Earlier(a, a)
  BY DEF Before
<1>4. /\ a.score \in Nat /\ b.score \in Nat /\ c.score \in Nat
      /\ a.id \in Nat /\ b.id \in Nat /\ c.id \in Nat
  BY DEF IsCandidate
<1>5. /\ EarlierQk(a, b) => a.qk # b.qk
      /\ EarlierQk(b, c) => b.qk # c.qk
      /\ EarlierQk(a, c) => a.qk # c.qk
  OBVIOUS
<1>6. /\ (Placed(a.kind) # Placed(b.kind)) <=> ~(Placed(a.kind) <=> Placed(b.kind))
      /\ (Placed(b.kind) # Placed(c.kind)) <=> ~(Placed(b.kind) <=> Placed(c.kind))
      /\ (Placed(a.kind) # Placed(c.kind)) <=> ~(Placed(a.kind) <=> Placed(c.kind))
  BY DEF Placed
<1> HIDE DEF EarlierQk
<1>7. ~Earlier(a, a)
  BY <1>1, <1>2, <1>4
<1>8. ASSUME Earlier(a, b), Earlier(b, c) PROVE Earlier(a, c)
  <2>1. CASE Placed(a.kind) # Placed(b.kind)
    BY <1>6, <1>8, <2>1
  <2>2. CASE Placed(a.kind) = Placed(b.kind) /\ Placed(b.kind) # Placed(c.kind)
    BY <1>6, <1>8, <2>2
  <2>3. CASE Placed(a.kind) = Placed(b.kind) /\ Placed(b.kind) = Placed(c.kind)
    <3>1. CASE a.score # b.score \/ b.score # c.score
      BY <1>4, <1>8, <2>3, <3>1
    <3>2. CASE a.score = b.score /\ b.score = c.score
      <4>1. CASE a.qk # b.qk \/ b.qk # c.qk
        <5>1. CASE a.qk # b.qk /\ b.qk # c.qk
          BY <1>1, <1>5, <1>8, <2>3, <3>2, <5>1
        <5>2. CASE a.qk # b.qk /\ b.qk = c.qk
          BY <1>8, <2>3, <3>2, <5>2 DEF EarlierQk
        <5>3. CASE a.qk = b.qk /\ b.qk # c.qk
          BY <1>8, <2>3, <3>2, <5>3 DEF EarlierQk
        <5> QED
          BY <4>1, <5>1, <5>2, <5>3
      <4>2. CASE a.qk = b.qk /\ b.qk = c.qk
        BY <1>2, <1>4, <1>8, <2>3, <3>2, <4>2
      <4> QED
        BY <4>1, <4>2
    <3> QED
      BY <3>1, <3>2
  <2> QED
    BY <2>1, <2>2, <2>3
<1>9. Earlier(a, b) \/ Earlier(b, a) \/ (a.kind = b.kind /\ a.id = b.id)
  BY <1>1, <1>2, <1>4, <1>6
<1> QED
  BY <1>3, <1>7, <1>8, <1>9

\* Candidates told apart by their document.
Distinct(C) ==
  /\ IsFiniteSet(C) /\ \A c \in C : IsCandidate(c)
  /\ \A c, d \in C : c.kind = d.kind /\ c.id = d.id => c = d

\* Each candidate has the place its rank gives it, and each place a candidate.
LEMMA SortedByRank ==
  ASSUME NEW C, Distinct(C)
  PROVE  /\ Cardinality(C) \in Nat
         /\ \A c \in C : Rank(C, c) \in 0..(Cardinality(C) - 1)
         /\ \A c, d \in C : Before(c, d) => Rank(C, c) < Rank(C, d)
         /\ \A i \in 1..Cardinality(C) : Sorted(C)[i] \in C /\ Rank(C, Sorted(C)[i]) = i - 1
         /\ \A c \in C : Sorted(C)[Rank(C, c) + 1] = c
<1> DEFINE n == Cardinality(C)
           Under(c) == {d \in C : Before(d, c)}
           rank == [c \in C |-> Cardinality(Under(c))]
<1>1. IsFiniteSet(C) /\ n \in Nat
  BY FS_CardinalityType DEF Distinct
<1>2. ASSUME NEW c \in C
      PROVE  /\ IsFiniteSet(Under(c)) /\ Cardinality(Under(c)) \in Nat
             /\ Cardinality(Under(c)) < n
  <2>1. Under(c) \subseteq C \ {c}
    BY BeforeIsOrder DEF Distinct
  <2>2. IsFiniteSet(C \ {c}) /\ Cardinality(C \ {c}) = n - 1
    BY <1>1, FS_RemoveElement
  <2> HIDE DEF Under
  <2>3. IsFiniteSet(Under(c)) /\ Cardinality(Under(c)) <= n - 1
    BY <2>1, <2>2, FS_Subset
  <2> QED
    BY <1>1, <2>3, FS_CardinalityType
<1>3. ASSUME NEW c \in C, NEW d \in C, Before(c, d)
      PROVE  Cardinality(Under(c)) < Cardinality(Under(d))
  <2>1. Under(c) \subseteq Under(d) \ {c}
    BY <1>3, BeforeIsOrder DEF Distinct
  <2>2. c \in Under(d)
    BY <1>3
  <2> HIDE DEF Under
  <2>3. IsFiniteSet(Under(d)) /\ Cardinality(Under(d)) \in Nat /\ Cardinality(Under(c)) \in Nat
    BY <1>2
  <2>4. IsFiniteSet(Under(d) \ {c}) /\ Cardinality(Under(d) \ {c}) = Cardinality(Under(d)) - 1
    BY <2>2, <2>3, FS_RemoveElement
  <2>5. Cardinality(Under(c)) <= Cardinality(Under(d)) - 1
    BY <2>1, <2>4, FS_Subset
  <2> QED
    BY <2>3, <2>5
<1>4. rank \in [C -> 0..(n - 1)]
  BY <1>1, <1>2
<1>5. \A c, d \in C : rank[c] = rank[d] => c = d
  <2>1. SUFFICES ASSUME NEW c \in C, NEW d \in C, rank[c] = rank[d] PROVE c = d
    OBVIOUS
  <2>2. rank[c] = Cardinality(Under(c)) /\ rank[d] = Cardinality(Under(d))
    OBVIOUS
  <2> HIDE DEF rank, Under
  <2>3. Cardinality(Under(c)) = Cardinality(Under(d)) /\ Cardinality(Under(c)) \in Nat
    BY <1>2, <2>1, <2>2
  <2>4. ~Before(c, d)
    BY <1>3, <2>3
  <2>5. ~Before(d, c)
    BY <1>3, <2>3
  <2> QED
    BY <2>4, <2>5, BeforeIsOrder DEF Distinct
<1>6. \A c \in C : Rank(C, c) = rank[c]
  BY DEF Rank
<1> HIDE DEF rank
<1>7. rank \in Injection(C, 0..(n - 1))
  BY <1>4, <1>5 DEF Injection, IsInjective
<1>8. IsFiniteSet(0..(n - 1)) /\ Cardinality(0..(n - 1)) = n
  BY <1>1, FS_Interval
<1>9. rank \in Surjection(C, 0..(n - 1))
  BY <1>7, <1>8, FS_Injection
<1>10. \A i \in 1..n : \E c \in C : Rank(C, c) = i - 1
  <2>1. TAKE i \in 1..n
  <2>2. i - 1 \in 0..(n - 1)
    BY <1>1
  <2> QED
    BY <1>6, <1>9, <2>2 DEF Surjection
<1>11. \A i \in 1..n : Sorted(C)[i] \in C /\ Rank(C, Sorted(C)[i]) = i - 1
  <2>1. TAKE i \in 1..n
  <2>2. Sorted(C)[i] = CHOOSE c \in C : Rank(C, c) = i - 1
    BY DEF Sorted
  <2>3. \E c \in C : Rank(C, c) = i - 1
    BY <1>10
  <2> QED
    BY <2>2, <2>3
<1>12. \A c \in C : Sorted(C)[Rank(C, c) + 1] = c
  <2>1. TAKE c \in C
  <2>2. Rank(C, c) \in 0..(n - 1)
    BY <1>4, <1>6
  <2>3. Rank(C, c) + 1 \in 1..n /\ (Rank(C, c) + 1) - 1 = Rank(C, c)
    BY <1>1, <2>2
  <2> DEFINE d == Sorted(C)[Rank(C, c) + 1]
  <2>4. d \in C /\ Rank(C, d) = Rank(C, c)
    BY <1>11, <2>3
  <2> QED
    BY <1>5, <1>6, <2>4
<1>13. \A c, d \in C : Before(c, d) => Rank(C, c) < Rank(C, d)
  BY <1>3 DEF Rank
<1> QED
  BY <1>1, <1>4, <1>6, <1>11, <1>12, <1>13

-----------------------------------------------------------------------------
(* The collection.  Whatever order the records come in, what is known of a *)
(* cell is what the records of it that were read say of the tiles that     *)
(* died.                                                                   *)

InputOK ==
  /\ input.digests \subseteq Records
  /\ input.manifest = None \/ IsManifest(input.manifest)
  /\ input.epoch \subseteq Axes /\ IsEvent(input.event) /\ IsOptions(input.options)

DeadOf(inp, r) == {t \in DOMAIN r.top : CoversTile(inp.event.scope, r.kind, t)}

\* collect_cells does not pass the record over.
Wanted(inp, r) ==
  r.tileset = inp.event.tileset /\ (Placed(r.kind) => TouchesCell(inp.event.scope, r.cell))

Taken(inp, un) == {r \in inp.digests \ un : Wanted(inp, r)}

CellOK(c) ==
  /\ c = [freq |-> c.freq, newest |-> c.newest, gen |-> c.gen, p95 |-> c.p95, bytes |-> c.bytes,
          observed |-> c.observed, tiles |-> c.tiles]
  /\ c.freq \in Nat /\ c.newest \in 0..Horizon /\ c.observed \in Nat
  /\ c.gen \in Some(Nat) /\ c.p95 \in Some(Nat) /\ c.bytes \in Some(Nat)
  /\ \A t \in DOMAIN c.tiles : c.tiles[t] \in Nat

Collected ==
  /\ InputOK /\ unread \subseteq input.digests
  /\ DOMAIN cells = {CellKey(r) : r \in Taken(input, unread)}
  /\ \A k \in DOMAIN cells :
       /\ CellOK(cells[k])
       /\ \A t : t \in DOMAIN cells[k].tiles <=>
            \E r \in Taken(input, unread) : CellKey(r) = k /\ t \in DeadOf(input, r)

\* Of two numbers.
LEMMA MaxOfTwo ==
  ASSUME NEW a \in Int, NEW b \in Int
  PROVE  Max({a, b}) \in {a, b} /\ Max({a, b}) >= a /\ Max({a, b}) >= b
<1>1. \E x \in {a, b} : \A y \in {a, b} : x >= y
  OBVIOUS
<1>2. Max({a, b}) \in {a, b} /\ \A y \in {a, b} : Max({a, b}) >= y
  BY <1>1 DEF Max
<1> QED
  BY <1>2

LEMMA WeightIsNatural ==
  ASSUME InputOK, NEW r \in Records
  PROVE  Weight(r) \in Nat \ {0}
<1>1. Horizon \in Nat /\ r.window \in Read(0..Horizon)
  BY PlannerAssumption DEF IsRecord
<1>2. input.event.occurred.day \in Read(0..Horizon)
  BY DEF InputOK, IsEvent
<1>3. Age(r.window) \in 0..Horizon
  <2>1. CASE Unreadable \in {r.window, input.event.occurred.day}
    BY <1>1, <2>1 DEF Age
  <2>2. CASE Unreadable \notin {r.window, input.event.occurred.day}
    <3> DEFINE d == input.event.occurred.day
               w == r.window
    <3>1. d \in 0..Horizon /\ w \in 0..Horizon
      BY <1>1, <1>2, <2>2 DEF Read
    <3>2. Age(w) = Max({0, d - w})
      BY <2>2 DEF Age
    <3> HIDE DEF d, w
    <3>3. d - w \in Int /\ d - w <= Horizon
      BY <1>1, <3>1
    <3> DEFINE x == d - w
               z == 0
    <3> HIDE DEF x, z
    <3>4. Max({z, x}) \in {z, x} /\ Max({z, x}) >= z
      <4>1. x \in Int /\ z \in Int
        BY <3>3 DEF x, z
      <4> QED
        BY <4>1, MaxOfTwo
    <3> QED
      BY <1>1, <3>2, <3>3, <3>4 DEF w, x, z
  <2> QED
    BY <2>1, <2>2
<1>4. Horizon - Age(r.window) \in Nat
  BY <1>1, <1>3
<1> QED
  BY <1>1, <1>4, PowerOfTwo DEF Weight

\* A record merged into a cell adds the tiles of it that died, and no others.
LEMMA MergedCell ==
  ASSUME InputOK, NEW r \in Records, NEW c, CellOK(c)
  PROVE  /\ CellOK(Merged(c, r))
         /\ DOMAIN Merged(c, r).tiles = DOMAIN c.tiles \union DeadOf(input, r)
         /\ Merged(c, r).tiles = [t \in DOMAIN c.tiles \union DeadOf(input, r) |->
                                   At(c.tiles, t)
                                     + IF t \in DeadOf(input, r) THEN r.top[t] * Weight(r) ELSE 0]
         /\ Merged(c, r).freq = c.freq + r.req * Weight(r)
         /\ Merged(c, r).observed = Max({c.observed, r.observed})
         /\ Fresh(r, c) => Merged(c, r).newest = DayOf(r.window) /\ Merged(c, r).gen = r.p50
         /\ ~Fresh(r, c) => Merged(c, r).newest = c.newest /\ Merged(c, r).gen = c.gen
<1> DEFINE dead == DeadOf(input, r)
           w == Weight(r)
           day == DayOf(r.window)
           fresh == IF Fresh(r, c)
                    THEN [c EXCEPT !.newest = day, !.gen = r.p50, !.p95 = r.p95, !.bytes = r.bytes]
                    ELSE c
           tiles == [t \in DOMAIN c.tiles \union dead |->
                       At(c.tiles, t) + IF t \in dead THEN r.top[t] * w ELSE 0]
           freq == c.freq + r.req * w
           observed == Max({c.observed, r.observed})
<1>1. /\ Horizon \in Nat /\ r.window \in Read(0..Horizon) /\ r.req \in Nat /\ r.observed \in Nat
      /\ r.p50 \in Some(Nat) /\ r.p95 \in Some(Nat) /\ r.bytes \in Some(Nat)
      /\ \A t \in DOMAIN r.top : r.top[t] \in Nat
  BY PlannerAssumption DEF IsRecord
<1>2. w \in Nat
  BY WeightIsNatural
<1>3. day \in 0..Horizon
  BY <1>1 DEF DayOf, Read
<1>4. dead \subseteq DOMAIN r.top
  BY DEF DeadOf
<1>5. Merged(c, r) = [fresh EXCEPT !.freq = fresh.freq + r.req * w,
                                   !.observed = Max({fresh.observed, r.observed}),
                                   !.tiles = [t \in DOMAIN fresh.tiles \union dead |->
                       At(fresh.tiles, t) + IF t \in dead THEN r.top[t] * w ELSE 0]]
  BY DEF Merged, DeadOf
<1>6. /\ fresh = [freq |-> c.freq, newest |-> fresh.newest, gen |-> fresh.gen, p95 |-> fresh.p95,
                  bytes |-> fresh.bytes, observed |-> c.observed, tiles |-> c.tiles]
      /\ fresh.newest \in 0..Horizon /\ fresh.gen \in Some(Nat) /\ fresh.p95 \in Some(Nat)
      /\ fresh.bytes \in Some(Nat)
      /\ Fresh(r, c) => fresh.newest = day /\ fresh.gen = r.p50
      /\ ~Fresh(r, c) => fresh.newest = c.newest /\ fresh.gen = c.gen
  <2> HIDE DEF day
  <2>1. CASE Fresh(r, c)
    BY <1>1, <1>3, <2>1 DEF CellOK
  <2>2. CASE ~Fresh(r, c)
    BY <2>2 DEF CellOK
  <2> QED
    BY <2>1, <2>2
<1> HIDE DEF fresh, dead, w, day
<1>7. freq \in Nat
  BY <1>1, <1>2 DEF CellOK
<1>8. observed \in Nat
  <2> DEFINE a == c.observed
             b == r.observed
  <2>1. a \in Nat /\ b \in Nat
    BY <1>1 DEF CellOK
  <2> HIDE DEF a, b
  <2>2. Max({a, b}) \in {a, b}
    BY <2>1, MaxOfTwo
  <2> QED
    BY <2>1, <2>2 DEF a, b
<1>9. \A t \in DOMAIN tiles : tiles[t] \in Nat
  <2>1. SUFFICES ASSUME NEW t \in DOMAIN c.tiles \union dead PROVE tiles[t] \in Nat
    OBVIOUS
  <2>2. At(c.tiles, t) \in Nat
    BY DEF At, CellOK
  <2>3. t \in dead => r.top[t] * w \in Nat
    BY <1>1, <1>2, <1>4
  <2> DEFINE more == IF t \in dead THEN r.top[t] * w ELSE 0
  <2>4. more \in Nat
    BY <2>3
  <2> HIDE DEF more
  <2>5. At(c.tiles, t) + more \in Nat
    BY <2>2, <2>4
  <2> QED
    BY <2>1, <2>5 DEF more
<1>10. fresh.freq = c.freq /\ fresh.observed = c.observed /\ fresh.tiles = c.tiles
  BY <1>6
<1>11. Merged(c, r) = [fresh EXCEPT !.freq = freq, !.observed = observed, !.tiles = tiles]
  BY <1>5, <1>10
<1> HIDE DEF freq, observed, tiles
<1>12. Merged(c, r) = [freq |-> freq, newest |-> fresh.newest, gen |-> fresh.gen, p95 |-> fresh.p95,
                       bytes |-> fresh.bytes, observed |-> observed, tiles |-> tiles]
  BY <1>6, <1>11
<1>13. /\ CellOK(Merged(c, r)) /\ Merged(c, r).tiles = tiles
       /\ Merged(c, r).freq = freq /\ Merged(c, r).observed = observed
       /\ Merged(c, r).newest = fresh.newest /\ Merged(c, r).gen = fresh.gen
  BY <1>6, <1>7, <1>8, <1>9, <1>12 DEF CellOK
<1> QED
  BY <1>6, <1>13 DEF tiles, dead, freq, observed, w, day

LEMMA EmptyCell ==
  CellOK(Empty) /\ DOMAIN Empty.tiles = {}
BY PlannerAssumption DEF CellOK, Empty, Some

LEMMA CollectingOne ==
  ASSUME Collected, NEW r \in Records, Collect(r)
  PROVE  Collected'
<1> DEFINE old == Taken(input, unread)
           new == Taken(input, unread')
           key == CellKey(r)
           cell == IF key \in DOMAIN cells THEN cells[key] ELSE Empty
           merged == Merged(cell, r)
<1>1. /\ InputOK /\ input' = input /\ unread' = unread \ {r} /\ r \in unread
      /\ unread \subseteq input.digests
  BY DEF Collected, Collect
<1>2. InputOK'
  BY <1>1 DEF InputOK
<1>3. CASE ~Wanted(input, r)
  <2>1. cells' = cells
    BY <1>3 DEF Collect, Wanted
  <2>2. new = old
    BY <1>1, <1>3 DEF Taken
  <2> QED
    BY <1>1, <1>2, <2>1, <2>2 DEF Collected
<1>4. CASE Wanted(input, r)
  <2>1. cells' = [k \in DOMAIN cells \union {key} |-> IF k = key THEN merged ELSE cells[k]]
    BY <1>4 DEF Collect, Wanted
  <2>2. new = old \union {r}
    BY <1>1, <1>4 DEF Taken
  <2>3. CellOK(cell)
    BY EmptyCell DEF Collected
  <2>4. /\ CellOK(merged)
        /\ DOMAIN merged.tiles = DOMAIN cell.tiles \union DeadOf(input, r)
    BY <1>1, <2>3, MergedCell
  <2>5. \A t : t \in DOMAIN cell.tiles <=> \E s \in old : CellKey(s) = key /\ t \in DeadOf(input, s)
    <3>1. CASE key \in DOMAIN cells
      BY <3>1 DEF Collected
    <3>2. CASE key \notin DOMAIN cells
      BY <3>2, EmptyCell DEF Collected
    <3> QED
      BY <3>1, <3>2
  <2>6. DOMAIN cells = {CellKey(s) : s \in old}
    BY DEF Collected
  <2>7. \A k \in DOMAIN cells :
          /\ CellOK(cells[k])
          /\ \A t : t \in DOMAIN cells[k].tiles <=>
               \E s \in old : CellKey(s) = k /\ t \in DeadOf(input, s)
    BY DEF Collected
  <2> HIDE DEF old, new, key, cell, merged
  <2>8. DOMAIN cells' = {CellKey(s) : s \in new}
    BY <2>1, <2>2, <2>6 DEF key
  <2>9. ASSUME NEW k \in DOMAIN cells'
        PROVE  /\ CellOK(cells'[k])
               /\ \A t : t \in DOMAIN cells'[k].tiles <=>
                    \E s \in new : CellKey(s) = k /\ t \in DeadOf(input, s)
    <3>1. CASE k = key
      <4>1. cells'[k] = merged
        BY <2>1, <3>1
      <4> QED
        BY <2>2, <2>4, <2>5, <3>1, <4>1 DEF key
    <3>2. CASE k # key
      <4>1. k \in DOMAIN cells /\ cells'[k] = cells[k]
        BY <2>1, <2>9, <3>2
      <4> QED
        BY <2>2, <2>7, <3>2, <4>1 DEF key
    <3> QED
      BY <3>1, <3>2
  <2> QED
    BY <1>1, <1>2, <2>8, <2>9 DEF Collected, new
<1> QED
  BY <1>3, <1>4

LEMMA CollectedAlways ==
  Spec => []Collected
<1>1. ASSUME Init PROVE Collected
  <2>1. PICK c \in Cases, D \in SUBSET Records :
          input = [digests |-> D, event |-> c.event, manifest |-> c.manifest, epoch |-> c.epoch,
                   options |-> c.options]
    BY <1>1 DEF Init
  <2>2. InputOK
    BY <2>1, PlannerAssumption DEF InputOK
  <2>3. Taken(input, unread) = {} /\ DOMAIN cells = {}
    BY <1>1 DEF Init, Taken
  <2> QED
    BY <1>1, <2>2, <2>3 DEF Init, Collected
<1>2. ASSUME Collected, [Next]_vars PROVE Collected'
  <2>1. CASE \E r \in Records : Collect(r)
    BY <1>2, <2>1, CollectingOne
  <2>2. CASE Check \/ Expand \/ Cut \/ UNCHANGED vars
    <3>1. UNCHANGED <<input, unread, cells>>
      BY <2>2 DEF Check, Expand, Cut, vars
    <3> QED
      BY <1>2, <3>1 DEF Collected, InputOK
  <2> QED
    BY <1>2, <2>1, <2>2 DEF Next
<1> QED
  BY <1>1, <1>2, PTL DEF Spec

-----------------------------------------------------------------------------
(* What is gathered in a cell, which is the same in whatever order its     *)
(* records come: each tile's requests, each at the weight of its age, the  *)
(* freshest record's times, and no less than what any record observed.     *)

\* Age and Weight, of an input.
AgeOf(inp, window) ==
  IF Unreadable \in {window, inp.event.occurred.day} THEN 0
  ELSE Max({0, inp.event.occurred.day - window})

WeightOf(inp, r) ==
  IF inp.options.halfLife = 0 THEN 2 ^ Horizon ELSE 2 ^ (Horizon - AgeOf(inp, r.window))

AskedOf(inp, t) == [r \in Records |-> r.top[t] * WeightOf(inp, r)]

Freshest(r, R) == r \in R /\ \A s \in R : DayOf(s.window) <= DayOf(r.window)

\* What records name beyond what they count of their cells.
ExcessOf(inp) == [r \in Records |-> OverAsked(r) * WeightOf(inp, r)]

Unseen == [r \in Records |-> OverNamed(r)]

\* A cell, once the records R of it are merged.
GatheredTiles(inp, c, R) ==
  /\ \A t : t \in DOMAIN c.tiles <=> \E r \in R : t \in DeadOf(inp, r)
  /\ \A t \in DOMAIN c.tiles : c.tiles[t] = Sum(AskedOf(inp, t), {r \in R : t \in DeadOf(inp, r)})

GatheredTimes(c, R) ==
  IF R = {} THEN c.newest = 0
  ELSE \E r \in R : Freshest(r, R) /\ c.newest = DayOf(r.window) /\ c.gen = r.p50

GatheredDemand(inp, c, R) ==
  /\ IsFiniteSet(DOMAIN c.tiles)
  /\ \A r \in R : r.observed <= c.observed
  /\ Sum(c.tiles, DOMAIN c.tiles) <= c.freq + Sum(ExcessOf(inp), R)

GatheredCell(inp, c, R) ==
  GatheredTiles(inp, c, R) /\ GatheredTimes(c, R) /\ GatheredDemand(inp, c, R)

OfCell(inp, un, k) == {r \in Taken(inp, un) : CellKey(r) = k}

Gathered == \A k \in DOMAIN cells : GatheredCell(input, cells[k], OfCell(input, unread, k))

LEMMA DaysAreDays ==
  ASSUME NEW r \in Records
  PROVE  DayOf(r.window) \in 0..Horizon
BY PlannerAssumption DEF IsRecord, DayOf, Read

LEMMA TermsAreNaturals ==
  ASSUME InputOK, NEW r \in Records, NEW t \in DeadOf(input, r)
  PROVE  AskedOf(input, t)[r] = r.top[t] * Weight(r) /\ AskedOf(input, t)[r] \in Nat
<1>1. r.top[t] \in Nat
  BY PlannerAssumption DEF IsRecord, DeadOf
<1>2. Weight(r) \in Nat
  BY WeightIsNatural
<1>3. Weight(r) = WeightOf(input, r)
  BY DEF Weight, WeightOf, Age, AgeOf
<1> QED
  BY <1>1, <1>2, <1>3 DEF AskedOf

LEMMA TopsAreFinite ==
  ASSUME NEW r \in Records
  PROVE  IsFiniteSet(DOMAIN r.top)
<1> DEFINE D == DOMAIN r.top
           f == [t \in D |-> [kind |-> r.kind, qk |-> t[1], id |-> t[2]]]
<1>1. D \subseteq Seq(0..3) \X Nat
  BY PlannerAssumption DEF IsRecord
<1>2. f \in [D -> Tiles]
  BY DEF Tiles
<1>3. ASSUME NEW t \in D, NEW u \in D, f[t] = f[u] PROVE t = u
  <2>1. f[t].qk = t[1] /\ f[t].id = t[2] /\ f[u].qk = u[1] /\ f[u].id = u[2]
    OBVIOUS
  <2>2. t = <<t[1], t[2]>> /\ u = <<u[1], u[2]>>
    BY <1>1
  <2> HIDE DEF f
  <2> QED
    BY <1>3, <2>1, <2>2
<1> HIDE DEF D, f
<1>4. f \in Injection(D, Tiles)
  BY <1>2, <1>3 DEF Injection, IsInjective
<1>5. IsFiniteSet(Tiles)
  BY PlannerAssumption
<1> QED
  BY <1>4, <1>5, FS_Injection DEF D

\* A record names no more than it counts of its cell, but for what is too much.
LEMMA RecordNames ==
  ASSUME NEW r \in Records
  PROVE  /\ Sum(r.top, DOMAIN r.top) \in Nat /\ OverAsked(r) \in Nat
         /\ Sum(r.top, DOMAIN r.top) <= r.req + OverAsked(r)
         /\ Cardinality(DOMAIN r.top) \in Nat /\ OverNamed(r) \in Nat
         /\ Cardinality(DOMAIN r.top) <= r.observed + OverNamed(r)
<1> DEFINE asked == Sum(r.top, DOMAIN r.top)
           named == Cardinality(DOMAIN r.top)
           x == asked - r.req
           y == named - r.observed
           z == 0
<1>1. r.req \in Nat /\ r.observed \in Nat /\ \A t \in DOMAIN r.top : r.top[t] \in Nat
  BY PlannerAssumption DEF IsRecord
<1>2. asked \in Nat /\ named \in Nat
  BY <1>1, TopsAreFinite, SumOfNaturals, FS_CardinalityType
<1>3. OverAsked(r) = Max({z, x}) /\ OverNamed(r) = Max({z, y})
  BY DEF OverAsked, OverNamed, Sum
<1>4. x \in Int /\ y \in Int /\ z \in Int
  BY <1>1, <1>2
<1> HIDE DEF asked, named
<1>5. ASSUME NEW a \in Int PROVE Max({0, a}) \in Nat /\ Max({0, a}) >= a
  BY <1>5, MaxOfTwo
<1>6. OverAsked(r) \in Nat /\ OverAsked(r) >= x
  <2> HIDE DEF x
  <2> QED
    BY <1>3, <1>4, <1>5
<1>7. OverNamed(r) \in Nat /\ OverNamed(r) >= y
  <2> HIDE DEF y
  <2> QED
    BY <1>3, <1>4, <1>5
<1>8. asked <= r.req + OverAsked(r) /\ named <= r.observed + OverNamed(r)
  BY <1>1, <1>2, <1>6, <1>7
<1> QED
  BY <1>2, <1>6, <1>7, <1>8 DEF asked, named

LEMMA ExcessIsNatural ==
  ASSUME InputOK, NEW r \in Records
  PROVE  ExcessOf(input)[r] = OverAsked(r) * Weight(r) /\ ExcessOf(input)[r] \in Nat
<1>1. OverAsked(r) \in Nat /\ Weight(r) \in Nat
  BY RecordNames, WeightIsNatural
<1>2. Weight(r) = WeightOf(input, r)
  BY DEF Weight, WeightOf, Age, AgeOf
<1> QED
  BY <1>1, <1>2 DEF ExcessOf

LEMMA MergedTiles ==
  ASSUME InputOK, NEW r \in Records, NEW c, CellOK(c), NEW R, R \subseteq Records, r \notin R,
         GatheredTiles(input, c, R)
  PROVE  GatheredTiles(input, Merged(c, r), R \union {r})
<1> DEFINE m == Merged(c, r)
           dead == DeadOf(input, r)
           Q == R \union {r}
           With(S, t) == {q \in S : t \in DeadOf(input, q)}
<1>1. /\ m.tiles = [t \in DOMAIN c.tiles \union dead |->
                     At(c.tiles, t) + IF t \in dead THEN r.top[t] * Weight(r) ELSE 0]
      /\ DOMAIN m.tiles = DOMAIN c.tiles \union dead
  BY MergedCell
<1> HIDE DEF m
<1>2. \A t : t \in DOMAIN c.tiles <=> With(R, t) # {}
  BY DEF GatheredTiles
<1>3. ASSUME NEW t \in DOMAIN m.tiles
      PROVE  m.tiles[t] = Sum(AskedOf(input, t), With(Q, t))
  <2> DEFINE f == AskedOf(input, t)
             old == With(R, t)
  <2>1. IsFiniteSet(old)
    <3>1. old \subseteq Records /\ IsFiniteSet(Records)
      BY PlannerAssumption
    <3> HIDE DEF old
    <3> QED
      BY <3>1, FS_Subset
  <2>2. \A q \in old : f[q] \in Int
    BY TermsAreNaturals
  <2>3. At(c.tiles, t) = Sum(f, old)
    <3>1. CASE t \in DOMAIN c.tiles
      BY <3>1 DEF At, GatheredTiles
    <3>2. CASE t \notin DOMAIN c.tiles
      <4>1. old = {}
        BY <1>2, <3>2
      <4> HIDE DEF old, f
      <4> QED
        BY <3>2, <4>1, SumOfNone DEF At
    <3> QED
      BY <3>1, <3>2
  <2>4. CASE t \in dead
    <3>1. With(Q, t) = old \union {r} /\ r \notin old
      BY <2>4
    <3>2. f[r] = r.top[t] * Weight(r) /\ f[r] \in Int
      BY <2>4, TermsAreNaturals
    <3> HIDE DEF old, f, With
    <3>3. Sum(f, old \union {r}) = f[r] + Sum(f, old) /\ Sum(f, old) \in Int
      BY <2>1, <2>2, <3>1, <3>2, SumAdds, SumIsInt
    <3>4. m.tiles[t] = At(c.tiles, t) + r.top[t] * Weight(r)
      BY <1>1, <1>3, <2>4
    <3>5. m.tiles[t] = Sum(f, old) + f[r]
      BY <2>3, <3>2, <3>4
    <3>6. Sum(f, With(Q, t)) = Sum(f, old \union {r})
      BY <3>1, Zenon
    <3>7. Sum(f, old) + f[r] = f[r] + Sum(f, old)
      BY <3>2, <3>3
    <3> QED
      BY <3>3, <3>5, <3>6, <3>7, Zenon DEF f
  <2>5. CASE t \notin dead
    <3>1. With(Q, t) = old
      BY <2>5
    <3> HIDE DEF old, f, With
    <3>2. Sum(f, old) \in Int
      BY <2>1, <2>2, SumIsInt
    <3>3. m.tiles[t] = At(c.tiles, t) + 0
      BY <1>1, <1>3, <2>5
    <3> QED
      BY <2>3, <3>1, <3>2, <3>3 DEF f
  <2> QED
    BY <2>4, <2>5
<1>4. \A t : t \in DOMAIN m.tiles <=> \E q \in Q : t \in DeadOf(input, q)
  BY <1>1, <1>2
<1> QED
  BY <1>3, <1>4 DEF GatheredTiles, m

LEMMA MergedTimes ==
  ASSUME InputOK, NEW r \in Records, NEW c, CellOK(c), NEW R, R \subseteq Records, GatheredTimes(c, R)
  PROVE  GatheredTimes(Merged(c, r), R \union {r})
<1> DEFINE m == Merged(c, r)
           Q == R \union {r}
<1>1. /\ Fresh(r, c) => m.newest = DayOf(r.window) /\ m.gen = r.p50
      /\ ~Fresh(r, c) => m.newest = c.newest /\ m.gen = c.gen
  BY MergedCell
<1>2. \A q \in Q : DayOf(q.window) \in 0..Horizon
  BY DaysAreDays
<1>3. Fresh(r, c) <=> DayOf(r.window) >= c.newest
  BY DEF Fresh
<1>4. Horizon \in Nat
  BY PlannerAssumption
<1>5. Q # {} /\ r \in Q
  OBVIOUS
<1> HIDE DEF m
<1>6. CASE R = {}
  <2>1. DayOf(r.window) >= c.newest /\ Q = {r}
    BY <1>2, <1>4, <1>6 DEF GatheredTimes
  <2>2. Freshest(r, Q)
    BY <1>2, <1>4, <2>1 DEF Freshest
  <2> QED
    BY <1>1, <1>3, <1>5, <2>1, <2>2 DEF GatheredTimes, m
<1>7. CASE R # {}
  <2>1. PICK q \in R : Freshest(q, R) /\ c.newest = DayOf(q.window) /\ c.gen = q.p50
    BY <1>7 DEF GatheredTimes
  <2>2. CASE Fresh(r, c)
    <3>1. Freshest(r, Q)
      BY <1>2, <1>3, <1>4, <2>1, <2>2 DEF Freshest
    <3> QED
      BY <1>1, <1>5, <2>2, <3>1 DEF GatheredTimes, m
  <2>3. CASE ~Fresh(r, c)
    <3>1. Freshest(q, Q)
      BY <1>2, <1>3, <1>4, <2>1, <2>3 DEF Freshest
    <3> QED
      BY <1>1, <1>5, <2>1, <2>3, <3>1 DEF GatheredTimes, m
  <2> QED
    BY <2>2, <2>3
<1> QED
  BY <1>6, <1>7

LEMMA MergedDemand ==
  ASSUME InputOK, NEW r \in Records, NEW c, CellOK(c), NEW R, R \subseteq Records, r \notin R,
         GatheredDemand(input, c, R)
  PROVE  GatheredDemand(input, Merged(c, r), R \union {r})
<1> DEFINE m == Merged(c, r)
           dead == DeadOf(input, r)
           T == DOMAIN c.tiles
           D == T \union dead
           w == Weight(r)
           all == DOMAIN r.top
<1>1. /\ CellOK(m)
      /\ m.tiles = [t \in D |-> At(c.tiles, t) + IF t \in dead THEN r.top[t] * w ELSE 0]
      /\ m.freq = c.freq + r.req * w /\ m.observed = Max({c.observed, r.observed})
  BY MergedCell
<1>2. w \in Nat \ {0}
  BY WeightIsNatural
<1>3. dead \subseteq all /\ IsFiniteSet(all)
  BY TopsAreFinite DEF DeadOf
<1>4. (\A t \in all : r.top[t] \in Nat) /\ r.req \in Nat /\ r.observed \in Nat
  BY PlannerAssumption DEF IsRecord
<1>5. (\A t \in T : c.tiles[t] \in Nat) /\ c.freq \in Nat /\ c.observed \in Nat
  BY DEF CellOK
<1> HIDE DEF m, dead, w, all
<1>6. IsFiniteSet(T)
  BY DEF GatheredDemand
<1>7. IsFiniteSet(dead)
  BY <1>3, FS_Subset
<1> HIDE DEF T
<1>8. IsFiniteSet(D)
  BY <1>6, <1>7, FS_Union
<1>9. DOMAIN m.tiles = D
  BY <1>1
<1>10. ASSUME NEW q \in R \union {r} PROVE q.observed <= m.observed
  <2>1. m.observed >= c.observed /\ m.observed >= r.observed /\ m.observed \in {c.observed, r.observed}
    <3> DEFINE a == c.observed
               b == r.observed
    <3>1. a \in Int /\ b \in Int /\ m.observed = Max({a, b})
      BY <1>1, <1>4, <1>5
    <3> HIDE DEF a, b
    <3>2. Max({a, b}) \in {a, b} /\ Max({a, b}) >= a /\ Max({a, b}) >= b
      BY <3>1, MaxOfTwo
    <3> QED
      BY <3>1, <3>2 DEF a, b
  <2>2. CASE q \in R
    <3>1. q.observed <= c.observed /\ q.observed \in Nat
      BY <2>2, PlannerAssumption DEF GatheredDemand, IsRecord
    <3> QED
      BY <1>4, <1>5, <2>1, <3>1
  <2>3. CASE q = r
    BY <1>4, <1>5, <2>1, <2>3
  <2> QED
    BY <2>2, <2>3
<1>11. Sum(m.tiles, D) <= m.freq + Sum(ExcessOf(input), R \union {r})
  <2> DEFINE g == [t \in D |-> At(c.tiles, t)]
             h == [t \in D |-> IF t \in dead THEN r.top[t] * w ELSE 0]
             e == [t \in dead |-> r.top[t] * w]
             E == ExcessOf(input)
             over == OverAsked(r)
  <2>1. Sum(c.tiles, T) <= c.freq + Sum(E, R)
    BY DEF GatheredDemand, T
  <2>2. /\ Sum(r.top, all) \in Nat /\ over \in Nat
        /\ Sum(r.top, all) <= r.req + over
    BY RecordNames DEF all
  <2>3. \A t \in T : g[t] = c.tiles[t] /\ g[t] \in Nat
    BY <1>5 DEF At, T
  <2>4. \A t \in D \ T : g[t] = 0
    BY DEF At, T
  <2>5. \A t \in dead : e[t] = r.top[t] * w /\ e[t] \in Nat /\ h[t] = e[t]
    <3>1. TAKE t \in dead
    <3>2. r.top[t] \in Nat
      BY <1>3, <1>4
    <3>3. r.top[t] * w \in Nat
      BY <1>2, <3>2
    <3> QED
      BY <3>3
  <2>6. \A t \in D \ dead : h[t] = 0
    OBVIOUS
  <2>7. \A t \in D : m.tiles[t] = g[t] + h[t]
    BY <1>1
  <2>8. E[r] = over * w /\ \A q \in R \union {r} : E[q] \in Nat
    BY ExcessIsNatural DEF w
  <2> HIDE DEF g, h, e, E, over
  <2>9. Sum(g, D) = Sum(c.tiles, T)
    BY <1>5, <1>8, <2>3, <2>4, SumWidened, T \in SUBSET D
  <2>10. Sum(h, D) = Sum(e, dead)
    BY <1>8, <2>5, <2>6, SumWidened, dead \in SUBSET D
  <2>11. Sum(e, dead) = Sum(r.top, dead) * w
    <3>1. \A t \in dead : r.top[t] \in Int /\ e[t] = r.top[t] * w
      BY <1>3, <1>4, <2>5
    <3> QED
      BY <1>2, <1>7, <3>1, SumScaled
  <2>12. Sum(r.top, dead) \in Nat /\ Sum(r.top, dead) <= Sum(r.top, all)
    BY <1>3, <1>4, SumOfNaturals, dead \in SUBSET all
  <2>13. Sum(r.top, dead) * w <= r.req * w + over * w
    <3>1. Sum(r.top, dead) <= r.req + over
      BY <1>4, <2>2, <2>12
    <3>2. Sum(r.top, dead) * w <= (r.req + over) * w
      BY <1>2, <1>4, <2>2, <2>12, <3>1, MulMonotone
    <3>3. (r.req + over) * w = r.req * w + over * w
      BY <1>2, <1>4, <2>2
    <3> QED
      BY <3>2, <3>3
  <2>14. \A t \in D : g[t] \in Int /\ h[t] \in Int /\ m.tiles[t] = g[t] + h[t]
    <3>1. TAKE t \in D
    <3>2. g[t] \in Nat /\ h[t] \in Nat
      BY <2>3, <2>4, <2>5, <2>6
    <3> QED
      BY <2>7, <3>2
  <2>15. Sum(m.tiles, D) = Sum(g, D) + Sum(h, D)
    <3> HIDE DEF D
    <3> QED
      BY <1>8, <2>14, SumOfBoth
  <2>16. Sum(c.tiles, T) \in Int
    BY <1>5, <1>6, SumIsInt
  <2>17. r.req * w \in Int /\ over * w \in Int /\ Sum(r.top, dead) * w \in Int
    BY <1>2, <1>4, <2>2, <2>12
  <2>18. Sum(E, R \union {r}) = E[r] + Sum(E, R) /\ Sum(E, R) \in Int
    <3>1. IsFiniteSet(R)
      BY FS_Subset, PlannerAssumption
    <3>2. E[r] \in Int /\ \A q \in R : E[q] \in Int
      BY <2>8
    <3> QED
      BY <3>1, <3>2, SumAdds, SumIsInt
  <2>19. Sum(m.tiles, D) <= (c.freq + r.req * w) + Sum(E, R \union {r})
    BY ONLY <1>5, <2>1, <2>8, <2>9, <2>10, <2>11, <2>13, <2>15, <2>16, <2>17, <2>18
  <2> QED
    BY <1>1, <2>19 DEF E
<1> QED
  BY <1>8, <1>9, <1>10, <1>11 DEF GatheredDemand, m

LEMMA NothingGathered ==
  GatheredCell(input, Empty, {})
<1>1. DOMAIN Empty.tiles = {} /\ Empty.newest = 0 /\ Empty.freq = 0
  BY EmptyCell DEF Empty
<1>2. Sum(Empty.tiles, {}) = 0 /\ Sum(ExcessOf(input), {}) = 0 /\ IsFiniteSet({})
  BY SumOfNone, FS_EmptySet
<1>3. GatheredTiles(input, Empty, {}) /\ GatheredTimes(Empty, {})
  BY <1>1 DEF GatheredTiles, GatheredTimes
<1>4. GatheredDemand(input, Empty, {})
  BY <1>1, <1>2 DEF GatheredDemand
<1> QED
  BY <1>3, <1>4 DEF GatheredCell

LEMMA GatheringOne ==
  ASSUME Collected, Gathered, NEW r \in Records, Collect(r)
  PROVE  Gathered'
<1> DEFINE key == CellKey(r)
           cell == IF key \in DOMAIN cells THEN cells[key] ELSE Empty
           merged == Merged(cell, r)
           Old(k) == OfCell(input, unread, k)
           New(k) == OfCell(input, unread', k)
<1>1. /\ InputOK /\ input' = input /\ unread' = unread \ {r} /\ r \in unread
      /\ unread \subseteq input.digests
  BY DEF Collected, Collect
<1>2. CASE ~Wanted(input, r)
  <2>1. cells' = cells
    BY <1>2 DEF Collect, Wanted
  <2>2. Taken(input, unread') = Taken(input, unread)
    BY <1>1, <1>2 DEF Taken
  <2> QED
    BY <1>1, <2>1, <2>2 DEF Gathered, OfCell
<1>3. CASE Wanted(input, r)
  <2>1. cells' = [k \in DOMAIN cells \union {key} |-> IF k = key THEN merged ELSE cells[k]]
    BY <1>3 DEF Collect, Wanted
  <2>2. Taken(input, unread') = Taken(input, unread) \union {r} /\ r \notin Taken(input, unread)
    BY <1>1, <1>3 DEF Taken
  <2>3. \A k : k # key => New(k) = Old(k)
    BY <2>2 DEF OfCell
  <2>4. New(key) = Old(key) \union {r} /\ r \notin Old(key) /\ Old(key) \subseteq Records
    BY <1>1, <2>2 DEF OfCell, Taken, InputOK
  <2>5. CellOK(cell) /\ GatheredCell(input, cell, Old(key))
    <3>1. CASE key \in DOMAIN cells
      BY <3>1 DEF Gathered, Collected
    <3>2. CASE key \notin DOMAIN cells
      <4>1. Old(key) = {}
        BY <3>2 DEF Collected, OfCell
      <4> QED
        BY <3>2, <4>1, EmptyCell, NothingGathered
    <3> QED
      BY <3>1, <3>2
  <2>6. GatheredCell(input, merged, New(key))
    <3> HIDE DEF cell, Old, New
    <3>1. GatheredTiles(input, merged, New(key))
      BY <1>1, <2>4, <2>5, MergedTiles DEF GatheredCell
    <3>2. GatheredTimes(merged, New(key))
      BY <1>1, <2>4, <2>5, MergedTimes DEF GatheredCell
    <3>3. GatheredDemand(input, merged, New(key))
      BY <1>1, <2>4, <2>5, MergedDemand DEF GatheredCell
    <3> QED
      BY <3>1, <3>2, <3>3 DEF GatheredCell
  <2>7. \A k \in DOMAIN cells : GatheredCell(input, cells[k], Old(k))
    BY DEF Gathered
  <2> HIDE DEF merged, cell, Old, New
  <2>8. ASSUME NEW k \in DOMAIN cells' PROVE GatheredCell(input, cells'[k], New(k))
    <3>1. CASE k = key
      BY <2>1, <2>6, <3>1
    <3>2. CASE k # key
      <4>1. k \in DOMAIN cells /\ cells'[k] = cells[k] /\ New(k) = Old(k)
        BY <2>1, <2>3, <2>8, <3>2
      <4> QED
        BY <2>7, <4>1
    <3> QED
      BY <3>1, <3>2
  <2> QED
    BY <1>1, <2>8 DEF Gathered, New
<1> QED
  BY <1>2, <1>3

LEMMA GatheredAlways ==
  Spec => []Gathered
<1>1. ASSUME Init PROVE Gathered
  BY <1>1 DEF Init, Gathered
<1>2. ASSUME Collected, Gathered, [Next]_vars PROVE Gathered'
  <2>1. CASE \E r \in Records : Collect(r)
    BY <1>2, <2>1, GatheringOne
  <2>2. CASE Check \/ Expand \/ Cut \/ UNCHANGED vars
    <3>1. UNCHANGED <<input, unread, cells>>
      BY <2>2 DEF Check, Expand, Cut, vars
    <3> QED
      BY <1>2, <3>1 DEF Gathered
  <2> QED
    BY <1>2, <2>1, <2>2 DEF Next
<1> QED
  BY <1>1, <1>2, CollectedAlways, PTL DEF Spec

LEMMA FewCells ==
  ASSUME Collected
  PROVE  IsFiniteSet(DOMAIN cells)
<1> DEFINE T == Taken(input, unread)
           K == DOMAIN cells
           f == [r \in T |-> CellKey(r)]
<1>1. T \subseteq Records /\ K = {CellKey(r) : r \in T}
  BY DEF Collected, InputOK, Taken
<1>2. f \in Surjection(T, K)
  BY <1>1 DEF Surjection
<1> HIDE DEF T, K, f
<1>3. IsFiniteSet(T)
  BY <1>1, FS_Subset, PlannerAssumption
<1> QED
  BY <1>2, <1>3, FS_Surjection DEF K

-----------------------------------------------------------------------------
(* What died, and where it is in the cells.                                *)

\* Dead, of an input.
DeadIn(inp) ==
  {t \in Tiles :
     /\ CoversTile(inp.event.scope, t.kind, <<t.qk, t.id>>)
     /\ \E r \in inp.digests :
          r.tileset = inp.event.tileset /\ r.kind = t.kind /\ <<t.qk, t.id>> \in DOMAIN r.top}

\* Two prefixes of one text are prefixes of one another.
LEMMA PrefixesOfOne ==
  ASSUME NEW p \in Seq(0..3), NEW q \in Seq(0..3), NEW t \in Seq(0..3),
         IsPrefix(p, t), IsPrefix(q, t)
  PROVE  IsPrefix(p, q) \/ IsPrefix(q, p)
<1>1. Len(p) \in Nat /\ Len(q) \in Nat
  OBVIOUS
<1>2. CASE Len(p) <= Len(q)
  BY <1>1, <1>2, PrefixByDigits
<1>3. CASE Len(q) <= Len(p)
  BY <1>1, <1>3, PrefixByDigits
<1> QED
  BY <1>1, <1>2, <1>3

\* No cell is passed over that has a tile that died.
LEMMA DeadIsWanted ==
  ASSUME InputOK, NEW r \in Records, r.tileset = input.event.tileset,
         NEW t \in DeadOf(input, r)
  PROVE  Wanted(input, r)
<1> DEFINE scope == input.event.scope
<1>1. SUFFICES ASSUME Placed(r.kind), scope.type = "qk_prefixes"
               PROVE  \E p \in scope.prefixes : IsPrefix(p, r.cell) \/ IsPrefix(r.cell, p)
  BY DEF Wanted, TouchesCell
<1>2. r.cell \in Seq(0..3) /\ t \in Seq(0..3) \X Nat /\ IsPrefix(r.cell, t[1])
  BY <1>1, PlannerAssumption DEF IsRecord, DeadOf
<1>3. scope.prefixes \subseteq Seq(0..3)
  BY <1>1 DEF InputOK, IsEvent, IsScope
<1>4. PICK p \in scope.prefixes : IsPrefix(p, t[1])
  BY <1>1 DEF DeadOf, CoversTile
<1> QED
  BY <1>2, <1>3, <1>4, PrefixesOfOne

\* Where a tile is in the cells: <<cell, tile>>.
PairsIn(keys) == UNION {{k} \X DOMAIN cells[k].tiles : k \in keys}

TileAt(p) == [kind |-> p[1][1], qk |-> p[2][1], id |-> p[2][2]]

IsPair(p) ==
  /\ p = <<p[1], p[2]>> /\ p[1] \in DOMAIN cells /\ p[2] \in DOMAIN cells[p[1]].tiles
  /\ p[1] = <<p[1][1], p[1][2]>> /\ p[2] = <<p[2][1], p[2][2]>>
  /\ p[1][1] \in Kinds /\ p[2][1] \in Seq(0..3) /\ p[2][2] \in Nat

LEMMA PairsArePairs ==
  ASSUME Collected
  PROVE  \A p \in PairsIn(DOMAIN cells) :
           /\ IsPair(p) /\ TileAt(p) \in DeadIn(input)
           /\ \E r \in input.digests : /\ r.tileset = input.event.tileset
                                       /\ CellKey(r) = p[1] /\ p[2] \in DOMAIN r.top
<1>1. SUFFICES ASSUME NEW k \in DOMAIN cells, NEW t \in DOMAIN cells[k].tiles, NEW p, p = <<k, t>>
               PROVE  /\ IsPair(p) /\ TileAt(p) \in DeadIn(input)
                      /\ \E r \in input.digests : /\ r.tileset = input.event.tileset
                                                  /\ CellKey(r) = p[1] /\ p[2] \in DOMAIN r.top
  BY DEF PairsIn
<1>2. PICK r \in Taken(input, unread) : CellKey(r) = k /\ t \in DeadOf(input, r)
  BY DEF Collected
<1>3. /\ r \in input.digests /\ r \in Records /\ r.tileset = input.event.tileset
      /\ t \in DOMAIN r.top /\ CoversTile(input.event.scope, r.kind, t)
  BY <1>2 DEF Collected, InputOK, Taken, Wanted, DeadOf
<1>4. t \in Seq(0..3) \X Nat /\ r.kind \in Kinds /\ k = <<r.kind, r.cell>>
  BY <1>2, <1>3, PlannerAssumption DEF IsRecord, CellKey
<1>5. p[1] = k /\ p[2] = t /\ k[1] = r.kind /\ k[2] = r.cell /\ t = <<t[1], t[2]>>
  BY <1>1, <1>4
<1>6. IsPair(p)
  BY <1>1, <1>4, <1>5 DEF IsPair
<1>7. TileAt(p) \in Tiles
  <2>1. TileAt(p) = [kind |-> r.kind, qk |-> t[1], id |-> t[2]]
    BY <1>5 DEF TileAt
  <2> QED
    BY <1>3, <2>1 DEF Tiles
<1>8. TileAt(p) \in DeadIn(input)
  BY <1>3, <1>5, <1>7 DEF DeadIn, TileAt
<1> QED
  BY <1>2, <1>3, <1>5, <1>6, <1>8

\* One tile has one place.
LEMMA OnePlace ==
  ASSUME Collected, NEW p \in PairsIn(DOMAIN cells), NEW q \in PairsIn(DOMAIN cells),
         p[1][1] = q[1][1], p[2][2] = q[2][2]
  PROVE  p = q
<1>1. /\ IsPair(p) /\ IsPair(q)
      /\ TileAt(p) \in Tiles /\ TileAt(q) \in Tiles
  BY PairsArePairs DEF DeadIn
<1>2. PICK r \in input.digests : r.tileset = input.event.tileset /\ CellKey(r) = p[1] /\ p[2] \in DOMAIN r.top
  BY PairsArePairs
<1>3. PICK s \in input.digests : s.tileset = input.event.tileset /\ CellKey(s) = q[1] /\ q[2] \in DOMAIN s.top
  BY PairsArePairs
<1>4. r \in Records /\ s \in Records
  BY DEF Collected, InputOK
<1>5. TileAt(p).kind = TileAt(q).kind /\ TileAt(p).id = TileAt(q).id
  BY DEF TileAt
<1>6. TileAt(p) = TileAt(q)
  BY <1>1, <1>5, PlannerAssumption
<1>7. p[2] = q[2]
  BY <1>1, <1>6 DEF TileAt, IsPair
<1>8. r.kind = s.kind /\ DOMAIN r.top \intersect DOMAIN s.top # {}
  BY <1>2, <1>3, <1>7 DEF CellKey
<1>9. r.cell = s.cell
  BY <1>2, <1>3, <1>4, <1>8, PlannerAssumption
<1>10. p[1] = q[1]
  BY <1>2, <1>3, <1>8, <1>9 DEF CellKey
<1> QED
  BY <1>1, <1>7, <1>10 DEF IsPair

\* Once every record is read, the places of the cells are as many as what died.
LEMMA PlacesOfTheDead ==
  ASSUME Collected, unread = {}
  PROVE  /\ IsFiniteSet(PairsIn(DOMAIN cells))
         /\ Cardinality(PairsIn(DOMAIN cells)) = Cardinality(DeadIn(input))
<1> DEFINE P == PairsIn(DOMAIN cells)
           D == DeadIn(input)
           f == [p \in P |-> TileAt(p)]
<1>1. IsFiniteSet(D)
  <2>1. D \subseteq Tiles /\ IsFiniteSet(Tiles)
    BY PlannerAssumption DEF DeadIn
  <2> HIDE DEF D
  <2> QED
    BY <2>1, FS_Subset
<1>2. f \in [P -> D]
  BY PairsArePairs
<1>3. \A p, q \in P : f[p] = f[q] => p = q
  <2>1. SUFFICES ASSUME NEW p \in P, NEW q \in P, TileAt(p) = TileAt(q) PROVE p = q
    OBVIOUS
  <2>2. p[1][1] = q[1][1] /\ p[2][2] = q[2][2]
    BY <2>1 DEF TileAt
  <2> QED
    BY <2>2, OnePlace
<1>4. \A d \in D : \E p \in P : f[p] = d
  <2>1. SUFFICES ASSUME NEW d \in D PROVE \E p \in P : TileAt(p) = d
    OBVIOUS
  <2> DEFINE t == <<d.qk, d.id>>
  <2>2. PICK r \in input.digests : /\ r.tileset = input.event.tileset /\ r.kind = d.kind
                                   /\ t \in DOMAIN r.top
    BY <2>1 DEF DeadIn
  <2>3. t \in DeadOf(input, r)
    BY <2>1, <2>2 DEF DeadIn, DeadOf
  <2>4. r \in Records /\ InputOK
    BY DEF Collected, InputOK
  <2>5. r \in Taken(input, unread)
    BY <2>2, <2>3, <2>4, DeadIsWanted DEF Taken
  <2>6. CellKey(r) \in DOMAIN cells
    BY <2>5 DEF Collected
  <2>7. t \in DOMAIN cells[CellKey(r)].tiles
    BY <2>3, <2>5, <2>6 DEF Collected
  <2>8. <<CellKey(r), t>> \in P
    BY <2>6, <2>7 DEF PairsIn
  <2>9. d = [kind |-> d.kind, qk |-> d.qk, id |-> d.id]
    BY <2>1 DEF DeadIn, Tiles
  <2>10. TileAt(<<CellKey(r), t>>) = d
    BY <2>2, <2>9 DEF TileAt, CellKey
  <2> QED
    BY <2>8, <2>10
<1> HIDE DEF P, D, f
<1>5. f \in Bijection(P, D) /\ f \in Injection(P, D) /\ f \in Surjection(P, D)
  BY <1>2, <1>3, <1>4 DEF Bijection, Injection, IsInjective, Surjection
<1>6. IsFiniteSet(P) /\ Cardinality(P) = Cardinality(D)
  BY <1>1, <1>5, FS_Injection
<1> QED
  BY <1>6 DEF P, D

-----------------------------------------------------------------------------
(* What expand makes of the cells.                                         *)

Fast == {k \in DOMAIN cells : BelowFloor(cells[k].gen)}

Slow == {k \in DOMAIN cells \ Fast : DOMAIN cells[k].tiles # {}}

Skipped == {k \in Slow : NotWarmable(k[1])}

Warm == Slow \ Skipped

\* The state expand succeeds in.
CanExpand ==
  /\ Collected /\ unread = {} /\ input.manifest # None
  /\ ~EpochMissing(input.manifest, input.epoch)
  /\ \A k \in Slow : ~Unnamed(k[1])

QkOf(kind, text) == IF Placed(kind) /\ Parses(text) THEN FromStr(text) ELSE None

GenOf(cell) == MeasuredOr(cell.gen, input.manifest.cost.default_gen)

CandidateAt(p) ==
  [kind |-> p[1][1], qk |-> QkOf(p[1][1], p[2][1]), id |-> p[2][2], url |-> UrlFor(p[1][1], p[2][2]),
   req |-> cells[p[1]].tiles[p[2]], gen |-> GenOf(cells[p[1]]),
   bytes |-> MeasuredOr(cells[p[1]].bytes, input.manifest.cost.default_bytes),
   score |-> cells[p[1]].tiles[p[2]] * GenOf(cells[p[1]])]

Expanded == UNION {CandidatesOf(k) : k \in Slow}

LEMMA ExpandedArePlaces ==
  Expanded = {CandidateAt(p) : p \in PairsIn(Warm)}
<1>1. ASSUME NEW k \in Slow \ Warm PROVE CandidatesOf(k) = {}
  BY DEF Warm, Skipped, CandidatesOf
<1>2. ASSUME NEW k \in Warm
      PROVE  CandidatesOf(k) = {CandidateAt(p) : p \in {k} \X DOMAIN cells[k].tiles}
  <2>1. ~BelowFloor(cells[k].gen) /\ ~NotWarmable(k[1])
    BY DEF Warm, Skipped, Slow, Fast
  <2> DEFINE Made(t) == [kind |-> k[1], qk |-> QkOf(k[1], t[1]), id |-> t[2], url |-> UrlFor(k[1], t[2]),
                         req |-> cells[k].tiles[t], gen |-> GenOf(cells[k]),
                         bytes |-> MeasuredOr(cells[k].bytes, input.manifest.cost.default_bytes),
                         score |-> cells[k].tiles[t] * GenOf(cells[k])]
  <2>2. CandidatesOf(k) = {Made(t) : t \in DOMAIN cells[k].tiles}
    BY <2>1 DEF CandidatesOf, QkOf, GenOf
  <2>3. \A t \in DOMAIN cells[k].tiles : CandidateAt(<<k, t>>) = Made(t)
    BY DEF CandidateAt
  <2> HIDE DEF Made
  <2>4. \A p \in {k} \X DOMAIN cells[k].tiles : \E t \in DOMAIN cells[k].tiles : p = <<k, t>>
    OBVIOUS
  <2>5. \A t \in DOMAIN cells[k].tiles : <<k, t>> \in {k} \X DOMAIN cells[k].tiles
    OBVIOUS
  <2> DEFINE R == {CandidateAt(p) : p \in {k} \X DOMAIN cells[k].tiles}
             L == {Made(t) : t \in DOMAIN cells[k].tiles}
  <2>6. L \subseteq R
    BY <2>3, <2>5
  <2>7. R \subseteq L
    BY <2>3, <2>4
  <2> QED
    BY <2>2, <2>6, <2>7
<1>3. Warm \subseteq Slow
  BY DEF Warm
<1>4. Expanded = UNION {CandidatesOf(k) : k \in Warm}
  BY <1>1, <1>3 DEF Expanded
<1> QED
  <2>1. \A c : c \in Expanded <=> \E k \in Warm : c \in CandidatesOf(k)
    BY <1>4
  <2>2. \A p : p \in PairsIn(Warm) <=> \E k \in Warm : p \in {k} \X DOMAIN cells[k].tiles
    BY DEF PairsIn
  <2> QED
    BY <1>2, <2>1, <2>2

LEMMA SomePairs ==
  ASSUME NEW keys, keys \subseteq DOMAIN cells
  PROVE  \A p : p \in PairsIn(keys) <=> p \in PairsIn(DOMAIN cells) /\ p[1] \in keys
BY DEF PairsIn

LEMMA CandidateFacts ==
  ASSUME CanExpand, NEW p \in PairsIn(Warm)
  PROVE  /\ p \in PairsIn(DOMAIN cells) /\ TileAt(p) \in DeadIn(input)
         /\ IsCandidate(CandidateAt(p))
         /\ CandidateAt(p).kind = TileAt(p).kind /\ CandidateAt(p).id = TileAt(p).id
         /\ CandidateAt(p).qk = QkOf(TileAt(p).kind, TileAt(p).qk)
         /\ CandidateAt(p).url.empty = {}
<1> DEFINE k == p[1]
           t == p[2]
           c == CandidateAt(p)
<1>1. Warm \subseteq DOMAIN cells
  BY DEF Warm, Slow
<1>2. p \in PairsIn(DOMAIN cells) /\ k \in Warm
  BY <1>1, SomePairs
<1>3. IsPair(p) /\ TileAt(p) \in DeadIn(input)
  BY <1>2, PairsArePairs DEF CanExpand
<1>4. CellOK(cells[k]) /\ IsManifest(input.manifest)
  BY <1>3 DEF CanExpand, Collected, InputOK, IsPair
<1>5. cells[k].tiles[t] \in Nat
  BY <1>3, <1>4 DEF CellOK, IsPair
<1>6. GenOf(cells[k]) \in Nat
  BY <1>4 DEF GenOf, MeasuredOr, CellOK, Some, IsManifest, IsCost
<1>7. c.score \in Nat
  <2>1. c.score = cells[k].tiles[t] * GenOf(cells[k])
    BY DEF CandidateAt
  <2> QED
    BY <1>5, <1>6, <2>1
<1>8. c.qk = QkOf(k[1], t[1]) /\ (c.qk = None \/ Formed(c.qk))
  <2>1. c.qk = QkOf(k[1], t[1])
    BY DEF CandidateAt
  <2> QED
    BY <1>3, <2>1, ParsedIsFormed DEF QkOf, IsPair
<1>9. /\ c.kind = k[1] /\ c.id = t[2] /\ c.url = UrlFor(k[1], t[2])
      /\ DOMAIN c = {"kind", "qk", "id", "url", "req", "gen", "bytes", "score"}
  BY DEF CandidateAt
<1>10. c.req \in Nat /\ c.gen \in Nat /\ c.bytes \in Nat
  <2> DEFINE bytes == MeasuredOr(cells[k].bytes, input.manifest.cost.default_bytes)
  <2>1. bytes \in Nat
    BY <1>4 DEF MeasuredOr, CellOK, Some, IsManifest, IsCost
  <2>2. c.req = cells[k].tiles[t] /\ c.gen = GenOf(cells[k]) /\ c.bytes = bytes
    BY DEF CandidateAt
  <2> HIDE DEF bytes
  <2> QED
    BY <1>5, <1>6, <2>1, <2>2
<1>11. IsCandidate(c)
  BY <1>3, <1>7, <1>8, <1>9, <1>10 DEF IsCandidate, IsPair
<1>12. UrlFor(k[1], t[2]).empty = {}
  <2>1. ~NotWarmable(k[1]) /\ ~Unnamed(k[1])
    BY <1>2 DEF Warm, Skipped, CanExpand
  <2> DEFINE template == IF Placed(k[1]) THEN input.manifest.url ELSE input.manifest.meta_urls[k[1]]
  <2>2. template \in Templates(input.manifest)
    BY <2>1 DEF Templates, NotWarmable, Unnamed
  <2>3. template \subseteq input.epoch
    BY <2>2 DEF CanExpand, EpochMissing
  <2>4. template \ input.epoch = {}
    BY <2>3
  <2> HIDE DEF template
  <2>5. UrlFor(k[1], t[2]) = Fill(template, t[2])
    BY DEF UrlFor, template
  <2> QED
    BY <2>4, <2>5 DEF Fill
<1> QED
  BY <1>2, <1>3, <1>8, <1>9, <1>11, <1>12 DEF TileAt

\* As many candidates as places, each of its own document.
LEMMA ExpandedAreDistinct ==
  ASSUME CanExpand
  PROVE  /\ Distinct(Expanded)
         /\ Cardinality(Expanded) = Cardinality(PairsIn(Warm))
<1> DEFINE P == PairsIn(Warm)
           f == [p \in P |-> CandidateAt(p)]
<1>1. Expanded = {CandidateAt(p) : p \in P}
  BY ExpandedArePlaces
<1>2. IsFiniteSet(P)
  <2>1. P \subseteq PairsIn(DOMAIN cells)
    BY CandidateFacts
  <2>2. IsFiniteSet(PairsIn(DOMAIN cells))
    BY PlacesOfTheDead DEF CanExpand
  <2> HIDE DEF P
  <2> QED
    BY <2>1, <2>2, FS_Subset
<1>3. \A p, q \in P : CandidateAt(p).kind = CandidateAt(q).kind /\ CandidateAt(p).id = CandidateAt(q).id => p = q
  <2>1. SUFFICES ASSUME NEW p \in P, NEW q \in P, CandidateAt(p).kind = CandidateAt(q).kind,
                        CandidateAt(p).id = CandidateAt(q).id
                 PROVE  p = q
    OBVIOUS
  <2>2. p[1][1] = q[1][1] /\ p[2][2] = q[2][2]
    BY <2>1 DEF CandidateAt
  <2>3. p \in PairsIn(DOMAIN cells) /\ q \in PairsIn(DOMAIN cells)
    BY CandidateFacts
  <2> QED
    BY <2>2, <2>3, OnePlace DEF CanExpand
<1>4. \A p \in P : IsCandidate(CandidateAt(p))
  BY CandidateFacts
<1> HIDE DEF P
<1>5. f \in Bijection(P, Expanded)
  <2>1. f \in [P -> Expanded]
    BY <1>1
  <2>2. \A p, q \in P : f[p] = f[q] => p = q
    BY <1>3
  <2>3. \A c \in Expanded : \E p \in P : f[p] = c
    BY <1>1
  <2> HIDE DEF f
  <2> QED
    BY <2>1, <2>2, <2>3 DEF Bijection, Injection, IsInjective, Surjection
<1>6. IsFiniteSet(Expanded) /\ Cardinality(Expanded) = Cardinality(P)
  BY <1>2, <1>5, FS_Bijection DEF ExistsBijection
<1>7. \A c, d \in Expanded : c.kind = d.kind /\ c.id = d.id => c = d
  BY <1>1, <1>3
<1> QED
  BY <1>1, <1>4, <1>6, <1>7 DEF Distinct, P

-----------------------------------------------------------------------------
(* The promotion of ancestors.                                             *)

Below(C, c) == {d \in C : Ancestor(c, d)}

Raised(C, c) == Max({c.score} \union {d.score : d \in Below(C, c)})

LEMMA MaxOfFinite ==
  ASSUME NEW S, S \subseteq Int, IsFiniteSet(S), S # {}
  PROVE  Max(S) \in S /\ \A x \in S : Max(S) >= x
<1>1. \E x \in S : \A y \in S : x >= y
  <2>1. PICK x \in S : \A y \in S : y <= x
    BY GreatestInteger
  <2>2. \A y \in S : x >= y
    BY <2>1
  <2> QED
    BY <2>2
<1> QED
  BY <1>1 DEF Max

\* A promoted score is that of the candidate or of one it covers, and the highest.
LEMMA RaisedScore ==
  ASSUME NEW C, Distinct(C), NEW c \in C
  PROVE  /\ Raised(C, c) \in Nat /\ Raised(C, c) >= c.score
         /\ \A d \in Below(C, c) : Raised(C, c) >= d.score
         /\ Raised(C, c) = c.score \/ \E d \in Below(C, c) : Raised(C, c) = d.score
<1> DEFINE B == Below(C, c)
           T == {d.score : d \in B}
           f == [d \in B |-> d.score]
           S == {c.score} \union T
<1>1. \A d \in C : d.score \in Nat
  BY DEF Distinct, IsCandidate
<1>2. B \subseteq C /\ IsFiniteSet(C)
  BY DEF Below, Distinct
<1> HIDE DEF B
<1>3. IsFiniteSet(B)
  BY <1>2, FS_Subset
<1>4. f \in Surjection(B, T)
  <2>1. f \in [B -> T] /\ \A x \in T : \E d \in B : f[d] = x
    OBVIOUS
  <2> HIDE DEF f, T
  <2> QED
    BY <2>1 DEF Surjection
<1>5. \A x \in T : \E d \in B : x = d.score
  OBVIOUS
<1>6. \A d \in B : d.score \in T
  OBVIOUS
<1> HIDE DEF T, f
<1>7. IsFiniteSet(T)
  BY <1>3, <1>4, FS_Surjection
<1>8. IsFiniteSet(S)
  BY <1>7, FS_Singleton, FS_Union
<1>9. S \subseteq Int /\ S # {}
  BY <1>1, <1>2, <1>5
<1> HIDE DEF S
<1>10. Max(S) \in S /\ \A x \in S : Max(S) >= x
  BY <1>8, <1>9, MaxOfFinite
<1>11. Raised(C, c) = Max(S)
  BY DEF Raised, S, T, B
<1> QED
  BY <1>1, <1>2, <1>5, <1>6, <1>10, <1>11 DEF S, B

\* What promotion makes of a candidate: nothing but its score is changed.
Lifted(C, c) == IF input.manifest.resolution THEN [c EXCEPT !.score = Raised(C, c)] ELSE c

LEMMA LiftedFields ==
  ASSUME NEW C, Distinct(C), NEW c \in C
  PROVE  /\ IsCandidate(Lifted(C, c))
         /\ Lifted(C, c).kind = c.kind /\ Lifted(C, c).id = c.id /\ Lifted(C, c).qk = c.qk
         /\ Lifted(C, c).url = c.url /\ Lifted(C, c).req = c.req /\ Lifted(C, c).gen = c.gen
         /\ Lifted(C, c).score = IF input.manifest.resolution THEN Raised(C, c) ELSE c.score
<1>1. IsCandidate(c) /\ Raised(C, c) \in Nat
  BY RaisedScore DEF Distinct
<1>2. CASE input.manifest.resolution
  <2> DEFINE b == [c EXCEPT !.score = Raised(C, c)]
  <2>1. /\ DOMAIN b = DOMAIN c /\ b.kind = c.kind /\ b.id = c.id /\ b.qk = c.qk /\ b.url = c.url
        /\ b.req = c.req /\ b.gen = c.gen /\ b.bytes = c.bytes /\ b.score = Raised(C, c)
    BY <1>1 DEF IsCandidate
  <2>2. Lifted(C, c) = b
    BY <1>2 DEF Lifted
  <2> HIDE DEF b
  <2>3. IsCandidate(b)
    BY <1>1, <2>1 DEF IsCandidate
  <2> QED
    BY <1>2, <2>1, <2>2, <2>3
<1>3. CASE ~input.manifest.resolution
  BY <1>1, <1>3 DEF Lifted
<1> QED
  BY <1>2, <1>3

LEMMA PromotedAreLifted ==
  ASSUME NEW C, Distinct(C)
  PROVE  /\ Promoted(C) = {Lifted(C, c) : c \in C}
         /\ Distinct(Promoted(C)) /\ Cardinality(Promoted(C)) = Cardinality(C)
<1> DEFINE f == [c \in C |-> Lifted(C, c)]
           L == {Lifted(C, c) : c \in C}
<1>1. Promoted(C) = L
  <2>1. CASE input.manifest.resolution
    BY <2>1 DEF Promoted, Lifted, Raised, Below
  <2>2. CASE ~input.manifest.resolution
    BY <2>2 DEF Promoted, Lifted
  <2> QED
    BY <2>1, <2>2
<1>2. \A c, d \in C : Lifted(C, c).kind = Lifted(C, d).kind /\ Lifted(C, c).id = Lifted(C, d).id => c = d
  BY LiftedFields DEF Distinct
<1>3. \A b \in L : IsCandidate(b)
  BY LiftedFields
<1>4. \A a, b \in L : a.kind = b.kind /\ a.id = b.id => a = b
  BY <1>2
<1>5. f \in Bijection(C, L)
  <2>1. f \in [C -> L] /\ \A b \in L : \E c \in C : f[c] = b
    OBVIOUS
  <2>2. \A c, d \in C : f[c] = f[d] => c = d
    BY <1>2
  <2> HIDE DEF f, L
  <2> QED
    BY <2>1, <2>2 DEF Bijection, Injection, IsInjective, Surjection
<1> HIDE DEF L, f
<1>6. IsFiniteSet(L) /\ Cardinality(L) = Cardinality(C)
  BY <1>5, FS_Bijection DEF ExistsBijection, Distinct
<1> QED
  BY <1>1, <1>3, <1>4, <1>6 DEF Distinct, L

-----------------------------------------------------------------------------
(* The order found.                                                        *)

\* No tile at the root stands beside one as deep as a quadkey goes, which a shift
\* by the whole word would have to compare (quadkey.rs:87).
NoFullShift ==
  \A t, u \in Tiles : Placed(t.kind) /\ Placed(u.kind) => ~(t.qk = <<>> /\ Len(u.qk) = MaxLevel)

OfTile(c, t) == c.kind = t.kind /\ c.id = t.id /\ c.qk = QkOf(t.kind, t.qk)

\* What is said of an order f.order for an input: it sorts candidates of what died,
\* each once, with no placeholder left empty, and no tile is missing from it that is
\* not counted; and, where zoom means resolution, an ancestor scores no less.
GoodOrder(inp, f, C) ==
  /\ Distinct(C) /\ f.order = Sorted(C)
  /\ f.unwarmable \in Nat /\ f.tooFast \in Nat
  /\ Cardinality(C) + f.unwarmable + f.tooFast = Cardinality(DeadIn(inp))
  /\ \A c \in C : c.url.empty = {} /\ \E t \in DeadIn(inp) : OfTile(c, t)
  /\ inp.manifest.resolution /\ NoFullShift => \A c, d \in C : Ancestor(c, d) => c.score >= d.score

LEMMA TileOfDead ==
  ASSUME InputOK, NEW t \in DeadIn(input)
  PROVE  t \in Tiles /\ t.kind \in Kinds /\ t.qk \in Seq(0..3) /\ t.id \in Nat
<1>1. t \in Tiles
  BY DEF DeadIn
<1>2. PICK r \in Records : \E p \in DOMAIN r.top : t = [kind |-> r.kind, qk |-> p[1], id |-> p[2]]
  BY <1>1 DEF Tiles
<1>3. DOMAIN r.top \subseteq Seq(0..3) \X Nat /\ r.kind \in Kinds
  BY PlannerAssumption DEF IsRecord
<1> QED
  BY <1>1, <1>2, <1>3

\* One candidate is an ancestor of another as one text is a beginning of the other.
LEMMA AncestorByTexts ==
  ASSUME InputOK, NoFullShift, NEW c, NEW d, NEW t \in DeadIn(input), NEW u \in DeadIn(input),
         OfTile(c, t), OfTile(d, u)
  PROVE  Ancestor(c, d) <=> /\ Placed(t.kind) /\ Parses(t.qk)
                            /\ Placed(u.kind) /\ Parses(u.qk)
                            /\ IsStrictPrefix(t.qk, u.qk)
<1>1. /\ t \in Tiles /\ u \in Tiles /\ t.qk \in Seq(0..3) /\ u.qk \in Seq(0..3)
  BY TileOfDead
<1>2. c.qk # None <=> Placed(t.kind) /\ Parses(t.qk)
  BY <1>1, ParsedIsFormed, PlannerAssumption DEF OfTile, QkOf, Formed
<1>3. d.qk # None <=> Placed(u.kind) /\ Parses(u.qk)
  BY <1>1, ParsedIsFormed, PlannerAssumption DEF OfTile, QkOf, Formed
<1>4. CASE c.qk = None \/ d.qk = None
  BY <1>2, <1>3, <1>4 DEF Ancestor
<1>5. CASE c.qk # None /\ d.qk # None
  <2>1. /\ Placed(t.kind) /\ Parses(t.qk) /\ Placed(u.kind) /\ Parses(u.qk)
        /\ c.qk = FromStr(t.qk) /\ d.qk = FromStr(u.qk)
    BY <1>2, <1>3, <1>5 DEF OfTile, QkOf
  <2>2. FromStr(t.qk).level = Len(t.qk) /\ FromStr(u.qk).level = Len(u.qk)
    BY <1>1, <2>1, ParsedIsFormed
  <2>3. Shifts(FromStr(u.qk), FromStr(t.qk).level)
    <3>1. Len(t.qk) \in Nat /\ Len(u.qk) \in Nat /\ Len(u.qk) <= MaxLevel /\ MaxLevel \in Nat
      BY <1>1, <2>1, QuadkeyAssumption DEF Parses
    <3>2. Len(t.qk) = 0 => t.qk = <<>>
      BY <1>1
    <3>3. ~(t.qk = <<>> /\ Len(u.qk) = MaxLevel)
      BY <1>1, <2>1 DEF NoFullShift
    <3> QED
      BY <2>2, <3>1, <3>2, <3>3 DEF Shifts
  <2>4. StartsWith(d.qk, c.qk) <=> IsPrefix(t.qk, u.qk)
    BY <1>1, <2>1, <2>3, PrefixReadsAlike
  <2>5. c.qk = d.qk <=> t.qk = u.qk
    BY <1>1, <2>1, DigitsReadBack
  <2> QED
    BY <1>5, <2>1, <2>4, <2>5 DEF Ancestor, IsStrictPrefix
<1> QED
  BY <1>4, <1>5

LEMMA StrictPrefixTransitive ==
  ASSUME NEW s \in Seq(0..3), NEW t \in Seq(0..3), NEW u \in Seq(0..3),
         IsStrictPrefix(s, t), IsStrictPrefix(t, u)
  PROVE  IsStrictPrefix(s, u)
<1>1. /\ Len(s) <= Len(t) /\ \A i \in 1..Len(s) : s[i] = t[i]
      /\ Len(t) <= Len(u) /\ \A i \in 1..Len(t) : t[i] = u[i]
  BY PrefixByDigits DEF IsStrictPrefix
<1>2. Len(s) \in Nat /\ Len(t) \in Nat /\ Len(u) \in Nat
  OBVIOUS
<1>3. IsPrefix(s, u)
  BY <1>1, <1>2, PrefixByDigits
<1>4. s # u
  <2>1. SUFFICES ASSUME s = u PROVE s = t
    BY DEF IsStrictPrefix
  <2>2. Len(s) = Len(t)
    BY <1>1, <1>2, <2>1
  <2> QED
    BY <1>1, <2>2
<1> QED
  BY <1>3, <1>4 DEF IsStrictPrefix

LEMMA ExpandedTiles ==
  ASSUME CanExpand
  PROVE  \A c \in Expanded : c.url.empty = {} /\ \E t \in DeadIn(input) : OfTile(c, t)
<1>1. SUFFICES ASSUME NEW p \in PairsIn(Warm)
               PROVE  /\ CandidateAt(p).url.empty = {}
                      /\ TileAt(p) \in DeadIn(input) /\ OfTile(CandidateAt(p), TileAt(p))
  BY ExpandedArePlaces
<1> QED
  BY CandidateFacts DEF OfTile

\* Each place is of a candidate, of a document left out, or of a cell too fast.
LEMMA PlacesAddUp ==
  ASSUME CanExpand
  PROVE  /\ TilesIn(Skipped) \in Nat /\ TilesIn(Fast) \in Nat
         /\ Cardinality(PairsIn(Warm)) + TilesIn(Skipped) + TilesIn(Fast) = Cardinality(DeadIn(input))
<1> DEFINE P == PairsIn(DOMAIN cells)
           W == PairsIn(Warm)
           S == PairsIn(Skipped)
           F == PairsIn(Fast)
<1>1. Warm \subseteq DOMAIN cells /\ Skipped \subseteq DOMAIN cells /\ Fast \subseteq DOMAIN cells
  BY DEF Warm, Skipped, Slow, Fast
<1>2. IsFiniteSet(P) /\ Cardinality(P) = Cardinality(DeadIn(input))
  BY PlacesOfTheDead DEF CanExpand
<1>3. \A p \in P : p[1] \in DOMAIN cells /\ DOMAIN cells[p[1]].tiles # {}
  BY PairsArePairs DEF IsPair, CanExpand
<1>4. \A k \in DOMAIN cells : DOMAIN cells[k].tiles # {} => k \in Warm \/ k \in Skipped \/ k \in Fast
  BY DEF Warm, Skipped, Slow
<1>5. Warm \intersect Skipped = {} /\ Warm \intersect Fast = {} /\ Skipped \intersect Fast = {}
  BY DEF Warm, Skipped, Slow
<1>6. /\ \A p : p \in W <=> p \in P /\ p[1] \in Warm
      /\ \A p : p \in S <=> p \in P /\ p[1] \in Skipped
      /\ \A p : p \in F <=> p \in P /\ p[1] \in Fast
  BY <1>1, SomePairs
<1>7. Cardinality(S) = TilesIn(Skipped) /\ Cardinality(F) = TilesIn(Fast)
  BY DEF TilesIn, PairsIn
<1> HIDE DEF P, W, S, F
<1>8. P = W \union (S \union F)
  BY <1>3, <1>4, <1>6
<1>9. W \intersect (S \union F) = {} /\ S \intersect F = {}
  BY <1>5, <1>6
<1>10. W \subseteq P /\ S \subseteq P /\ F \subseteq P
  BY <1>6
<1>11. IsFiniteSet(W) /\ IsFiniteSet(S) /\ IsFiniteSet(F)
  BY <1>2, <1>10, FS_Subset
<1>12. Cardinality(W) \in Nat /\ Cardinality(S) \in Nat /\ Cardinality(F) \in Nat
  BY <1>11, FS_CardinalityType
<1>13. IsFiniteSet(S \union F) /\ Cardinality(S \union F) = Cardinality(S) + Cardinality(F) - Cardinality({})
  BY <1>9, <1>11, FS_Union
<1>14. Cardinality(W \union (S \union F)) = Cardinality(W) + Cardinality(S \union F) - Cardinality({})
  BY <1>9, <1>11, <1>13, FS_Union
<1>15. Cardinality({}) = 0
  BY FS_EmptySet
<1>16. Cardinality(P) = Cardinality(W) + (Cardinality(S) + Cardinality(F))
  BY <1>8, <1>12, <1>13, <1>14, <1>15
<1> QED
  BY <1>2, <1>7, <1>12, <1>16 DEF W

-----------------------------------------------------------------------------
(* What a candidate is worth.                                              *)

\* The demand of the cells, or of the first of some candidates, is a sum.
DemandOf(cs) == Sum([k \in DOMAIN cs |-> cs[k].freq], DOMAIN cs)

SeenIn(cs) == Sum([k \in DOMAIN cs |-> cs[k].observed], DOMAIN cs)

Asked(tiles, n) == Sum([i \in 1..n |-> tiles[i].req], 1..n)

\* The records that name a tile, and those of its cell.
NamingIn(inp, t) ==
  {r \in inp.digests :
     r.tileset = inp.event.tileset /\ r.kind = t.kind /\ <<t.qk, t.id>> \in DOMAIN r.top}

SharingIn(inp, t) ==
  {r \in inp.digests : \E s \in NamingIn(inp, t) :
     <<r.tileset, r.kind, r.cell>> = <<s.tileset, s.kind, s.cell>>}

Worth(inp, c, t) ==
  /\ c.req = Sum(AskedOf(inp, <<t.qk, t.id>>), NamingIn(inp, t))
  /\ \E r \in SharingIn(inp, t) :
       Freshest(r, SharingIn(inp, t)) /\ c.gen = MeasuredOr(r.p50, inp.manifest.cost.default_gen)

\* What is said of the candidates C of some cells: each is worth what the records
\* that name it say and, but for what the records name too much, all of them are
\* asked for no more than the cells, and no more died than were seen.
Weighed(inp, cs, C) ==
  /\ \A c \in C, t \in DeadIn(inp) : OfTile(c, t) => Worth(inp, c, t)
  /\ Sum([c \in C |-> c.req], C) <= DemandOf(cs) + Sum(ExcessOf(inp), Taken(inp, {}))
  /\ DemandOf(cs) \in Nat
  /\ (\A r, s \in inp.digests : CellKey(r) = CellKey(s) => r = s)
       => Cardinality(DeadIn(inp)) <= SeenIn(cs) + Sum(Unseen, Taken(inp, {}))

\* The records of a place are those that name its tile, and its cell's are theirs.
LEMMA RecordsOfPlace ==
  ASSUME Collected, unread = {}, NEW p \in PairsIn(DOMAIN cells), NEW t, t = TileAt(p)
  PROVE  /\ {r \in OfCell(input, unread, p[1]) : p[2] \in DeadOf(input, r)} = NamingIn(input, t)
         /\ OfCell(input, unread, p[1]) = SharingIn(input, t)
         /\ OfCell(input, unread, p[1]) # {}
         /\ p[2] = <<t.qk, t.id>>
<1> DEFINE k == p[1]
           u == p[2]
           R == OfCell(input, unread, k)
           N == NamingIn(input, t)
<1>1. IsPair(p) /\ t \in DeadIn(input)
  BY PairsArePairs
<1>2. PICK s \in input.digests : s.tileset = input.event.tileset /\ CellKey(s) = k /\ u \in DOMAIN s.top
  BY PairsArePairs
<1>3. u = <<t.qk, t.id>> /\ t.kind = k[1]
  BY <1>1 DEF IsPair, TileAt
<1>4. CoversTile(input.event.scope, t.kind, u)
  BY <1>1, <1>3 DEF DeadIn
<1>5. InputOK /\ input.digests \subseteq Records
  BY DEF Collected, InputOK
<1>6. \A r : r \in R <=> r \in input.digests /\ Wanted(input, r) /\ CellKey(r) = k
  BY DEF OfCell, Taken
<1>7. \A r : r \in N <=> /\ r \in input.digests /\ r.tileset = input.event.tileset
                        /\ r.kind = t.kind /\ u \in DOMAIN r.top
  BY <1>3 DEF NamingIn
<1>8. s \in N /\ s.kind = t.kind
  BY <1>2, <1>3, <1>7 DEF CellKey
<1> HIDE DEF k, u, R, N
<1>9. ASSUME NEW r \in N PROVE r \in R /\ u \in DeadOf(input, r)
  <2>1. /\ r \in Records /\ s \in Records /\ r.tileset = s.tileset /\ r.kind = s.kind
        /\ DOMAIN r.top \intersect DOMAIN s.top # {}
    BY <1>2, <1>5, <1>7, <1>8, <1>9
  <2>2. r.cell = s.cell
    BY <2>1, PlannerAssumption
  <2>3. u \in DeadOf(input, r)
    BY <1>4, <1>7, <1>9 DEF DeadOf
  <2>4. Wanted(input, r)
    BY <1>5, <1>7, <1>9, <2>1, <2>3, DeadIsWanted
  <2> QED
    BY <1>2, <1>6, <1>7, <1>9, <2>1, <2>2, <2>3, <2>4 DEF CellKey
<1>10. ASSUME NEW r \in R, u \in DeadOf(input, r) PROVE r \in N
  BY <1>2, <1>6, <1>7, <1>8, <1>10 DEF CellKey, DeadOf, Wanted
<1>11. s \in R
  BY <1>8, <1>9
<1>12. \A r \in R : r \in SharingIn(input, t)
  <2>1. SUFFICES ASSUME NEW r \in R
                 PROVE  r \in input.digests /\ <<r.tileset, r.kind, r.cell>> = <<s.tileset, s.kind, s.cell>>
    BY <1>8 DEF SharingIn, N
  <2> QED
    BY <1>2, <1>6, <1>11 DEF CellKey, Wanted
<1>13. ASSUME NEW r \in SharingIn(input, t) PROVE r \in R
  <2>1. PICK q \in N : r \in input.digests /\ <<r.tileset, r.kind, r.cell>> = <<q.tileset, q.kind, q.cell>>
    BY <1>13 DEF SharingIn, N
  <2>2. q \in R
    BY <1>9
  <2> QED
    BY <1>6, <2>1, <2>2 DEF CellKey, Wanted
<1>14. R = SharingIn(input, t)
  BY <1>12, <1>13
<1>15. {r \in R : u \in DeadOf(input, r)} = N
  BY <1>9, <1>10
<1> QED
  BY <1>3, <1>11, <1>14, <1>15 DEF k, u, R, N

LEMMA ExpandedIsWorth ==
  ASSUME CanExpand, Gathered
  PROVE  \A c \in Promoted(Expanded), t \in DeadIn(input) : OfTile(c, t) => Worth(input, c, t)
<1>1. SUFFICES ASSUME NEW c \in Promoted(Expanded), NEW t \in DeadIn(input), OfTile(c, t)
               PROVE  Worth(input, c, t)
  OBVIOUS
<1>2. Distinct(Expanded)
  BY ExpandedAreDistinct
<1>3. PICK p \in PairsIn(Warm) : c = Lifted(Expanded, CandidateAt(p))
  <2>1. PICK a \in Expanded : c = Lifted(Expanded, a)
    BY <1>2, PromotedAreLifted
  <2>2. PICK p \in PairsIn(Warm) : a = CandidateAt(p)
    BY ExpandedArePlaces
  <2> QED
    BY <2>1, <2>2
<1> DEFINE b == CandidateAt(p)
           k == p[1]
<1>4. b \in Expanded
  BY ExpandedArePlaces
<1>5. /\ p \in PairsIn(DOMAIN cells) /\ TileAt(p) \in DeadIn(input)
      /\ b.kind = TileAt(p).kind /\ b.id = TileAt(p).id
  BY CandidateFacts
<1>6. b.req = cells[k].tiles[p[2]] /\ b.gen = MeasuredOr(cells[k].gen, input.manifest.cost.default_gen)
  BY DEF CandidateAt, GenOf
<1> HIDE DEF b
<1>7. c.kind = b.kind /\ c.id = b.id /\ c.req = b.req /\ c.gen = b.gen
  BY <1>2, <1>3, <1>4, LiftedFields DEF b
<1>8. t = TileAt(p)
  <2>1. t.kind = TileAt(p).kind /\ t.id = TileAt(p).id
    BY <1>1, <1>5, <1>7 DEF OfTile
  <2>2. t \in Tiles /\ TileAt(p) \in Tiles
    BY <1>1, <1>5 DEF DeadIn
  <2> QED
    BY <2>1, <2>2, PlannerAssumption
<1>9. Collected /\ unread = {}
  BY DEF CanExpand
<1>10. /\ {r \in OfCell(input, unread, k) : p[2] \in DeadOf(input, r)} = NamingIn(input, t)
       /\ OfCell(input, unread, k) = SharingIn(input, t) /\ OfCell(input, unread, k) # {}
       /\ p[2] = <<t.qk, t.id>>
  BY <1>5, <1>8, <1>9, RecordsOfPlace
<1>11. k \in DOMAIN cells /\ p[2] \in DOMAIN cells[k].tiles
  BY <1>5, <1>9, PairsArePairs DEF IsPair
<1>12. GatheredCell(input, cells[k], OfCell(input, unread, k))
  BY <1>11 DEF Gathered
<1>13. cells[k].tiles[p[2]] = Sum(AskedOf(input, <<t.qk, t.id>>), NamingIn(input, t))
  BY <1>10, <1>11, <1>12 DEF GatheredCell, GatheredTiles
<1>14. PICK r : Freshest(r, SharingIn(input, t)) /\ cells[k].gen = r.p50
  BY <1>10, <1>12 DEF GatheredCell, GatheredTimes
<1>15. r \in SharingIn(input, t)
  BY <1>14 DEF Freshest
<1> QED
  BY <1>6, <1>7, <1>13, <1>14, <1>15 DEF Worth

\* The tiles of the cells, each cell's at a time.
TilesOfCells(f) == [k \in DOMAIN cells |-> Sum([t \in DOMAIN cells[k].tiles |-> f[<<k, t>>]], DOMAIN cells[k].tiles)]

LEMMA SumOverPlaces ==
  ASSUME Collected, Gathered, unread = {}, NEW f, \A p \in PairsIn(DOMAIN cells) : f[p] \in Int
  PROVE  Sum(f, PairsIn(DOMAIN cells)) = Sum(TilesOfCells(f), DOMAIN cells)
<1> DEFINE P == PairsIn(DOMAIN cells)
           K == DOMAIN cells
           at == [p \in P |-> p[1]]
           In(k) == {p \in P : at[p] = k}
           part == [k \in K |-> Sum(f, In(k))]
<1>1. IsFiniteSet(P) /\ IsFiniteSet(K)
  BY PlacesOfTheDead, FewCells
<1>2. \A p \in P : at[p] \in K
  BY PairsArePairs DEF IsPair
<1>3. Sum(f, P) = Sum(part, K)
  <2>1. \A p \in P : f[p] \in Int
    OBVIOUS
  <2> HIDE DEF P, K, at
  <2> QED
    BY <1>1, <1>2, <2>1, SumByPlaces
<1>4. ASSUME NEW k \in K PROVE part[k] = TilesOfCells(f)[k]
  <2> DEFINE T == DOMAIN cells[k].tiles
             g == [t \in T |-> f[<<k, t>>]]
             h == [t \in T |-> <<k, t>>]
             I == In(k)
  <2>1. IsFiniteSet(T)
    BY DEF Gathered, GatheredCell, GatheredDemand
  <2>2. \A t \in T : <<k, t>> \in I
    BY DEF PairsIn
  <2>3. \A p \in I : \E t \in T : p = <<k, t>>
    <3>1. SUFFICES ASSUME NEW p \in I PROVE p = <<k, p[2]>> /\ p[2] \in T
      OBVIOUS
    <3>2. IsPair(p) /\ p[1] = k
      BY PairsArePairs
    <3> QED
      BY <3>2 DEF IsPair
  <2>4. \A p \in I : f[p] \in Int
    OBVIOUS
  <2>5. part[k] = Sum(f, I) /\ TilesOfCells(f)[k] = Sum(g, T)
    BY DEF TilesOfCells
  <2> HIDE DEF I, T
  <2>6. h \in Bijection(T, I)
    <3>1. h \in [T -> I]
      BY <2>2
    <3>2. \A t, u \in T : h[t] = h[u] => t = u
      OBVIOUS
    <3>3. \A p \in I : \E t \in T : h[t] = p
      BY <2>3
    <3> HIDE DEF h
    <3> QED
      BY <3>1, <3>2, <3>3 DEF Bijection, Injection, IsInjective, Surjection
  <2>7. \A t \in T : g[t] = f[h[t]] /\ g[t] \in Int
    BY <2>2, <2>4
  <2> HIDE DEF g, h
  <2>8. Sum(g, T) = Sum(f, I)
    BY <2>1, <2>6, <2>7, SumRenamed
  <2> QED
    BY <2>5, <2>8
<1> HIDE DEF part, P, K
<1>5. Sum(part, K) = Sum(TilesOfCells(f), K)
  BY <1>1, <1>4, SumOfEquals
<1> QED
  BY <1>3, <1>5 DEF P, K

\* The records taken, each cell's at a time.
LEMMA SumOverRecords ==
  ASSUME Collected, NEW f, \A r \in Taken(input, unread) : f[r] \in Int
  PROVE  /\ Sum(f, Taken(input, unread))
               = Sum([k \in DOMAIN cells |-> Sum(f, OfCell(input, unread, k))], DOMAIN cells)
         /\ \A k \in DOMAIN cells : Sum(f, OfCell(input, unread, k)) \in Int
         /\ Sum(f, Taken(input, unread)) \in Int
<1> DEFINE T == Taken(input, unread)
           K == DOMAIN cells
           Of(k) == OfCell(input, unread, k)
           key == [r \in T |-> CellKey(r)]
           In(k) == {r \in T : key[r] = k}
           part == [k \in K |-> Sum(f, In(k))]
           each == [k \in K |-> Sum(f, Of(k))]
<1>1. IsFiniteSet(T) /\ IsFiniteSet(K)
  <2>1. T \subseteq Records
    BY DEF Collected, InputOK, Taken
  <2> HIDE DEF T
  <2> QED
    BY <2>1, FewCells, FS_Subset, PlannerAssumption
<1>2. \A r \in T : key[r] \in K
  BY DEF Collected
<1>3. Sum(f, T) = Sum(part, K)
  <2>1. \A r \in T : f[r] \in Int
    OBVIOUS
  <2> HIDE DEF T, K, key
  <2> QED
    BY <1>1, <1>2, <2>1, SumByPlaces
<1>4. ASSUME NEW k \in K PROVE part[k] = each[k] /\ Sum(f, Of(k)) \in Int
  <2>1. In(k) = Of(k) /\ Of(k) \subseteq T /\ \A r \in Of(k) : f[r] \in Int
    BY DEF OfCell
  <2>2. part[k] = Sum(f, In(k)) /\ each[k] = Sum(f, Of(k))
    OBVIOUS
  <2> HIDE DEF In, Of, T, part, each
  <2>3. part[k] = each[k]
    BY <2>1, <2>2
  <2>4. Sum(f, Of(k)) \in Int
    BY <1>1, <2>1, FS_Subset, SumIsInt
  <2> QED
    BY <2>3, <2>4
<1>5. Sum(f, T) \in Int
  <2>1. \A r \in T : f[r] \in Int
    OBVIOUS
  <2> HIDE DEF T
  <2> QED
    BY <1>1, <2>1, SumIsInt
<1>6. Sum(each, K) = Sum([k \in K |-> Sum(f, OfCell(input, unread, k))], K)
  OBVIOUS
<1> HIDE DEF part, each, K, T
<1>7. Sum(part, K) = Sum(each, K)
  BY <1>1, <1>4, SumOfEquals
<1> QED
  BY <1>3, <1>4, <1>5, <1>6, <1>7 DEF K, T

\* What is asked for of the candidates is no more than the demand, but for what the
\* records name too much.
LEMMA ExpandedDemand ==
  ASSUME CanExpand, Gathered, NEW C, C = Promoted(Expanded)
  PROVE  /\ Sum([c \in C |-> c.req], C) <= DemandOf(cells) + Sum(ExcessOf(input), Taken(input, {}))
         /\ DemandOf(cells) \in Nat
<1> DEFINE P == PairsIn(DOMAIN cells)
           W == PairsIn(Warm)
           K == DOMAIN cells
           L(p) == Lifted(Expanded, CandidateAt(p))
           f == [p \in P |-> cells[p[1]].tiles[p[2]]]
           r == [c \in C |-> c.req]
           h == [p \in W |-> L(p)]
           freq == [k \in K |-> cells[k].freq]
           over == ExcessOf(input)
           T == Taken(input, unread)
           more == [k \in K |-> Sum(over, OfCell(input, unread, k))]
           bound == [k \in K |-> freq[k] + more[k]]
<1>1. Collected /\ unread = {} /\ Distinct(Expanded)
  BY ExpandedAreDistinct DEF CanExpand
<1>2. IsFiniteSet(P) /\ IsFiniteSet(K)
  BY <1>1, PlacesOfTheDead, FewCells
<1>3. \A p \in W : /\ p \in P /\ CandidateAt(p) \in Expanded
                   /\ CandidateAt(p).req = f[p]
  <2>1. TAKE p \in W
  <2>2. p \in P
    BY CandidateFacts
  <2>3. CandidateAt(p) \in Expanded
    BY ExpandedArePlaces
  <2> QED
    BY <2>2, <2>3 DEF CandidateAt
<1>4. ASSUME NEW p \in P PROVE f[p] \in Nat
  <2>1. p[1] \in K /\ p[2] \in DOMAIN cells[p[1]].tiles
    BY <1>1, PairsArePairs DEF IsPair
  <2>2. CellOK(cells[p[1]])
    BY <1>1, <2>1 DEF Collected
  <2>3. cells[p[1]].tiles[p[2]] \in Nat
    BY <2>1, <2>2 DEF CellOK
  <2> QED
    BY <2>3
<1>5. \A p \in W : /\ L(p) \in C /\ L(p).req = f[p]
                   /\ L(p).kind = CandidateAt(p).kind /\ L(p).id = CandidateAt(p).id
  <2>1. C = {Lifted(Expanded, c) : c \in Expanded}
    BY <1>1, PromotedAreLifted
  <2>2. TAKE p \in W
  <2> DEFINE b == CandidateAt(p)
  <2>3. b \in Expanded /\ b.req = f[p]
    BY <1>3
  <2> HIDE DEF b, f
  <2>4. /\ Lifted(Expanded, b).req = b.req
        /\ Lifted(Expanded, b).kind = b.kind /\ Lifted(Expanded, b).id = b.id
    BY <1>1, <2>3, LiftedFields
  <2>5. L(p) = Lifted(Expanded, b)
    BY DEF b
  <2>6. L(p) \in C
    BY <2>1, <2>3, <2>5
  <2> QED
    BY <2>3, <2>4, <2>5, <2>6 DEF b
<1>6. \A c \in C : \E p \in W : c = L(p)
  <2>1. C = {Lifted(Expanded, c) : c \in Expanded}
    BY <1>1, PromotedAreLifted
  <2>2. \A b \in Expanded : \E p \in W : b = CandidateAt(p)
    BY ExpandedArePlaces
  <2> QED
    BY <2>1, <2>2
<1>7. /\ Sum(over, T) = Sum(more, K) /\ \A k \in K : more[k] \in Int
      /\ Sum(over, T) \in Int /\ T = Taken(input, {})
  <2>1. \A q \in T : over[q] \in Int
    <3>1. TAKE q \in T
    <3>2. q \in Records /\ InputOK
      BY <1>1 DEF Collected, InputOK, Taken
    <3> QED
      BY <3>2, ExcessIsNatural
  <2> HIDE DEF over
  <2> QED
    BY <1>1, <2>1, SumOverRecords
<1>8. ASSUME NEW p \in W, NEW q \in W, L(p) = L(q) PROVE p = q
  <2>1. /\ L(p).kind = CandidateAt(p).kind /\ L(p).id = CandidateAt(p).id
        /\ L(q).kind = CandidateAt(q).kind /\ L(q).id = CandidateAt(q).id
    BY <1>5
  <2>2. p[1][1] = q[1][1] /\ p[2][2] = q[2][2]
    BY <1>8, <2>1 DEF CandidateAt
  <2> QED
    BY <1>1, <1>3, <2>2, OnePlace
<1>9. h \in Bijection(W, C)
  <2>1. h \in [W -> C]
    BY <1>5
  <2>2. \A p, q \in W : h[p] = h[q] => p = q
    BY <1>8
  <2>3. \A c \in C : \E p \in W : h[p] = c
    BY <1>6
  <2> HIDE DEF h, W
  <2> QED
    BY <2>1, <2>2, <2>3 DEF Bijection, Injection, IsInjective, Surjection
<1>10. \A p \in W : f[p] = r[h[p]] /\ f[p] \in Int
  <2>1. TAKE p \in W
  <2>2. r[h[p]] = L(p).req /\ L(p).req = f[p] /\ p \in P
    BY <1>3, <1>5
  <2> HIDE DEF f, P, r, h, L
  <2> QED
    BY <1>4, <2>2
<1>11. \A p \in P : f[p] \in Int
  BY <1>4
<1>12. \A k \in K : /\ TilesOfCells(f)[k] = Sum(cells[k].tiles, DOMAIN cells[k].tiles)
                     /\ TilesOfCells(f)[k] \in Int /\ freq[k] \in Nat
                     /\ TilesOfCells(f)[k] <= bound[k] /\ bound[k] = freq[k] + more[k]
  <2>1. TAKE k \in K
  <2> DEFINE D == DOMAIN cells[k].tiles
             g == [t \in D |-> f[<<k, t>>]]
  <2>2. CellOK(cells[k]) /\ GatheredDemand(input, cells[k], OfCell(input, unread, k))
    BY <1>1 DEF Collected, Gathered, GatheredCell
  <2>3. IsFiniteSet(D) /\ Sum(cells[k].tiles, D) <= bound[k] /\ cells[k].freq \in Nat
    BY <2>2 DEF GatheredDemand, CellOK
  <2>4. \A t \in D : g[t] = cells[k].tiles[t] /\ cells[k].tiles[t] \in Int
    <3>1. TAKE t \in D
    <3>2. <<k, t>> \in P
      BY DEF PairsIn
    <3> QED
      BY <2>2, <3>2 DEF CellOK
  <2>5. TilesOfCells(f)[k] = Sum(g, D)
    BY DEF TilesOfCells
  <2>6. bound[k] = freq[k] + more[k] /\ freq[k] = cells[k].freq
    OBVIOUS
  <2> HIDE DEF g, D, f, bound, more, freq
  <2>7. Sum(g, D) = Sum(cells[k].tiles, D) /\ Sum(cells[k].tiles, D) \in Int
    BY <2>3, <2>4, SumOfEquals, SumIsInt
  <2> QED
    BY <2>3, <2>5, <2>6, <2>7 DEF D
<1>13. DemandOf(cells) = Sum(freq, K)
  BY DEF DemandOf
<1>14. W \in SUBSET P
  BY <1>3
<1>15. Sum(f, P) = Sum(TilesOfCells(f), K)
  <2> HIDE DEF f
  <2> QED
    BY <1>1, <1>11, SumOverPlaces
<1>16. Sum([c \in C |-> c.req], C) = Sum(r, C)
  OBVIOUS
<1> HIDE DEF P, W, K, f, r, h, freq, L, over, T, more, bound
<1>17. IsFiniteSet(W)
  BY <1>2, <1>14, FS_Subset
<1>18. Sum(f, W) = Sum(r, C)
  BY <1>9, <1>10, <1>17, SumRenamed
<1>19. Sum(f, W) <= Sum(f, P) /\ Sum(f, W) \in Nat /\ Sum(f, P) \in Nat
  BY <1>2, <1>4, <1>14, SumOfNaturals
<1>20. Sum(TilesOfCells(f), K) <= Sum(freq, K) + Sum(over, T)
  <2> DEFINE g == TilesOfCells(f)
  <2>1. \A k \in K : /\ g[k] \in Int /\ bound[k] \in Int /\ g[k] <= bound[k]
                     /\ freq[k] \in Int /\ more[k] \in Int /\ bound[k] = freq[k] + more[k]
    BY <1>7, <1>12
  <2> HIDE DEF g
  <2>2. Sum(g, K) <= Sum(bound, K)
    BY <1>2, <2>1, SumOfLarger
  <2>3. Sum(bound, K) = Sum(freq, K) + Sum(more, K)
    BY <1>2, <2>1, SumOfBoth
  <2> QED
    BY <1>7, <2>2, <2>3 DEF g
<1>21. Sum(freq, K) \in Nat
  BY <1>2, <1>12, SumOfNaturals
<1>22. Sum(r, C) <= Sum(freq, K) + Sum(over, T)
  <2>1. Sum(r, C) <= Sum(TilesOfCells(f), K) /\ Sum(r, C) \in Nat /\ Sum(TilesOfCells(f), K) \in Nat
    BY <1>15, <1>18, <1>19
  <2> QED
    BY ONLY <1>7, <1>20, <1>21, <2>1
<1> QED
  BY <1>7, <1>13, <1>16, <1>21, <1>22 DEF over

\* Where a cell has one record, no fewer tiles were observed than died, but for
\* what the records name too much.
LEMMA DeadAreSeen ==
  ASSUME Collected, Gathered, unread = {},
         \A r, s \in input.digests : CellKey(r) = CellKey(s) => r = s
  PROVE  Cardinality(DeadIn(input)) <= SeenIn(cells) + Sum(Unseen, Taken(input, {}))
<1> DEFINE P == PairsIn(DOMAIN cells)
           K == DOMAIN cells
           ones == [p \in P |-> 1]
           seen == [k \in K |-> cells[k].observed]
           g == TilesOfCells(ones)
           taken == Taken(input, unread)
           more == [k \in K |-> Sum(Unseen, OfCell(input, unread, k))]
           bound == [k \in K |-> seen[k] + more[k]]
<1>1. IsFiniteSet(P) /\ IsFiniteSet(K) /\ Cardinality(P) = Cardinality(DeadIn(input))
  BY PlacesOfTheDead, FewCells
<1>2. Sum(ones, P) = Cardinality(P)
  <2>1. \A p \in P : ones[p] = 1
    OBVIOUS
  <2> HIDE DEF ones, P
  <2> QED
    BY <1>1, <2>1, SumOfOnes
<1>3. Sum(ones, P) = Sum(g, K)
  <2>1. \A p \in P : ones[p] \in Int
    OBVIOUS
  <2> HIDE DEF ones
  <2> QED
    BY <2>1, SumOverPlaces
<1>4. /\ Sum(Unseen, taken) = Sum(more, K) /\ \A k \in K : more[k] \in Int
      /\ Sum(Unseen, taken) \in Int /\ taken = Taken(input, {})
  <2>1. \A q \in taken : Unseen[q] \in Int
    BY RecordNames DEF Unseen, Collected, InputOK, Taken
  <2> QED
    BY <2>1, SumOverRecords
<1>5. ASSUME NEW k \in K
      PROVE  /\ g[k] \in Int /\ seen[k] \in Int /\ g[k] <= bound[k]
             /\ bound[k] = seen[k] + more[k]
  <2> DEFINE T == DOMAIN cells[k].tiles
             one == [t \in T |-> ones[<<k, t>>]]
  <2>1. CellOK(cells[k]) /\ GatheredCell(input, cells[k], OfCell(input, unread, k))
    BY DEF Collected, Gathered
  <2>2. IsFiniteSet(T) /\ cells[k].observed \in Nat
    BY <2>1 DEF GatheredCell, GatheredDemand, CellOK
  <2>3. \A t \in T : one[t] = 1
    BY DEF PairsIn
  <2>4. g[k] = Sum(one, T)
    BY DEF TilesOfCells
  <2>5. PICK r \in Taken(input, unread) : CellKey(r) = k
    BY DEF Collected
  <2>6. r \in input.digests /\ r \in Records /\ r \in OfCell(input, unread, k)
    BY <2>5 DEF Collected, InputOK, Taken, OfCell
  <2>7. OfCell(input, unread, k) = {r}
    BY <2>5, <2>6 DEF OfCell, Taken
  <2>8. T \subseteq DOMAIN r.top
    BY <2>1, <2>7 DEF GatheredCell, GatheredTiles, DeadOf
  <2>9. r.observed <= cells[k].observed /\ r.observed \in Nat
    BY <2>1, <2>6, PlannerAssumption DEF GatheredCell, GatheredDemand, IsRecord
  <2> HIDE DEF T, one
  <2>10. Sum(one, T) = Cardinality(T)
    BY <2>2, <2>3, SumOfOnes
  <2>11. IsFiniteSet(DOMAIN r.top)
    BY <2>6, TopsAreFinite
  <2>12. Cardinality(T) <= Cardinality(DOMAIN r.top) /\ Cardinality(T) \in Nat /\ Cardinality(DOMAIN r.top) \in Nat
    BY <2>2, <2>8, <2>11, FS_Subset, FS_CardinalityType
  <2>13. /\ Cardinality(DOMAIN r.top) <= r.observed + OverNamed(r)
         /\ Unseen[r] = OverNamed(r) /\ OverNamed(r) \in Nat
    BY <2>6, RecordNames DEF Unseen
  <2>14. more[k] = Unseen[r]
    <3>1. Unseen[r] \in Int
      BY <2>13
    <3>2. Sum(Unseen, {r}) = Unseen[r]
      BY ONLY <3>1, SumOfOne
    <3> QED
      BY <2>7, <3>2
  <2>15. bound[k] = seen[k] + more[k] /\ seen[k] = cells[k].observed
    OBVIOUS
  <2>16. more[k] \in Int
    BY <1>4
  <2> HIDE DEF g, seen, more, bound, T
  <2> DEFINE died == Cardinality(T)
             names == Cardinality(DOMAIN r.top)
             sees == cells[k].observed
  <2>17. g[k] = died /\ bound[k] = sees + OverNamed(r) /\ seen[k] = sees
    BY <2>4, <2>10, <2>13, <2>14, <2>15
  <2> HIDE DEF died, names, sees
  <2>18. /\ died \in Nat /\ names \in Nat /\ sees \in Nat
         /\ died <= names /\ names <= r.observed + OverNamed(r) /\ r.observed <= sees
    BY <2>2, <2>9, <2>12, <2>13 DEF died, names, sees
  <2> QED
    BY ONLY <2>9, <2>13, <2>15, <2>17, <2>18
<1>6. SeenIn(cells) = Sum(seen, K)
  BY DEF SeenIn
<1> HIDE DEF P, K, ones, seen, g, more, bound, taken
<1>7. Sum(g, K) <= Sum(seen, K) + Sum(Unseen, taken)
  <2>1. \A k \in K : /\ g[k] \in Int /\ bound[k] \in Int /\ g[k] <= bound[k]
                     /\ seen[k] \in Int /\ more[k] \in Int /\ bound[k] = seen[k] + more[k]
    BY <1>4, <1>5
  <2>2. Sum(g, K) <= Sum(bound, K)
    BY <1>1, <2>1, SumOfLarger
  <2>3. Sum(bound, K) = Sum(seen, K) + Sum(more, K)
    BY <1>1, <2>1, SumOfBoth
  <2> QED
    BY <1>4, <2>2, <2>3
<1> QED
  BY <1>1, <1>2, <1>3, <1>4, <1>6, <1>7

LEMMA ExpandedAreWeighed ==
  ASSUME CanExpand, Gathered
  PROVE  Weighed(input, cells, Promoted(Expanded))
<1> DEFINE C == Promoted(Expanded)
<1>1. \A c \in C, t \in DeadIn(input) : OfTile(c, t) => Worth(input, c, t)
  BY ExpandedIsWorth
<1>2. /\ Sum([c \in C |-> c.req], C) <= DemandOf(cells) + Sum(ExcessOf(input), Taken(input, {}))
      /\ DemandOf(cells) \in Nat
  BY ExpandedDemand
<1>3. ASSUME \A r, s \in input.digests : CellKey(r) = CellKey(s) => r = s
      PROVE  Cardinality(DeadIn(input)) <= SeenIn(cells) + Sum(Unseen, Taken(input, {}))
  BY <1>3, DeadAreSeen DEF CanExpand
<1> HIDE DEF C
<1> QED
  BY <1>1, <1>2, <1>3 DEF Weighed, C

LEMMA ExpandsWell ==
  ASSUME CanExpand,
         NEW f, f = [order |-> Sorted(Promoted(Expanded)), unwarmable |-> TilesIn(Skipped),
                     tooFast |-> TilesIn(Fast)]
  PROVE  GoodOrder(input, f, Promoted(Expanded))
<1> DEFINE C == Promoted(Expanded)
<1>1. Distinct(Expanded) /\ Cardinality(Expanded) = Cardinality(PairsIn(Warm))
  BY ExpandedAreDistinct
<1>2. /\ C = {Lifted(Expanded, c) : c \in Expanded} /\ Distinct(C)
      /\ Cardinality(C) = Cardinality(Expanded)
  BY <1>1, PromotedAreLifted
<1>3. \A c \in Expanded : c.url.empty = {} /\ \E t \in DeadIn(input) : OfTile(c, t)
  BY ExpandedTiles
<1>4. \A c \in C : c.url.empty = {} /\ \E t \in DeadIn(input) : OfTile(c, t)
  BY <1>1, <1>2, <1>3, LiftedFields DEF OfTile
<1>5. ASSUME input.manifest.resolution, NoFullShift, NEW c \in C, NEW d \in C, Ancestor(c, d)
      PROVE  c.score >= d.score
  <2>1. PICK a \in Expanded, b \in Expanded : c = Lifted(Expanded, a) /\ d = Lifted(Expanded, b)
    BY <1>2
  <2>2. /\ c.qk = a.qk /\ d.qk = b.qk
        /\ c.score = Raised(Expanded, a) /\ d.score = Raised(Expanded, b)
    BY <1>1, <1>5, <2>1, LiftedFields
  <2>3. Ancestor(a, b)
    BY <1>5, <2>2 DEF Ancestor
  <2>4. /\ Raised(Expanded, a) \in Nat /\ \A e \in Below(Expanded, a) : Raised(Expanded, a) >= e.score
        /\ \/ Raised(Expanded, b) = b.score
           \/ \E e \in Below(Expanded, b) : Raised(Expanded, b) = e.score
    BY <1>1, RaisedScore
  <2>5. ASSUME NEW e \in Below(Expanded, b) PROVE e \in Below(Expanded, a)
    <3>1. e \in Expanded /\ Ancestor(b, e)
      BY <2>5 DEF Below
    <3>2. PICK ta \in DeadIn(input), tb \in DeadIn(input), te \in DeadIn(input) :
            OfTile(a, ta) /\ OfTile(b, tb) /\ OfTile(e, te)
      BY <1>3, <3>1
    <3>3. InputOK
      BY DEF CanExpand, Collected
    <3>4. ta.qk \in Seq(0..3) /\ tb.qk \in Seq(0..3) /\ te.qk \in Seq(0..3)
      BY <3>3, TileOfDead
    <3>5. /\ Placed(ta.kind) /\ Parses(ta.qk) /\ IsStrictPrefix(ta.qk, tb.qk)
          /\ Placed(te.kind) /\ Parses(te.qk) /\ IsStrictPrefix(tb.qk, te.qk)
      BY <1>5, <2>3, <3>1, <3>2, <3>3, AncestorByTexts
    <3>6. IsStrictPrefix(ta.qk, te.qk)
      BY <3>4, <3>5, StrictPrefixTransitive
    <3>7. Ancestor(a, e)
      BY <1>5, <3>2, <3>3, <3>5, <3>6, AncestorByTexts
    <3> QED
      BY <3>1, <3>7 DEF Below
  <2>6. b \in Below(Expanded, a)
    BY <2>3 DEF Below
  <2> QED
    BY <2>2, <2>4, <2>5, <2>6
<1>6. /\ TilesIn(Skipped) \in Nat /\ TilesIn(Fast) \in Nat
      /\ Cardinality(PairsIn(Warm)) + TilesIn(Skipped) + TilesIn(Fast) = Cardinality(DeadIn(input))
  BY PlacesAddUp
<1> QED
  BY <1>1, <1>2, <1>4, <1>5, <1>6 DEF GoodOrder

-----------------------------------------------------------------------------
(* The cut.                                                                *)

LEMMA MinOfNaturals ==
  ASSUME NEW S, S \subseteq Nat, S # {}
  PROVE  Min(S) \in S /\ \A x \in S : Min(S) <= x
<1>1. \E x \in S : \A y \in S : x <= y
  BY LeastNatural
<1> QED
  BY <1>1 DEF Min

LEMMA CutsTightly ==
  ASSUME NEW tiles, NEW by, Len(tiles) \in Nat, DOMAIN tiles = 1..Len(tiles)
  PROVE  LET n == CutOff(tiles, by)
         IN  /\ n \in 0..Len(tiles)
             /\ n > 0 => ~Over(tiles, n, by)
             /\ n < Len(tiles) => Over(tiles, n + 1, by) \/ (n > 0 /\ Enough(tiles, n, by))
             /\ \A m \in 1..(n - 1) : ~Enough(tiles, m, by)
<1> DEFINE stops == Stops(tiles, by)
           first == Min(stops)
           n == CutOff(tiles, by)
           len == Len(tiles)
<1>1. \A i : i \in stops <=> i \in 1..len /\ (Over(tiles, i, by) \/ Enough(tiles, i, by))
  BY DEF Stops
<1>2. n = IF stops = {} THEN len ELSE IF Over(tiles, first, by) THEN first - 1 ELSE first
  BY DEF CutOff
<1>3. len \in Nat
  OBVIOUS
<1> HIDE DEF stops, n, len
<1>4. stops \subseteq Nat
  BY <1>1
<1>5. CASE stops = {}
  BY <1>1, <1>2, <1>3, <1>5 DEF n, len
<1>6. CASE stops # {}
  <2>1. first \in stops /\ \A x \in stops : first <= x
    BY <1>4, <1>6, MinOfNaturals
  <2> HIDE DEF first
  <2>2. first \in 1..len /\ (Over(tiles, first, by) \/ Enough(tiles, first, by))
    BY <1>1, <2>1
  <2>3. \A i \in 1..(first - 1) : ~Over(tiles, i, by) /\ ~Enough(tiles, i, by)
    <3>1. TAKE i \in 1..(first - 1)
    <3>2. i \in 1..len /\ ~(first <= i)
      BY <1>3, <2>2
    <3> QED
      BY <1>1, <2>1, <3>2
  <2>4. CASE Over(tiles, first, by)
    <3>1. n = first - 1 /\ n + 1 = first
      BY <1>2, <1>6, <2>2, <2>4
    <3> QED
      BY <1>3, <2>2, <2>3, <2>4, <3>1 DEF n, len
  <2>5. CASE ~Over(tiles, first, by)
    <3>1. n = first
      BY <1>2, <1>6, <2>5
    <3> QED
      BY <1>3, <2>2, <2>3, <2>5, <3>1 DEF n, len
  <2> QED
    BY <2>4, <2>5
<1> QED
  BY <1>5, <1>6

LEMMA SortedIsSequence ==
  ASSUME NEW C, Distinct(C)
  PROVE  /\ Len(Sorted(C)) = Cardinality(C) /\ Cardinality(C) \in Nat
         /\ DOMAIN Sorted(C) = 1..Len(Sorted(C))
<1>1. Cardinality(C) \in Nat
  BY SortedByRank
<1>2. DOMAIN Sorted(C) = 1..Cardinality(C)
  BY DEF Sorted
<1>3. Len(Sorted(C)) = Cardinality(C)
  BY <1>1 DEF Sorted
<1> QED
  BY <1>1, <1>2, <1>3

-----------------------------------------------------------------------------
(* The demand, and the curve of what covers how much of it.                *)

LEMMA DemandIsSum ==
  ASSUME IsFiniteSet(DOMAIN cells)
  PROVE  DemandInScope = DemandOf(cells)
<1> DEFINE S == DOMAIN cells
           f == [k \in S |-> cells[k].freq]
           Reckoned(g) == g = [s \in SUBSET S |-> IF s = {} THEN 0
                                ELSE cells[AnyOf(s)].freq + g[s \ {AnyOf(s)}]]
<1>1. \A s \in SUBSET S : s # {} => f[AnyOf(s)] = cells[AnyOf(s)].freq
  BY AnyOfIsOne
<1>2. DemandInScope = (CHOOSE g : Reckoned(g))[S]
  BY DEF DemandInScope, MapThenSumSet, MapThenFoldSet, AnyOf
<1>3. ASSUME NEW g PROVE Sums(g, f, S) <=> Reckoned(g)
  <2> HIDE DEF f
  <2> QED
    BY <1>1 DEF Sums
<1> HIDE DEF Reckoned, f
<1>4. PICK h : Sums(h, f, S) /\ DemandInScope = h[S]
  BY <1>2, <1>3, SumsExist
<1>5. PICK g : Sums(g, f, S) /\ Sum(f, S) = g[S]
  BY SumsExist, SumByChoice
<1> QED
  BY <1>4, <1>5, SumsOfParts, S \in SUBSET S DEF f, DemandOf

LEMMA SeenIsSum ==
  ASSUME IsFiniteSet(DOMAIN cells)
  PROVE  Observed(CellCosts) = SeenIn(cells)
<1> DEFINE S == DOMAIN cells
           f == [k \in S |-> cells[k].observed]
           costs == CellCosts
           Reckoned(g) == g = [s \in SUBSET S |-> IF s = {} THEN 0
                                ELSE costs[AnyOf(s)].observed + g[s \ {AnyOf(s)}]]
<1>1. DOMAIN costs = S /\ \A k \in S : costs[k].observed = cells[k].observed
  BY DEF CellCosts
<1> HIDE DEF costs
<1>2. \A s \in SUBSET S : s # {} => f[AnyOf(s)] = costs[AnyOf(s)].observed
  BY <1>1, AnyOfIsOne
<1>3. Observed(costs) = (CHOOSE g : Reckoned(g))[S]
  BY <1>1 DEF Observed, MapThenSumSet, MapThenFoldSet, AnyOf
<1>4. ASSUME NEW g PROVE Sums(g, f, S) <=> Reckoned(g)
  <2> HIDE DEF f
  <2> QED
    BY <1>2 DEF Sums
<1> HIDE DEF Reckoned, f
<1>5. PICK h : Sums(h, f, S) /\ Observed(costs) = h[S]
  BY <1>3, <1>4, SumsExist
<1>6. PICK g : Sums(g, f, S) /\ Sum(f, S) = g[S]
  BY SumsExist, SumByChoice
<1> QED
  BY <1>5, <1>6, SumsOfParts, S \in SUBSET S DEF f, SeenIn, costs

LEMMA AskedIsSum ==
  ASSUME NEW tiles, NEW n \in Nat
  PROVE  SumOf(tiles, n, "req") = Asked(tiles, n)
<1> DEFINE S == 1..n
           f == [i \in S |-> tiles[i].req]
           sum == SumOf(tiles, n, "req")
           Reckoned(g) == g = [s \in SUBSET S |-> IF s = {} THEN 0
                                ELSE tiles[AnyOf(s)]["req"] + g[s \ {AnyOf(s)}]]
<1>1. \A s \in SUBSET S : s # {} => f[AnyOf(s)] = tiles[AnyOf(s)].req
  BY AnyOfIsOne
<1>2. sum = (CHOOSE g : Reckoned(g))[S]
  BY DEF SumOf, MapThenSumSet, MapThenFoldSet, AnyOf
<1>3. IsFiniteSet(S)
  BY FS_Interval
<1> HIDE DEF sum
<1>4. ASSUME NEW g PROVE Sums(g, f, S) <=> Reckoned(g)
  <2> HIDE DEF f, S
  <2> QED
    BY <1>1 DEF Sums
<1> HIDE DEF Reckoned, f, S
<1>5. PICK h : Sums(h, f, S) /\ sum = h[S]
  BY <1>2, <1>3, <1>4, SumsExist
<1>6. PICK g : Sums(g, f, S) /\ Sum(f, S) = g[S]
  BY <1>3, SumsExist, SumByChoice
<1>7. sum = Sum(f, S)
  BY <1>3, <1>5, <1>6, SumsOfParts, S \in SUBSET S
<1> QED
  BY <1>7 DEF f, S, sum, Asked

LEMMA AskedIsNatural ==
  ASSUME NEW tiles, NEW n \in Nat, \A i \in 1..n : tiles[i].req \in Nat
  PROVE  SumOf(tiles, n, "req") \in Nat
<1> DEFINE S == 1..n
           f == [i \in S |-> tiles[i].req]
<1>1. IsFiniteSet(S) /\ \A i \in S : f[i] \in Nat
  BY FS_Interval
<1>2. Asked(tiles, n) = Sum(f, S)
  BY DEF Asked
<1> HIDE DEF f, S
<1>3. Sum(f, S) \in Nat
  BY <1>1, SumOfNaturals
<1> QED
  BY <1>2, <1>3, AskedIsSum

\* With a coverage for the only lever, the cut is where the curve reaches it.
LEMMA CutByCoverage ==
  ASSUME NEW tiles, Len(tiles) \in Nat, DOMAIN tiles = 1..Len(tiles),
         \A i \in 1..Len(tiles) : tiles[i].req \in Nat,
         SumOf(tiles, Len(tiles), "req") # 0, NEW level \in 0..100
  PROVE  CutOff(tiles, [seconds |-> None, budget |-> None, coverage |-> level])
           = Min({i \in 1..Len(tiles) : Reaches(tiles, i, level)})
<1> DEFINE target == [seconds |-> None, budget |-> None, coverage |-> level]
           len == Len(tiles)
           total == SumOf(tiles, len, "req")
           R == {i \in 1..len : Reaches(tiles, i, level)}
<1>1. level # None
  BY PlannerAssumption
<1>2. \A n : ~Over(tiles, n, target)
  BY DEF Over
<1>3. \A n : Enough(tiles, n, target) <=> Reaches(tiles, n, level)
  BY <1>1 DEF Enough, Reaches
<1>4. Stops(tiles, target) = R
  BY <1>2, <1>3 DEF Stops
<1>5. total \in Nat \ {0} /\ len \in Nat
  BY AskedIsNatural
<1>6. len # 0
  <2>1. SUFFICES ASSUME len = 0 PROVE FALSE
    OBVIOUS
  <2>2. [i \in 1..0 |-> tiles[i].req] = <<>> /\ 1..0 = {}
    OBVIOUS
  <2>3. total = Sum([i \in 1..0 |-> tiles[i].req], 1..0)
    BY <2>1, AskedIsSum DEF Asked
  <2>4. total = 0
    BY <2>2, <2>3, SumOfNone
  <2> QED
    BY <1>5, <2>4
<1>7. len \in R
  <2> HIDE DEF total
  <2>1. level * total <= 100 * total
    BY <1>5, MulMonotone
  <2>2. total * 100 >= level * total
    BY <1>5, <2>1
  <2> QED
    BY <1>5, <1>6, <2>2 DEF Reaches, total
<1>8. CutOff(tiles, target) = Min(R)
  <2> HIDE DEF R, target
  <2> QED
    BY <1>2, <1>4, <1>7 DEF CutOff
<1> QED
  BY <1>8

-----------------------------------------------------------------------------
(* The function as a whole.                                                *)

\* What a plan of the first n of what was found says of the input and the cells.
Told(inp, cs, f, res, n) ==
  /\ res.entries = EntriesOf(f.order, n)
  /\ res.stats.coverage = Ratio(SumOf(f.order, n, "req"), DemandOf(cs))
  /\ res.stats.unwarmable = f.unwarmable /\ res.stats.too_fast = f.tooFast
  /\ res.estimate.no_warm.affected = Max({0, SeenIn(cs) - n})
  /\ res.estimate.marginal = Marginal(inp.manifest.cost, Pricing, f.order)

\* Inductive: what is collected is what was read, whatever came first; what is found
\* is a good order of it, each candidate worth what was read of it; and the plan is
\* of the first of them, cut tightly.
PlannerInv ==
  /\ Collected /\ Gathered
  /\ stage \in {"called", "collecting", "sorted", "done",
                "NoManifest", "EpochMissing", "NoMetaUrl", "BadTime"}
  /\ stage = "collecting" => input.manifest # None /\ ~EpochMissing(input.manifest, input.epoch)
  /\ ~Planned => found.order = <<>>
  /\ Planned => \E C : GoodOrder(input, found, C) /\ Weighed(input, cells, C)
  /\ stage # "done" => result = None
  /\ stage = "done" => \E n \in 0..Len(found.order) : Told(input, cells, found, result, n)
  /\ CutIsTight

LEMMA LenOfEntries ==
  ASSUME NEW tiles, NEW n \in Nat
  PROVE  Len(EntriesOf(tiles, n)) = n /\ DOMAIN EntriesOf(tiles, n) = 1..n
BY DEF EntriesOf

LEMMA ExpandStep ==
  ASSUME PlannerInv, Expand
  PROVE  PlannerInv'
<1>1. /\ stage = "collecting" /\ unread = {} /\ UNCHANGED <<input, unread, cells, result>>
      /\ Collected /\ Gathered
  BY DEF PlannerInv, Expand
<1>2. Collected' /\ Gathered'
  BY <1>1 DEF Collected, InputOK, Gathered
<1>3. result' = None
  BY <1>1 DEF PlannerInv
<1>4. CASE \E k \in Slow : Unnamed(k[1])
  <2>1. stage' = "NoMetaUrl" /\ found' = found
    BY <1>4 DEF Expand, Slow, Fast
  <2>2. found.order = <<>>
    BY <1>1 DEF PlannerInv, Planned
  <2> QED
    BY <1>2, <1>3, <2>1, <2>2 DEF PlannerInv, Planned, CutIsTight
<1>5. CASE ~(\E k \in Slow : Unnamed(k[1]))
  <2>1. /\ stage' = "sorted"
        /\ found' = [order |-> Sorted(Promoted(Expanded)), unwarmable |-> TilesIn(Skipped),
                     tooFast |-> TilesIn(Fast)]
    BY <1>5 DEF Expand, Slow, Fast, Skipped, Expanded
  <2>2. CanExpand
    BY <1>1, <1>5 DEF CanExpand, PlannerInv
  <2>3. GoodOrder(input, found', Promoted(Expanded))
    BY <2>1, <2>2, ExpandsWell
  <2>4. Weighed(input, cells, Promoted(Expanded))
    BY <1>1, <2>2, ExpandedAreWeighed
  <2>5. \E C : GoodOrder(input', found', C) /\ Weighed(input', cells', C)
    BY <1>1, <2>3, <2>4
  <2> QED
    BY <1>2, <1>3, <2>1, <2>5 DEF PlannerInv, Planned, CutIsTight
<1> QED
  BY <1>4, <1>5

LEMMA PlanTells ==
  ASSUME Collected, NEW n
  PROVE  Told(input, cells, found, PlanOf(found.order, n), n)
<1>1. DemandInScope = DemandOf(cells) /\ Observed(CellCosts) = SeenIn(cells)
  BY FewCells, DemandIsSum, SeenIsSum
<1> QED
  BY <1>1 DEF Told, PlanOf, EstimateOf, NoWarmCost, Uncovered

LEMMA CutStep ==
  ASSUME PlannerInv, Cut
  PROVE  PlannerInv'
<1>1. /\ stage = "sorted" /\ UNCHANGED <<input, unread, cells, found>>
      /\ Collected /\ Gathered
  BY DEF PlannerInv, Cut
<1>2. Collected' /\ Gathered'
  BY <1>1 DEF Collected, InputOK, Gathered
<1>3. PICK C : GoodOrder(input, found, C) /\ Weighed(input, cells, C)
  BY <1>1 DEF PlannerInv, Planned
<1>4. GoodOrder(input', found', C) /\ Weighed(input', cells', C)
  BY <1>1, <1>3
<1>5. CASE BadTime
  <2>1. stage' = "BadTime" /\ result' = result
    BY <1>5 DEF Cut
  <2> QED
    BY <1>1, <1>2, <1>4, <2>1 DEF PlannerInv, Planned, CutIsTight
<1>6. CASE ~BadTime
  <2> DEFINE n == CutOff(found.order, Levers)
             tiles == found.order
  <2>1. stage' = "done" /\ result' = PlanOf(tiles, n)
    BY <1>6 DEF Cut
  <2>2. result'.entries = EntriesOf(tiles, n)
    BY <2>1 DEF PlanOf
  <2>3. Len(tiles) \in Nat /\ DOMAIN tiles = 1..Len(tiles)
    BY <1>3, SortedIsSequence DEF GoodOrder
  <2>4. /\ n \in 0..Len(tiles)
        /\ n > 0 => ~Over(tiles, n, Levers)
        /\ n < Len(tiles) => Over(tiles, n + 1, Levers) \/ (n > 0 /\ Enough(tiles, n, Levers))
        /\ \A m \in 1..(n - 1) : ~Enough(tiles, m, Levers)
    BY <2>3, CutsTightly
  <2> HIDE DEF n
  <2>5. n \in Nat /\ Len(result'.entries) = n
    BY <2>2, <2>3, <2>4, LenOfEntries
  <2>6. Levers' = Levers
    BY <1>1 DEF Levers
  <2>7. CutIsTight'
    BY <1>1, <2>1, <2>4, <2>5, <2>6 DEF CutIsTight, Over, Enough
  <2>8. Told(input, cells, found, result', n)
    BY <1>1, <2>1, PlanTells
  <2>9. \E k \in 0..Len(found'.order) : Told(input', cells', found', result', k)
    BY <1>1, <2>4, <2>8
  <2> QED
    BY <1>2, <1>4, <2>1, <2>7, <2>9 DEF PlannerInv, Planned
<1> QED
  BY <1>5, <1>6

LEMMA PlannerInvAlways ==
  Spec => []PlannerInv
<1>1. ASSUME Init, Collected, Gathered PROVE PlannerInv
  BY <1>1 DEF Init, PlannerInv, Planned, CutIsTight
<1>2. ASSUME PlannerInv, [Next]_vars, Collected', Gathered' PROVE PlannerInv'
  <2>1. CASE Check
    BY <1>2, <2>1 DEF Check, PlannerInv, Planned, CutIsTight
  <2>2. CASE \E r \in Records : Collect(r)
    <3>1. UNCHANGED <<input, found, result, stage>> /\ stage = "collecting"
      BY <2>2 DEF Collect
    <3> QED
      BY <1>2, <3>1 DEF PlannerInv, Planned, CutIsTight
  <2>3. CASE Expand
    BY <1>2, <2>3, ExpandStep
  <2>4. CASE Cut
    BY <1>2, <2>4, CutStep
  <2>5. CASE UNCHANGED vars
    <3>1. UNCHANGED <<input, cells, found, result, stage>>
      BY <2>5 DEF vars
    <3>2. Levers' = Levers
      BY <3>1 DEF Levers
    <3>3. CutIsTight'
      BY <1>2, <3>1, <3>2 DEF PlannerInv, CutIsTight, Over, Enough
    <3> QED
      BY <1>2, <3>1, <3>3 DEF PlannerInv, Planned
  <2> QED
    BY <1>2, <2>1, <2>2, <2>3, <2>4, <2>5 DEF Next
<1> QED
  BY <1>1, <1>2, CollectedAlways, GatheredAlways, PTL DEF Spec

\* The plan fits the deadline and the budget, and what is cut is cut because of one
\* of the three levers, whatever the digests (planner.rs, cut_off).
THEOREM CutsAreTight ==
  Spec => []CutIsTight
<1>1. PlannerInv => CutIsTight
  BY DEF PlannerInv
<1> QED
  BY <1>1, PlannerInvAlways, PTL

LEMMA DeadOfInput ==
  Dead = DeadIn(input)
BY DEF Dead, DeadIn, Naming

\* The tile a candidate was made for.
LEMMA CandidatesTile ==
  ASSUME InputOK, NEW c, NEW t \in DeadIn(input), OfTile(c, t)
  PROVE  TileOfCandidate(c) = t
<1>1. t \in Tiles /\ t.kind = c.kind /\ t.id = c.id
  BY TileOfDead DEF OfTile
<1>2. \A u \in Tiles : u.kind = c.kind /\ u.id = c.id => u = t
  BY <1>1, PlannerAssumption
<1> QED
  BY <1>1, <1>2 DEF TileOfCandidate

\* What stands in the order is the candidates, each in its place.
LEMMA OrderOfCandidates ==
  ASSUME PlannerInv, Planned, NEW C, GoodOrder(input, found, C)
  PROVE  /\ InputOK /\ Candidates = C
         /\ Len(found.order) = Cardinality(C) /\ Cardinality(C) \in Nat
         /\ DOMAIN found.order = 1..Cardinality(C)
         /\ \A i \in DOMAIN found.order : found.order[i] \in C /\ Rank(C, found.order[i]) = i - 1
         /\ \A c \in C : /\ Rank(C, c) + 1 \in DOMAIN found.order
                         /\ found.order[Rank(C, c) + 1] = c
<1>1. InputOK /\ Distinct(C) /\ found.order = Sorted(C)
  BY DEF PlannerInv, Collected, GoodOrder
<1>2. /\ Len(Sorted(C)) = Cardinality(C) /\ Cardinality(C) \in Nat
      /\ DOMAIN Sorted(C) = 1..Cardinality(C)
  BY <1>1, SortedIsSequence
<1>3. /\ \A i \in 1..Cardinality(C) : Sorted(C)[i] \in C /\ Rank(C, Sorted(C)[i]) = i - 1
      /\ \A c \in C : Sorted(C)[Rank(C, c) + 1] = c /\ Rank(C, c) \in 0..(Cardinality(C) - 1)
  BY <1>1, SortedByRank
<1>4. \A c \in C : Rank(C, c) + 1 \in 1..Cardinality(C)
  BY <1>2, <1>3
<1>5. ToSet(Sorted(C)) = C
  BY <1>2, <1>3, <1>4 DEF ToSet
<1> QED
  BY <1>1, <1>2, <1>3, <1>4, <1>5 DEF Candidates

\* Every tile that died is a candidate or counted among those left out, and no
\* other is: touches_cell drops none of the cells that have one (planner.rs,
\* collect_cells), and expand, the promotion and the sort lose and double none.
THEOREM NoDeadTileIsLost ==
  Spec => []DeadIsCandidateOrCounted
<1>1. ASSUME PlannerInv PROVE DeadIsCandidateOrCounted
  <2>1. SUFFICES ASSUME Planned
                 PROVE  /\ {TileOfCandidate(c) : c \in Candidates} \subseteq Dead
                        /\ Len(found.order) + found.unwarmable + found.tooFast = Cardinality(Dead)
    BY DEF DeadIsCandidateOrCounted
  <2>2. PICK C : GoodOrder(input, found, C)
    BY <1>1, <2>1 DEF PlannerInv
  <2>3. InputOK /\ Candidates = C /\ Len(found.order) = Cardinality(C)
    BY <1>1, <2>1, <2>2, OrderOfCandidates
  <2>4. \A c \in C : TileOfCandidate(c) \in DeadIn(input)
    BY <2>2, <2>3, CandidatesTile DEF GoodOrder
  <2>5. Len(found.order) + found.unwarmable + found.tooFast = Cardinality(DeadIn(input))
    BY <2>2, <2>3 DEF GoodOrder
  <2> QED
    BY <2>3, <2>4, <2>5, DeadOfInput
<1> QED
  BY <1>1, PlannerInvAlways, PTL

\* The highest of some numbers, or nothing.
LEMMA HighestScore ==
  ASSUME NEW tiles, NEW n \in Nat, \A i \in 1..n : tiles[i].score \in Nat
  PROVE  LET S == {0} \union {tiles[i].score : i \in {j \in 1..n : Placed(tiles[j].kind)}}
         IN  Max(S) \in Nat
<1> DEFINE I == {j \in 1..n : Placed(tiles[j].kind)}
           T == {tiles[i].score : i \in I}
           f == [i \in I |-> tiles[i].score]
           S == {0} \union T
<1>1. IsFiniteSet(I)
  <2>1. IsFiniteSet(1..n) /\ I \subseteq 1..n
    BY FS_Interval
  <2> HIDE DEF I
  <2> QED
    BY <2>1, FS_Subset
<1>2. f \in Surjection(I, T)
  <2>1. f \in [I -> T] /\ \A x \in T : \E i \in I : f[i] = x
    OBVIOUS
  <2> HIDE DEF f, T, I
  <2> QED
    BY <2>1 DEF Surjection
<1>3. T \subseteq Nat
  OBVIOUS
<1> HIDE DEF T, f, I
<1>4. IsFiniteSet(T)
  BY <1>1, <1>2, FS_Surjection
<1>5. IsFiniteSet(S)
  BY <1>4, FS_Singleton, FS_Union
<1>6. S \subseteq Nat /\ S \subseteq Int /\ S # {}
  BY <1>3
<1> HIDE DEF S
<1>7. Max(S) \in S
  BY <1>5, <1>6, MaxOfFinite
<1> QED
  BY <1>6, <1>7 DEF S, T, I

\* Of two quotients by one number, that of the greater part is no less, and none is
\* more than one.
LEMMA RatiosCompare ==
  ASSUME NEW a \in Nat, NEW b \in Nat, NEW w \in Nat
  PROVE  /\ a >= b => AtMost(Ratio(b, w), Ratio(a, w))
         /\ AtMost(Ratio(a, w), <<1, 1>>)
<1>1. CASE w = 0
  BY <1>1 DEF Ratio, AtMost
<1>2. CASE w > 0
  <2> DEFINE p == Min({a, w})
             q == Min({b, w})
  <2>1. p \in Nat /\ p <= w /\ p <= a /\ (p = a \/ p = w)
    BY MinOfNaturals
  <2>2. q \in Nat /\ q <= w /\ q <= b /\ (q = b \/ q = w)
    BY MinOfNaturals
  <2>3. Ratio(a, w) = <<p, w>> /\ Ratio(b, w) = <<q, w>>
    BY <1>2 DEF Ratio
  <2> HIDE DEF p, q
  <2>4. a >= b => q <= p
    BY <2>1, <2>2
  <2>5. q <= p => q * w <= p * w
    BY <2>1, <2>2
  <2>6. p * 1 <= w * 1
    BY <2>1
  <2>7. AtMost(<<q, w>>, <<p, w>>) <=> q * w <= p * w
    BY DEF AtMost
  <2>8. AtMost(<<p, w>>, <<1, 1>>) <=> p * 1 <= w * 1
    BY DEF AtMost
  <2> QED
    BY <2>3, <2>4, <2>5, <2>6, <2>7, <2>8
<1> QED
  BY <1>1, <1>2

LEMMA PriorityOf ==
  ASSUME NEW tiles, NEW n \in Nat, \A i \in 1..n : tiles[i].score \in Nat
  PROVE  \E top \in Nat : \A i \in 1..n :
           EntriesOf(tiles, n)[i].priority =
             IF Placed(tiles[i].kind) THEN Ratio(tiles[i].score, top) ELSE <<1, 1>>
<1> DEFINE top == Max({0} \union {tiles[i].score : i \in {j \in 1..n : Placed(tiles[j].kind)}})
<1>1. top \in Nat
  BY HighestScore
<1>2. \A i \in 1..n : EntriesOf(tiles, n)[i].priority =
                        IF Placed(tiles[i].kind) THEN Ratio(tiles[i].score, top) ELSE <<1, 1>>
  BY DEF EntriesOf
<1> QED
  BY <1>1, <1>2

\* Where no tile at the root stands beside one at the last level: documents without
\* coordinates, and where zoom means resolution every ancestor that died, come before
\* what needs them, and the priorities fall with the order (promote_ancestors, sort).
THEOREM RescuersAreFirst ==
  ASSUME NoFullShift
  PROVE  Spec => []RescuersFirst
<1>1. ASSUME PlannerInv PROVE RescuersFirst
  <2>1. SUFFICES ASSUME stage = "done" PROVE RescuersFirst
    BY DEF RescuersFirst
  <2>2. Planned
    BY <2>1 DEF Planned
  <2>3. PICK C : GoodOrder(input, found, C)
    BY <1>1, <2>2 DEF PlannerInv
  <2> DEFINE order == found.order
             size == Cardinality(C)
  <2>4. /\ InputOK /\ Candidates = C /\ Len(order) = size /\ size \in Nat /\ DOMAIN order = 1..size
        /\ \A i \in 1..size : order[i] \in C /\ Rank(C, order[i]) = i - 1
        /\ \A c \in C : Rank(C, c) + 1 \in 1..size /\ order[Rank(C, c) + 1] = c
    BY <1>1, <2>2, <2>3, OrderOfCandidates
  <2>5. Distinct(C) /\ \A c, d \in C : Before(c, d) => Rank(C, c) < Rank(C, d)
    BY <2>3, SortedByRank DEF GoodOrder
  <2>6. PICK n \in 0..Len(order) : result.entries = EntriesOf(order, n)
    BY <1>1, <2>1 DEF PlannerInv, Told
  <2>7. n \in Nat /\ n <= size /\ DOMAIN result.entries = 1..n
    BY <2>4, <2>6, LenOfEntries
  <2>8. \A c \in C : IsCandidate(c)
    BY <2>5 DEF Distinct
  <2> HIDE DEF order, size
  <2>9. ASSUME NEW i \in 1..n, NEW a \in C, Before(a, order[i])
        PROVE  \E j \in 1..(i - 1) : order[j] = a
    <3> DEFINE j == Rank(C, a) + 1
    <3>1. i \in 1..size /\ order[i] \in C /\ Rank(C, order[i]) = i - 1
      BY <2>4, <2>7
    <3>2. j \in 1..size /\ order[j] = a /\ Rank(C, a) < i - 1
      BY <2>4, <2>5, <2>9, <3>1
    <3>3. j \in 1..(i - 1)
      BY <2>4, <3>1, <3>2
    <3> QED
      BY <3>2, <3>3
  <2>10. ASSUME NEW i \in 1..n, NEW a \in C,
                LET t == TileOfCandidate(order[i])
                    s == TileOfCandidate(a)
                IN  \/ Placed(t.kind) /\ ~Placed(s.kind)
                    \/ /\ input.manifest.resolution /\ Placed(t.kind) /\ Placed(s.kind)
                       /\ Parses(s.qk) /\ Parses(t.qk) /\ IsStrictPrefix(s.qk, t.qk)
         PROVE  Before(a, order[i])
    <3> DEFINE c == order[i]
    <3>1. c \in C /\ a \in C
      BY <2>4, <2>7
    <3>2. PICK t \in DeadIn(input), s \in DeadIn(input) : OfTile(c, t) /\ OfTile(a, s)
      BY <2>3, <3>1 DEF GoodOrder
    <3>3. TileOfCandidate(c) = t /\ TileOfCandidate(a) = s
      BY <2>4, <3>2, CandidatesTile
    <3>4. c.kind = t.kind /\ a.kind = s.kind
      BY <3>2 DEF OfTile
    <3>5. c.score \in Nat /\ a.score \in Nat
      BY <2>8, <3>1 DEF IsCandidate
    <3> HIDE DEF c
    <3>6. CASE Placed(t.kind) /\ ~Placed(s.kind)
      BY <3>4, <3>6 DEF Before, c
    <3>7. CASE /\ input.manifest.resolution /\ Placed(t.kind) /\ Placed(s.kind)
               /\ Parses(s.qk) /\ Parses(t.qk) /\ IsStrictPrefix(s.qk, t.qk)
      <4>1. Ancestor(a, c)
        BY <2>4, <3>2, <3>7, AncestorByTexts
      <4>2. a.score >= c.score
        BY <2>3, <3>1, <3>7, <4>1 DEF GoodOrder
      <4>3. a.qk = FromStr(s.qk) /\ c.qk = FromStr(t.qk) /\ a.qk # None /\ c.qk # None /\ a.qk # c.qk
        BY <3>2, <3>7, <4>1 DEF OfTile, QkOf, Ancestor
      <4>4. s.qk \in Seq(0..3) /\ t.qk \in Seq(0..3)
        BY <2>4, TileOfDead
      <4>5. Precedes(a.qk, c.qk)
        BY <3>7, <4>3, <4>4, OrderReadsAlike DEF ReadsBefore
      <4> QED
        BY <3>4, <3>5, <3>7, <4>2, <4>3, <4>5 DEF Before, c
    <3> QED
      BY <2>10, <3>3, <3>6, <3>7 DEF c
  <2>11. ASSUME NEW i \in 1..n, NEW j \in 1..n, i < j
         PROVE  AtMost(result.entries[j].priority, result.entries[i].priority)
    <3>1. order[i] \in C /\ order[j] \in C /\ Rank(C, order[i]) = i - 1 /\ Rank(C, order[j]) = j - 1
      BY <2>4, <2>7
    <3>2. ~Before(order[j], order[i])
      <4>1. ~(j - 1 < i - 1)
        BY <2>7, <2>11
      <4> QED
        BY <2>5, <3>1, <4>1
    <3>3. \A k \in 1..n : order[k].score \in Nat
      BY <2>4, <2>7, <2>8 DEF IsCandidate
    <3>4. PICK top \in Nat : \A k \in 1..n :
            result.entries[k].priority =
              IF Placed(order[k].kind) THEN Ratio(order[k].score, top) ELSE <<1, 1>>
      <4>1. \E top \in Nat : \A k \in 1..n :
              EntriesOf(order, n)[k].priority =
                IF Placed(order[k].kind) THEN Ratio(order[k].score, top) ELSE <<1, 1>>
        BY <2>7, <3>3, PriorityOf, Zenon
      <4> QED
        BY <2>6, <4>1, Zenon
    <3>5. CASE ~Placed(order[i].kind) /\ ~Placed(order[j].kind)
      BY <3>4, <3>5 DEF AtMost
    <3>6. CASE ~Placed(order[i].kind) /\ Placed(order[j].kind)
      BY <3>3, <3>4, <3>6, RatiosCompare
    <3>7. CASE Placed(order[i].kind) /\ ~Placed(order[j].kind)
      BY <3>2, <3>7 DEF Before
    <3>8. CASE Placed(order[i].kind) /\ Placed(order[j].kind)
      <4>1. order[i].score >= order[j].score
        BY <3>2, <3>3, <3>8 DEF Before
      <4> QED
        BY <3>3, <3>4, <3>8, <4>1, RatiosCompare
    <3> QED
      BY <3>5, <3>6, <3>7, <3>8
  <2> QED
    BY <2>4, <2>7, <2>9, <2>10, <2>11 DEF RescuersFirst, order
<1> QED
  BY <1>1, PlannerInvAlways, PTL

\* Every variable keeps its shape, and no URL is asked for with a placeholder left
\* empty, whatever the manifest's templates are (check_epochs, url_for).
THEOREM PlannerTypeCorrect ==
  Spec => []TypeOK
<1>1. ASSUME PlannerInv PROVE TypeOK
  <2>1. Collected /\ InputOK
    BY <1>1 DEF PlannerInv, Collected
  <2>2. DOMAIN cells \subseteq {<<r.kind, r.cell>> : r \in input.digests}
    BY <2>1 DEF Collected, Taken, CellKey
  <2>3. ASSUME NEW k \in DOMAIN cells
        PROVE  /\ cells[k].freq \in Nat /\ cells[k].observed \in Nat /\ cells[k].newest \in 0..Horizon
               /\ DOMAIN cells[k].tiles \subseteq {<<t.qk, t.id>> : t \in Tiles}
    <3>1. CellOK(cells[k])
      BY <2>1 DEF Collected
    <3>2. ASSUME NEW t \in DOMAIN cells[k].tiles PROVE t \in {<<u.qk, u.id>> : u \in Tiles}
      <4>1. <<k, t>> \in PairsIn(DOMAIN cells)
        BY DEF PairsIn
      <4>2. IsPair(<<k, t>>) /\ TileAt(<<k, t>>) \in Tiles
        BY <2>1, <4>1, PairsArePairs DEF DeadIn
      <4>3. t = <<TileAt(<<k, t>>).qk, TileAt(<<k, t>>).id>>
        BY <4>2 DEF TileAt, IsPair
      <4> QED
        BY <4>2, <4>3
    <3> QED
      BY <3>1, <3>2 DEF CellOK
  <2>4. ASSUME NEW i \in DOMAIN found.order
        PROVE  found.order[i].url.empty = {} /\ found.order[i].qk \in Some(Quadkeys)
    <3>1. Planned
      BY <1>1, <2>4 DEF PlannerInv
    <3>2. PICK C : GoodOrder(input, found, C)
      BY <1>1, <3>1 DEF PlannerInv
    <3>3. found.order[i] \in C
      BY <1>1, <3>1, <3>2, OrderOfCandidates
    <3>4. IsCandidate(found.order[i]) /\ found.order[i].url.empty = {}
      BY <3>2, <3>3 DEF GoodOrder, Distinct
    <3> QED
      BY <3>4 DEF IsCandidate, Formed, Some
  <2> QED
    BY <1>1, <2>1, <2>2, <2>3, <2>4 DEF TypeOK, PlannerInv, Collected, InputOK
<1> QED
  BY <1>1, PlannerInvAlways, PTL

\* A plan asked for a coverage on the curve, and nothing else, has the tiles, the cost
\* and the time the curve gives there (estimate.rs, marginal; planner.rs, cut_off).
THEOREM CurvesReadBack ==
  Spec => []CurveReadsBack
<1>1. ASSUME PlannerInv PROVE CurveReadsBack
  <2> DEFINE tiles == found.order
             cost == input.manifest.cost
             len == Len(tiles)
             total == SumOf(tiles, len, "req")
  <2>1. SUFFICES ASSUME stage = "done", NEW i \in DOMAIN result.estimate.marginal
                 PROVE  LET row == result.estimate.marginal[i]
                            target == [seconds |-> None, budget |-> None, coverage |-> row.coverage]
                            warm == PlanOf(tiles, CutOff(tiles, target)).estimate.warm
                        IN  <<warm.tiles, warm.usd, warm.wall>> = <<row.tiles, row.usd, row.wall>>
    BY DEF CurveReadsBack
  <2>2. PICK C : GoodOrder(input, found, C)
    BY <1>1, <2>1 DEF PlannerInv, Planned
  <2>3. len \in Nat /\ DOMAIN tiles = 1..len
    BY <2>2, SortedIsSequence DEF GoodOrder
  <2>4. \A j \in 1..len : tiles[j].req \in Nat
    <3>1. \A j \in DOMAIN tiles : tiles[j] \in C
      BY <1>1, <2>1, <2>2, OrderOfCandidates DEF Planned
    <3> QED
      BY <2>2, <2>3, <3>1 DEF GoodOrder, Distinct, IsCandidate
  <2>5. result.estimate.marginal = Marginal(cost, Pricing, tiles)
    BY <1>1, <2>1 DEF PlannerInv, Told
  <2> DEFINE row == result.estimate.marginal[i]
             level == Levels[i]
             n == Min({j \in 1..len : Reaches(tiles, j, level)})
             target == [seconds |-> None, budget |-> None, coverage |-> level]
  <2>6. total # 0 /\ i \in DOMAIN Levels
    <3>1. total # 0
      BY <2>1, <2>5 DEF Marginal
    <3> QED
      BY <2>1, <2>5, <3>1 DEF Marginal
  <2>7. row = [coverage |-> level, tiles |-> n, usd |-> Usd(cost, Pricing, tiles, n),
               wall |-> WallClock(cost, SumOf(tiles, n, "gen"), n)]
    <3> DEFINE RowAt(l) == LET m == Min({j \in 1..len : Reaches(tiles, j, Levels[l])})
                        IN  [coverage |-> Levels[l], tiles |-> m, usd |-> Usd(cost, Pricing, tiles, m),
                             wall |-> WallClock(cost, SumOf(tiles, m, "gen"), m)]
    <3>1. Marginal(cost, Pricing, tiles) = [l \in DOMAIN Levels |-> RowAt(l)]
      BY <2>6 DEF Marginal
    <3>2. row = RowAt(i)
      <4> HIDE DEF RowAt
      <4> QED
        BY ONLY <2>5, <2>6, <3>1
    <3> QED
      BY <3>2
  <2>8. level \in 0..100
    <3>1. DOMAIN Levels = 1..4
      BY DEF Levels
    <3>2. i = 1 \/ i = 2 \/ i = 3 \/ i = 4
      BY <2>6, <3>1
    <3>3. Levels[1] = 50 /\ Levels[2] = 80 /\ Levels[3] = 90 /\ Levels[4] = 95
      BY DEF Levels
    <3> QED
      BY <3>2, <3>3
  <2> HIDE DEF level
  <2>9. CutOff(tiles, target) = n
    BY <2>3, <2>4, <2>6, <2>8, CutByCoverage
  <2> HIDE DEF tiles, n
  <2>10. LET warm == PlanOf(tiles, n).estimate.warm
         IN  /\ warm.tiles = n /\ warm.usd = Usd(cost, Pricing, tiles, n)
             /\ warm.wall = WallClock(cost, SumOf(tiles, n, "gen"), n)
    BY DEF PlanOf, EstimateOf, WarmCost
  <2> QED
    BY <2>7, <2>9, <2>10
<1> QED
  BY <1>1, PlannerInvAlways, PTL

-----------------------------------------------------------------------------
(* What a candidate is worth, and what is left out.                        *)

\* The days of the records of a cell tell them apart: none of day 0 stands beside
\* one whose window cannot be read, which counts as of day 0 (planner.rs:339).
DaysTellApart ==
  \A r, s \in Records :
    <<r.tileset, r.kind, r.cell, DayOf(r.window)>> = <<s.tileset, s.kind, s.cell, DayOf(s.window)>>
      => r = s

LEMMA WorthIsSum ==
  ASSUME InputOK, NEW t
  PROVE  MapThenSumSet(LAMBDA r : r.top[<<t.qk, t.id>>] * Weight(r), Naming(t))
           = Sum(AskedOf(input, <<t.qk, t.id>>), NamingIn(input, t))
<1> DEFINE u == <<t.qk, t.id>>
           S == NamingIn(input, t)
           f == AskedOf(input, u)
           sum == MapThenSumSet(LAMBDA r : r.top[u] * Weight(r), Naming(t))
           Reckoned(g) == g = [s \in SUBSET S |-> IF s = {} THEN 0
                                ELSE AnyOf(s).top[u] * Weight(AnyOf(s)) + g[s \ {AnyOf(s)}]]
<1>1. Naming(t) = S /\ S \subseteq Records
  BY DEF Naming, NamingIn, InputOK
<1>2. \A r \in S : f[r] = r.top[u] * Weight(r)
  BY <1>1 DEF AskedOf, Weight, WeightOf, Age, AgeOf
<1>3. sum = (CHOOSE g : Reckoned(g))[S]
  BY <1>1 DEF MapThenSumSet, MapThenFoldSet, AnyOf
<1>4. IsFiniteSet(S)
  <2> HIDE DEF S
  <2> QED
    BY <1>1, FS_Subset, PlannerAssumption
<1> HIDE DEF f, S, sum
<1>5. \A s \in SUBSET S : s # {} => f[AnyOf(s)] = AnyOf(s).top[u] * Weight(AnyOf(s))
  BY <1>2, AnyOfIsOne
<1>6. ASSUME NEW g PROVE Sums(g, f, S) <=> Reckoned(g)
  BY <1>5 DEF Sums
<1> HIDE DEF Reckoned
<1>7. PICK h : Sums(h, f, S) /\ sum = h[S]
  BY <1>3, <1>4, <1>6, SumsExist
<1>8. PICK g : Sums(g, f, S) /\ Sum(f, S) = g[S]
  BY <1>4, SumsExist, SumByChoice
<1>9. sum = Sum(f, S)
  BY <1>4, <1>7, <1>8, SumsOfParts, S \in SUBSET S
<1> QED
  BY <1>9 DEF f, S, sum

\* What a candidate is worth depends on the records read, and not on which of them
\* came first (planner.rs, collect_cells: the requests added up, the freshest kept).
THEOREM ArrivalOrderDoesNotMatter ==
  ASSUME DaysTellApart
  PROVE  Spec => []ArrivalOrderIrrelevant
<1>1. ASSUME PlannerInv PROVE ArrivalOrderIrrelevant
  <2>1. SUFFICES ASSUME Planned, NEW c \in Candidates, NEW t, t = TileOfCandidate(c)
                 PROVE  /\ c.req = MapThenSumSet(LAMBDA r : r.top[<<t.qk, t.id>>] * Weight(r), Naming(t))
                        /\ c.gen = MeasuredOr(FreshestFor(t).p50, input.manifest.cost.default_gen)
    BY DEF ArrivalOrderIrrelevant
  <2>2. PICK C : GoodOrder(input, found, C) /\ Weighed(input, cells, C)
    BY <1>1, <2>1 DEF PlannerInv
  <2>3. InputOK /\ c \in C
    BY <1>1, <2>1, <2>2, OrderOfCandidates
  <2>4. PICK u \in DeadIn(input) : OfTile(c, u)
    BY <2>2, <2>3 DEF GoodOrder
  <2>5. u = t
    BY <2>1, <2>3, <2>4, CandidatesTile
  <2>6. Worth(input, c, t)
    BY <2>2, <2>3, <2>4, <2>5 DEF Weighed
  <2> DEFINE R == SharingIn(input, t)
  <2>7. PICK r \in R : Freshest(r, R) /\ c.gen = MeasuredOr(r.p50, input.manifest.cost.default_gen)
    BY <2>6 DEF Worth
  <2>8. \A s \in R : s \in Records /\ DayOf(s.window) \in 0..Horizon
    BY <2>3, DaysAreDays DEF SharingIn, InputOK
  <2>9. \A q, s \in R : <<q.tileset, q.kind, q.cell>> = <<s.tileset, s.kind, s.cell>>
    <3>1. TAKE q \in R, s \in R
    <3>2. PICK a \in NamingIn(input, t) : <<q.tileset, q.kind, q.cell>> = <<a.tileset, a.kind, a.cell>>
      BY DEF SharingIn
    <3>3. PICK b \in NamingIn(input, t) : <<s.tileset, s.kind, s.cell>> = <<b.tileset, b.kind, b.cell>>
      BY DEF SharingIn
    <3>4. /\ a \in Records /\ b \in Records /\ a.tileset = b.tileset /\ a.kind = b.kind
          /\ DOMAIN a.top \intersect DOMAIN b.top # {}
      BY <2>3 DEF NamingIn, InputOK
    <3>5. a.cell = b.cell
      BY <3>4, PlannerAssumption
    <3> QED
      BY <3>2, <3>3, <3>4, <3>5
  <2>10. FreshestFor(t) = CHOOSE q \in R : \A s \in R : DayOf(s.window) <= DayOf(q.window)
    BY DEF FreshestFor, SharingIn, NamingIn, Naming
  <2>11. \A q \in R : (\A s \in R : DayOf(s.window) <= DayOf(q.window)) => q = r
    <3>1. SUFFICES ASSUME NEW q \in R, \A s \in R : DayOf(s.window) <= DayOf(q.window) PROVE q = r
      OBVIOUS
    <3>2. DayOf(q.window) = DayOf(r.window)
      BY <2>7, <2>8, <3>1, PlannerAssumption DEF Freshest
    <3> QED
      BY <2>8, <2>9, <3>2 DEF DaysTellApart
  <2>12. \A s \in R : DayOf(s.window) <= DayOf(r.window)
    BY <2>7 DEF Freshest
  <2> HIDE DEF R
  <2>13. FreshestFor(t) = r
    BY <2>7, <2>10, <2>11, <2>12
  <2>14. c.req = Sum(AskedOf(input, <<t.qk, t.id>>), NamingIn(input, t))
    BY <2>6 DEF Worth
  <2>15. MapThenSumSet(LAMBDA q : q.top[<<t.qk, t.id>>] * Weight(q), Naming(t))
           = Sum(AskedOf(input, <<t.qk, t.id>>), NamingIn(input, t))
    BY <2>3, WorthIsSum
  <2> QED
    BY <2>7, <2>13, <2>14, <2>15
<1> QED
  BY <1>1, PlannerInvAlways, PTL

\* Of some candidates in order, the first n are asked for no more than all.
LEMMA AskedOfAll ==
  ASSUME NEW C, Distinct(C), NEW n \in 0..Cardinality(C)
  PROVE  /\ SumOf(Sorted(C), n, "req") \in Nat
         /\ Sum([c \in C |-> c.req], C) \in Nat
         /\ SumOf(Sorted(C), n, "req") <= Sum([c \in C |-> c.req], C)
         /\ SumOf(Sorted(C), Cardinality(C), "req") = Sum([c \in C |-> c.req], C)
<1> DEFINE m == Cardinality(C)
           order == Sorted(C)
           A == 1..n
           B == 1..m
           f == [c \in C |-> c.req]
           g == [i \in B |-> order[i].req]
           a == [i \in A |-> order[i].req]
           h == [i \in B |-> order[i]]
<1>1. m \in Nat /\ n \in Nat /\ n <= m
  BY SortedIsSequence
<1>2. /\ \A i \in B : order[i] \in C /\ Rank(C, order[i]) = i - 1
      /\ \A c \in C : Rank(C, c) + 1 \in B /\ order[Rank(C, c) + 1] = c
  <2>1. /\ \A i \in B : order[i] \in C /\ Rank(C, order[i]) = i - 1
        /\ \A c \in C : order[Rank(C, c) + 1] = c /\ Rank(C, c) \in 0..(m - 1)
    BY SortedByRank
  <2> QED
    BY <1>1, <2>1
<1>3. \A c \in C : c.req \in Nat
  BY DEF Distinct, IsCandidate
<1> HIDE DEF m, order
<1>4. h \in Bijection(B, C)
  <2>1. h \in [B -> C]
    BY <1>2
  <2>2. \A i, j \in B : h[i] = h[j] => i = j
    <3>1. SUFFICES ASSUME NEW i \in B, NEW j \in B, order[i] = order[j] PROVE i = j
      OBVIOUS
    <3>2. i - 1 = j - 1
      BY <1>2, <3>1
    <3> QED
      BY <1>1, <3>2
  <2>3. \A c \in C : \E i \in B : h[i] = c
    BY <1>2
  <2> HIDE DEF h, B
  <2> QED
    BY <2>1, <2>2, <2>3 DEF Bijection, Injection, IsInjective, Surjection
<1>5. \A i \in B : g[i] = f[h[i]] /\ g[i] \in Nat
  BY <1>2, <1>3
<1>6. IsFiniteSet(A) /\ IsFiniteSet(B) /\ A \subseteq B
  BY <1>1, FS_Interval
<1>7. \A i \in A : a[i] = g[i]
  BY <1>6
<1>8. SumOf(order, m, "req") = Sum(g, B)
  BY <1>1, AskedIsSum DEF Asked
<1>9. SumOf(order, n, "req") = Sum(a, A)
  BY <1>1, AskedIsSum DEF Asked
<1> HIDE DEF A, B, f, g, a, h
<1>10. Sum(g, B) = Sum(f, C) /\ Sum(a, A) = Sum(g, A)
  <2>1. \A i \in B : g[i] \in Int
    BY <1>5
  <2> QED
    BY <1>4, <1>5, <1>6, <1>7, <2>1, SumRenamed, SumOfEquals
<1>11. Sum(g, B) \in Nat /\ Sum(g, A) \in Nat /\ Sum(g, A) <= Sum(g, B)
  BY <1>5, <1>6, SumOfNaturals
<1> QED
  BY <1>8, <1>9, <1>10, <1>11 DEF order, m, f

\* What the records taken name too much, of a plan's digests, as sums.
LEMMA ExcessIsSum ==
  ASSUME InputOK
  PROVE  /\ MapThenSumSet(LAMBDA r : OverAsked(r) * Weight(r), Used)
               = Sum(ExcessOf(input), Taken(input, {}))
         /\ MapThenSumSet(OverNamed, Used) = Sum(Unseen, Taken(input, {}))
         /\ Sum(ExcessOf(input), Taken(input, {})) \in Int /\ Sum(Unseen, Taken(input, {})) \in Int
<1> DEFINE S == Taken(input, {})
           e == ExcessOf(input)
           asked == MapThenSumSet(LAMBDA r : OverAsked(r) * Weight(r), Used)
           named == MapThenSumSet(OverNamed, Used)
           Asks(g) == g = [s \in SUBSET S |-> IF s = {} THEN 0
                        ELSE OverAsked(AnyOf(s)) * Weight(AnyOf(s)) + g[s \ {AnyOf(s)}]]
           Names(g) == g = [s \in SUBSET S |-> IF s = {} THEN 0
                         ELSE OverNamed(AnyOf(s)) + g[s \ {AnyOf(s)}]]
<1>1. Used = S /\ S \subseteq Records
  BY DEF Used, Taken, Wanted, InputOK
<1>2. asked = (CHOOSE g : Asks(g))[S]
  BY <1>1 DEF MapThenSumSet, MapThenFoldSet, AnyOf
<1>3. named = (CHOOSE g : Names(g))[S]
  BY <1>1 DEF MapThenSumSet, MapThenFoldSet, AnyOf
<1> HIDE DEF S, asked, named
<1>4. \A r \in S : /\ e[r] = OverAsked(r) * Weight(r) /\ e[r] \in Nat
                  /\ Unseen[r] = OverNamed(r) /\ Unseen[r] \in Nat
  <2>1. TAKE r \in S
  <2>2. r \in Records
    BY <1>1
  <2> QED
    BY <2>2, ExcessIsNatural, RecordNames DEF Unseen
<1> HIDE DEF e
<1>5. IsFiniteSet(S)
  BY <1>1, FS_Subset, PlannerAssumption
<1>6. \A s \in SUBSET S : s # {} => /\ e[AnyOf(s)] = OverAsked(AnyOf(s)) * Weight(AnyOf(s))
                                     /\ Unseen[AnyOf(s)] = OverNamed(AnyOf(s))
  BY <1>4, AnyOfIsOne
<1>7. ASSUME NEW g PROVE (Sums(g, e, S) <=> Asks(g)) /\ (Sums(g, Unseen, S) <=> Names(g))
  BY <1>6 DEF Sums
<1> HIDE DEF Asks, Names
<1>8. asked = Sum(e, S)
  <2>1. PICK h : Sums(h, e, S) /\ asked = h[S]
    BY <1>2, <1>5, <1>7, SumsExist
  <2>2. PICK g : Sums(g, e, S) /\ Sum(e, S) = g[S]
    BY <1>5, SumsExist, SumByChoice
  <2> QED
    BY <1>5, <2>1, <2>2, SumsOfParts, S \in SUBSET S
<1>9. named = Sum(Unseen, S)
  <2>1. PICK h : Sums(h, Unseen, S) /\ named = h[S]
    BY <1>3, <1>5, <1>7, SumsExist
  <2>2. PICK g : Sums(g, Unseen, S) /\ Sum(Unseen, S) = g[S]
    BY <1>5, SumsExist, SumByChoice
  <2> QED
    BY <1>5, <2>1, <2>2, SumsOfParts, S \in SUBSET S
<1>10. Sum(e, S) \in Int /\ Sum(Unseen, S) \in Int
  BY <1>4, <1>5, SumIsInt
<1> QED
  BY <1>8, <1>9, <1>10 DEF e, S, asked, named

\* What is cut from a plan shows as coverage below one, and all that is left out
\* among the tiles people wait for, but for what the records themselves name too
\* much (planner.rs, stats; estimate.rs, no_warm_cost).
THEOREM WhatIsLeftOutShows ==
  Spec => []LeftOutShows
<1>1. ASSUME PlannerInv PROVE LeftOutShows
  <2> DEFINE order == found.order
             left == Len(order) - Len(result.entries)
             coverage == result.stats.coverage
             whole == DemandOf(cells)
             over == Sum(ExcessOf(input), Taken(input, {}))
             unseen == Sum(Unseen, Taken(input, {}))
             part == SumOf(order, Len(result.entries), "req")
             all == SumOf(order, Len(order), "req")
  <2>1. InputOK
    BY <1>1 DEF PlannerInv, Collected
  <2>2. SUFFICES ASSUME stage = "done"
                 PROVE  /\ coverage[2] - coverage[1] >= (all - part) - over
                        /\ (\A r, s \in input.digests : CellKey(r) = CellKey(s) => r = s) =>
                             result.estimate.no_warm.affected + unseen >=
                               left + result.stats.unwarmable + result.stats.too_fast
    BY <2>1, ExcessIsSum DEF LeftOutShows
  <2>3. PICK C : GoodOrder(input, found, C) /\ Weighed(input, cells, C)
    BY <1>1, <2>2 DEF PlannerInv, Planned
  <2>4. Len(order) = Cardinality(C) /\ Cardinality(C) \in Nat /\ order = Sorted(C) /\ Distinct(C)
    BY <2>3, SortedIsSequence DEF GoodOrder
  <2>5. PICK n \in 0..Len(order) : Told(input, cells, found, result, n)
    BY <1>1, <2>2 DEF PlannerInv
  <2>6. n \in 0..Cardinality(C) /\ n \in Nat /\ Len(result.entries) = n
    BY <2>4, <2>5, LenOfEntries DEF Told
  <2>7. part \in Nat /\ all \in Nat /\ part <= all /\ all <= whole + over
    <3>1. Sum([c \in C |-> c.req], C) <= whole + over
      BY <2>3 DEF Weighed
    <3>2. all = Sum([c \in C |-> c.req], C) /\ part <= Sum([c \in C |-> c.req], C)
      BY <2>4, <2>6, AskedOfAll
    <3>3. part \in Nat /\ Sum([c \in C |-> c.req], C) \in Nat
      BY <2>4, <2>6, AskedOfAll
    <3> QED
      BY <3>1, <3>2, <3>3
  <2>8. whole \in Nat /\ over \in Int /\ unseen \in Int
    BY <2>1, <2>3, ExcessIsSum DEF Weighed
  <2> DEFINE size == Cardinality(C)
             seen == SeenIn(cells)
  <2>9. left = size - n
    BY <2>4, <2>6
  <2>10. coverage[2] - coverage[1] >= (all - part) - over
    <3>1. coverage = Ratio(part, whole)
      BY <2>5, <2>6 DEF Told
    <3> HIDE DEF part, all, whole, coverage, over
    <3>2. CASE whole <= 0
      <4>1. coverage = <<0, 1>>
        BY <3>1, <3>2 DEF Ratio
      <4> QED
        BY <2>7, <2>8, <3>2, <4>1
    <3>3. CASE whole > 0
      <4> DEFINE S == {part, whole}
      <4>1. S \subseteq Nat /\ S # {} /\ part \in S
        BY <2>7, <2>8
      <4>2. coverage = <<Min(S), whole>>
        BY <2>8, <3>1, <3>3 DEF Ratio
      <4> HIDE DEF S
      <4>3. Min(S) \in Nat /\ Min(S) <= part
        BY <4>1, MinOfNaturals
      <4> QED
        BY <2>7, <2>8, <4>2, <4>3
    <3> QED
      BY <2>8, <3>2, <3>3
  <2>11. ASSUME \A r, s \in input.digests : CellKey(r) = CellKey(s) => r = s
         PROVE  result.estimate.no_warm.affected + unseen >=
                  left + result.stats.unwarmable + result.stats.too_fast
    <3> DEFINE dead == Cardinality(DeadIn(input))
               affected == result.estimate.no_warm.affected
    <3>1. dead <= seen + unseen
      BY <2>3, <2>11 DEF Weighed
    <3>2. /\ size + found.unwarmable + found.tooFast = dead
          /\ found.unwarmable \in Nat /\ found.tooFast \in Nat
      BY <2>3 DEF GoodOrder
    <3>3. affected = Max({0, seen - n})
      BY <2>5 DEF Told
    <3>4. result.stats.unwarmable = found.unwarmable /\ result.stats.too_fast = found.tooFast
      BY <2>5 DEF Told
    <3>5. seen \in Int
      <4> DEFINE f == [k \in DOMAIN cells |-> cells[k].observed]
      <4>1. \A k \in DOMAIN cells : f[k] \in Int
        <5>1. \A k \in DOMAIN cells : CellOK(cells[k])
          BY <1>1 DEF PlannerInv, Collected
        <5> QED
          BY <5>1 DEF CellOK
      <4>2. IsFiniteSet(DOMAIN cells)
        BY <1>1, FewCells DEF PlannerInv
      <4>3. seen = Sum(f, DOMAIN cells)
        BY DEF SeenIn
      <4> HIDE DEF f
      <4> QED
        BY <4>1, <4>2, <4>3, SumIsInt
    <3> HIDE DEF dead, affected, seen, left, size, unseen
    <3>6. affected >= seen - n
      <4> DEFINE x == seen - n
                 z == 0
      <4>1. x \in Int /\ z \in Int
        BY <2>6, <3>5
      <4>2. affected = Max({z, x})
        BY <3>3
      <4> HIDE DEF x, z
      <4>3. Max({z, x}) >= x
        BY <4>1, MaxOfTwo
      <4> QED
        BY <4>2, <4>3 DEF x
    <3>7. affected \in Int
      <4> DEFINE x == seen - n
                 z == 0
      <4>1. x \in Int /\ z \in Int
        BY <2>6, <3>5
      <4>2. affected = Max({z, x})
        BY <3>3
      <4> HIDE DEF x, z
      <4>3. Max({z, x}) \in {z, x}
        BY <4>1, MaxOfTwo
      <4> QED
        BY <4>1, <4>2, <4>3
    <3>8. size \in Nat
      BY <2>4 DEF size
    <3> DEFINE missed == found.unwarmable
               fast == found.tooFast
    <3>9. affected + unseen >= left + missed + fast
      <4>1. size + missed + fast = dead /\ missed \in Nat /\ fast \in Nat
        BY <3>2
      <4>2. unseen \in Int /\ left = size - n /\ n \in Nat
        BY <2>6, <2>8, <2>9
      <4> HIDE DEF missed, fast
      <4> QED
        BY ONLY <3>1, <3>5, <3>6, <3>7, <3>8, <4>1, <4>2
    <3> QED
      BY <3>4, <3>9 DEF affected
  <2> QED
    BY <2>2, <2>10, <2>11
<1> QED
  BY <1>1, PlannerInvAlways, PTL

\* The order of a plan is that of the texts it has for its tiles, among those it has
\* no other reason to order (planner.rs, sort_candidates; quadkey.rs, cmp).
THEOREM PlansReadAlike ==
  Spec => []QuadkeysReadAlike
<1>1. ASSUME PlannerInv PROVE QuadkeysReadAlike
  <2> DEFINE order == found.order
  <2>1. SUFFICES ASSUME Planned, NEW i \in DOMAIN order, NEW j \in DOMAIN order, i < j,
                        None \notin {order[i].qk, order[j].qk}, order[i].qk # order[j].qk,
                        order[i].score = order[j].score
                 PROVE  ReadsBefore(TileOfCandidate(order[i]).qk, TileOfCandidate(order[j]).qk)
    BY QuadkeysReadTheSame DEF QuadkeysReadAlike
  <2>2. PICK C : GoodOrder(input, found, C)
    BY <1>1, <2>1 DEF PlannerInv
  <2> DEFINE a == order[i]
             b == order[j]
  <2>3. /\ InputOK /\ a \in C /\ b \in C /\ Rank(C, a) = i - 1 /\ Rank(C, b) = j - 1
        /\ i \in Int /\ j \in Int
    <3>1. Cardinality(C) \in Nat /\ DOMAIN order = 1..Cardinality(C)
      BY <1>1, <2>1, <2>2, OrderOfCandidates
    <3> QED
      BY <1>1, <2>1, <2>2, <3>1, OrderOfCandidates
  <2>4. PICK t \in DeadIn(input), u \in DeadIn(input) : OfTile(a, t) /\ OfTile(b, u)
    BY <2>2, <2>3 DEF GoodOrder
  <2>5. TileOfCandidate(a) = t /\ TileOfCandidate(b) = u
    BY <2>3, <2>4, CandidatesTile
  <2>6. t.qk \in Seq(0..3) /\ u.qk \in Seq(0..3)
    BY <2>3, TileOfDead
  <2>7. /\ Placed(a.kind) /\ Placed(b.kind) /\ Parses(t.qk) /\ Parses(u.qk)
        /\ a.qk = FromStr(t.qk) /\ b.qk = FromStr(u.qk) /\ a.qk # None /\ b.qk # None
    BY <2>1, <2>4 DEF OfTile, QkOf
  <2>8. ~Before(b, a)
    <3>1. Distinct(C)
      BY <2>2 DEF GoodOrder
    <3>2. ~(j - 1 < i - 1)
      BY <2>1, <2>3
    <3> QED
      BY <2>3, <3>1, <3>2, SortedByRank
  <2>9. ~Precedes(b.qk, a.qk)
    BY <2>1, <2>7, <2>8 DEF Before
  <2>10. Precedes(a.qk, b.qk)
    <3>1. Formed(a.qk) /\ Formed(b.qk)
      BY <2>6, <2>7, ParsedIsFormed
    <3> QED
      BY <2>1, <2>9, <3>1, QuadkeysAreOrdered
  <2> QED
    BY <2>5, <2>6, <2>7, <2>10, OrderReadsAlike
<1> QED
  BY <1>1, PlannerInvAlways, PTL
=============================================================================
