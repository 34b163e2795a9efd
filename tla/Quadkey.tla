------------------------------- MODULE Quadkey -------------------------------
(***************************************************************************)
(* crates/okibi-qk: a quadkey as a level and a word of bits, two of them   *)
(* per level, and the way a tile of a Mercator scheme becomes one.         *)
(*                                                                         *)
(* A text is a sequence of digits.  A function of the code that returns a  *)
(* Result is its value here, and the condition of its Ok beside it.        *)
(***************************************************************************)
EXTENDS Integers, Sequences, SequencesExt

CONSTANT MaxLevel   \* Quadkey::MAX_LEVEL; the word has two bits for each

ASSUME QuadkeyAssumption == MaxLevel \in Nat \ {0}

WordSize == 2 * MaxLevel

Quadkeys == [level : 0..MaxLevel, bits : 0..(2 ^ WordSize - 1)]

Root == [level |-> 0, bits |-> 0]

\* bits >> n.  A release build takes the amount modulo the size of the word.
Shr(bits, n) == bits \div 2 ^ (n % WordSize)

\* (bits << 2) | digit
Push(bits, digit) == (4 * bits + digit) % 2 ^ WordSize

\* The digits, one pushed after the other.
Pushed(digits) ==
  LET word[i \in 0..Len(digits)] == IF i = 0 THEN 0 ELSE Push(word[i - 1], digits[i])
  IN  word[Len(digits)]

\* The digit at i, counting from the shallowest.
Digit(k, i) == Shr(k.bits, 2 * (k.level - 1 - i)) % 4

\* Slip: a shift of one bit per level.
TruncateByOne(k, level) ==
  IF level >= k.level THEN k
  ELSE [level |-> level, bits |-> Shr(k.bits, k.level - level)]

Truncate(k, level) ==
  IF level >= k.level THEN k
  ELSE [level |-> level, bits |-> Shr(k.bits, 2 * (k.level - level))]

\* Every ancestor, shallowest first.
Ancestors(k) == [i \in 1..k.level |-> Truncate(k, i - 1)]

StartsWith(k, prefix) ==
  prefix.level <= k.level /\ Truncate(k, prefix.level).bits = prefix.bits

\* Slip: the deeper of two quadkeys on one line first.
PrecedesDeeper(k, l) ==
  LET common == IF k.level <= l.level THEN k.level ELSE l.level
      p == Truncate(k, common).bits
      q == Truncate(l, common).bits
  IN  p < q \/ (p = q /\ k.level > l.level)

\* cmp(k, l) is Less: by the bits they both have, then by level.
Precedes(k, l) ==
  LET common == IF k.level <= l.level THEN k.level ELSE l.level
      p == Truncate(k, common).bits
      q == Truncate(l, common).bits
  IN  p < q \/ (p = q /\ k.level < l.level)

Parses(text) == Len(text) <= MaxLevel /\ \A i \in DOMAIN text : text[i] \in 0..3

FromStr(text) == [level |-> Len(text), bits |-> Pushed(text)]

Display(k) == [i \in 1..k.level |-> Digit(k, i - 1)]

-----------------------------------------------------------------------------
(* Tiles.                                                                  *)

Bit(n, i) == (n \div 2 ^ i) % 2

InGrid(level, x, y) == level <= MaxLevel /\ x < 2 ^ level /\ y < 2 ^ level

FromTile(level, x, y) ==
  [level |-> level,
   bits |-> Pushed([i \in 1..level |-> Bit(x, level - i) + 2 * Bit(y, level - i)])]

\* The number whose bits these are, the highest first.
Number(bits) ==
  LET n[i \in 0..Len(bits)] == IF i = 0 THEN 0 ELSE 2 * n[i - 1] + bits[i]
  IN  n[Len(bits)]

\* (level, x, y) of a quadkey.
TileOf(k) ==
  <<k.level, Number([i \in 1..k.level |-> Digit(k, i - 1) % 2]),
             Number([i \in 1..k.level |-> Digit(k, i - 1) \div 2])>>

\* A tile of Web Mercator, with y from the north or, in TMS, from the south.
YFromNorth(tms, level, y) == IF tms THEN 2 ^ level - 1 - y ELSE y

\* The quadkey at a level that holds the centre of the tile.  That the latitude
\* and its projection undo each other is arithmetic on floats, left out.
QuadkeyAt(tms, level, x, y, at) ==
  LET Scaled(n) == ((2 * n + 1) * 2 ^ at) \div 2 ^ (level + 1)
  IN  IF at = 0 THEN Root ELSE FromTile(at, Scaled(x), Scaled(YFromNorth(tms, level, y)))

-----------------------------------------------------------------------------
(* Properties.                                                             *)

Texts == SeqOf(0..3, MaxLevel)

ReadsBefore(s, t) ==
  \/ IsStrictPrefix(s, t)
  \/ \E i \in DOMAIN s \intersect DOMAIN t :
       s[i] < t[i] /\ \A j \in 1..(i - 1) : s[j] = t[j]

\* Below the level that fills the word, or not cut to nothing.
Shifts(k, level) == k.level < MaxLevel \/ level > 0

\* "The digits are the same either way": a quadkey reads back as its digits and
\* its tile, "sorting quadkeys sorts them the same whether they are structs here
\* or strings in a plan", a prefix is a prefix of the digits, the ancestors are
\* the shorter readings, and a tile's place is the same at every level and from
\* whichever edge its rows are counted.  Where cutting to nothing would have to
\* shift the whole word away, the code does not have the promised result.
ReadAlike ==
  /\ \A s \in Texts :
       LET k == FromStr(s) IN
       /\ k \in Quadkeys /\ Display(k) = s
       /\ InGrid(TileOf(k)[1], TileOf(k)[2], TileOf(k)[3])
       /\ FromTile(TileOf(k)[1], TileOf(k)[2], TileOf(k)[3]) = k
       /\ \A i \in DOMAIN Ancestors(k) :
            Shifts(k, i - 1) => Ancestors(k)[i] = FromStr(SubSeq(s, 1, i - 1))
  /\ \A s, t \in Texts :
       LET k == FromStr(s)
           l == FromStr(t)
       IN  /\ Precedes(k, l) <=> ReadsBefore(s, t)
           /\ Shifts(k, l.level) => (StartsWith(k, l) <=> IsPrefix(t, s))
  /\ \A level \in 0..MaxLevel : \A at \in 0..level, x, y \in 0..(2 ^ level - 1) :
       LET k == FromTile(level, x, y) IN
       /\ Shifts(k, at) => QuadkeyAt(FALSE, level, x, y, at) = Truncate(k, at)
       /\ QuadkeyAt(TRUE, level, x, YFromNorth(TRUE, level, y), at) =
            QuadkeyAt(FALSE, level, x, y, at)
=============================================================================
