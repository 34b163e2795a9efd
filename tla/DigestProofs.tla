---------------------------- MODULE DigestProofs ----------------------------
(***************************************************************************)
(* Theorems about Digest, for any documents, requests, limits and failures *)
(* and for every date from 1970 on.                                        *)
(***************************************************************************)
EXTENDS Digest, Numbers

-----------------------------------------------------------------------------
(* What the queries add up.                                                *)

\* The requests a point stands for.
Counted(points) == [p \in Demands |-> points[p] * Weight(p)]

LEMMA WeightIsPositive ==
  ASSUME NEW p
  PROVE  Weight(p) \in Nat \ {0}
BY DigestAssumption DEF Weight

\* What the queries add up is a sum over requests.
LEMMA RequestsAreSum ==
  ASSUME NEW points, NEW S \in SUBSET Demands
  PROVE  Requests(points, S) = Sum(Counted(points), S)
<1> DEFINE f == Counted(points)
           Reckoned(g) == g = [s \in SUBSET S |-> IF s = {} THEN 0
                                ELSE points[AnyOf(s)] * Weight(AnyOf(s)) + g[s \ {AnyOf(s)}]]
<1>1. IsFiniteSet(S)
  BY DigestAssumption, FS_Subset
<1>2. \A s \in SUBSET S : s # {} => f[AnyOf(s)] = points[AnyOf(s)] * Weight(AnyOf(s))
  BY AnyOfIsOne DEF Counted
<1>3. Requests(points, S) = (CHOOSE g : Reckoned(g))[S]
  BY DEF Requests, MapThenSumSet, MapThenFoldSet, AnyOf
<1>4. ASSUME NEW g PROVE Sums(g, f, S) <=> Reckoned(g)
  <2> HIDE DEF f
  <2> QED
    BY <1>2 DEF Sums
<1> HIDE DEF Reckoned, f
<1>5. PICK h : Sums(h, f, S) /\ Requests(points, S) = h[S]
  BY <1>1, <1>3, <1>4, SumsExist
<1>6. PICK k : Sums(k, f, S) /\ Sum(f, S) = k[S]
  BY <1>1, SumsExist, SumByChoice
<1> QED
  BY <1>1, <1>5, <1>6, SumsOfParts, S \in SUBSET S DEF f

LEMMA CountedIsNatural ==
  ASSUME NEW points \in [Demands -> Nat]
  PROVE  \A p \in Demands : /\ Counted(points)[p] \in Nat
                            /\ Counted(points)[p] > 0 <=> points[p] > 0
<1>1. ASSUME NEW p \in Demands
      PROVE  Counted(points)[p] \in Nat /\ (Counted(points)[p] > 0 <=> points[p] > 0)
  <2>1. Counted(points)[p] = points[p] * Weight(p)
    BY DEF Counted
  <2>2. points[p] \in Nat /\ Weight(p) \in Nat \ {0}
    BY WeightIsPositive
  <2>3. \A a \in Nat, b \in Nat \ {0} : a * b \in Nat /\ (a * b > 0 <=> a > 0)
    OBVIOUS
  <2> QED
    BY <2>1, <2>2, <2>3
<1> QED
  BY <1>1

\* Of some requests: a number, none without one that landed, no more than of more of
\* them or of a ledger that grew.
LEMMA RequestsGrow ==
  ASSUME NEW points \in [Demands -> Nat], NEW later \in [Demands -> Nat],
         \A p \in Demands : points[p] <= later[p],
         NEW S \in SUBSET Demands, NEW T \in SUBSET S
  PROVE  /\ Requests(points, S) \in Nat
         /\ Requests(points, S) <= Requests(later, S)
         /\ Requests(points, T) <= Requests(points, S)
         /\ Requests(points, S) > 0 => \E p \in S : points[p] > 0
<1> DEFINE f == Counted(points)
           g == Counted(later)
<1>1. IsFiniteSet(S) /\ T \in SUBSET Demands
  BY DigestAssumption, FS_Subset
<1>2. /\ Requests(points, S) = Sum(f, S) /\ Requests(later, S) = Sum(g, S)
      /\ Requests(points, T) = Sum(f, T)
  BY <1>1, RequestsAreSum
<1>3. \A p \in S : f[p] \in Nat /\ g[p] \in Nat /\ (f[p] > 0 <=> points[p] > 0)
  BY CountedIsNatural
<1>4. ASSUME NEW p \in S PROVE f[p] <= g[p]
  <2>1. f[p] = points[p] * Weight(p) /\ g[p] = later[p] * Weight(p)
    BY DEF Counted
  <2>2. points[p] \in Nat /\ later[p] \in Nat /\ points[p] <= later[p] /\ Weight(p) \in Nat
    BY WeightIsPositive
  <2> QED
    BY <2>1, <2>2, MulMonotone
<1> HIDE DEF f, g
<1>5. Sum(f, S) \in Nat /\ Sum(f, T) <= Sum(f, S) /\ (Sum(f, S) > 0 => \E p \in S : f[p] > 0)
  BY <1>1, <1>3, SumOfNaturals
<1>6. Sum(f, S) <= Sum(g, S)
  BY <1>1, <1>3, <1>4, SumOfLarger
<1> QED
  BY <1>2, <1>3, <1>5, <1>6

-----------------------------------------------------------------------------
(* The answers that a ledger gives, whether it is the one there is or not, *)
(* in a window and for a roster.                                           *)

ReadIn(w, points) == {p \in Demands : points[p] > 0 /\ p.offset \in w}

IsListed(ros, service) == ros = {} \/ service \in ros

CellRowsOf(w, ros, points) ==
  LET read == {p \in ReadIn(w, points) : IsListed(ros, p.doc.service)}
      In(k) == {p \in read : CellKey(p.doc) = k}
      Organics(k) == {p \in In(k) : p.origin = "organic"}
  IN  [k \in {CellKey(p.doc) : p \in read} |->
         [req      |-> Requests(points, Organics(k)),
          miss     |-> Requests(points, {p \in Organics(k) : p.status = "miss"}),
          measured |-> \E p \in In(k) : p.status = "miss",
          observed |-> Cardinality({p.doc : p \in In(k)}),
          sampled  |-> Max({Weight(p) : p \in In(k)})]]

\* The organic requests for a document.
AskedIn(w, points, d) == {p \in ReadIn(w, points) : p.doc = d /\ p.origin = "organic"}

\* The documents of a service that were asked for.
DocsIn(w, points, s) == {p.doc : p \in {q \in ReadIn(w, points) : q.origin = "organic" /\ q.doc.service = s}}

TileRowsOf(w, points, s) ==
  {[doc |-> d, req |-> Requests(points, AskedIn(w, points, d))] : d \in DocsIn(w, points, s)}

LEMMA RowsOfTheLedger ==
  /\ CellRows = CellRowsOf(window, roster, ledger)
  /\ \A s : TileRows(s) = TileRowsOf(window, ledger, s)
<1>1. CellRows = CellRowsOf(window, roster, ledger)
  BY DEF CellRows, CellRowsOf, ReadIn, Within, Listed, IsListed
<1>2. ASSUME NEW s PROVE TileRows(s) = TileRowsOf(window, ledger, s)
  <2> DEFINE asked == {p \in Organic(Within(ledger)) : p.doc.service = s}
             D == {p.doc : p \in asked}
             A(d) == Requests(ledger, {p \in asked : p.doc = d})
             B(d) == Requests(ledger, AskedIn(window, ledger, d))
  <2>1. asked = {q \in ReadIn(window, ledger) : q.origin = "organic" /\ q.doc.service = s}
    BY DEF Organic, Within, ReadIn
  <2>2. ASSUME NEW d \in D PROVE {p \in asked : p.doc = d} = AskedIn(window, ledger, d)
    BY <2>1 DEF AskedIn
  <2>3. D = DocsIn(window, ledger, s)
    BY <2>1 DEF DocsIn
  <2>4. TileRows(s) = {[doc |-> d, req |-> A(d)] : d \in D}
    BY DEF TileRows
  <2>5. TileRowsOf(window, ledger, s) = {[doc |-> d, req |-> B(d)] : d \in D}
    BY <2>3 DEF TileRowsOf
  <2>6. \A d \in D : A(d) = B(d)
    BY <2>2
  <2> HIDE DEF D, A, B
  <2> QED
    BY <2>4, <2>5, <2>6
<1> QED
  BY <1>1, <1>2

-----------------------------------------------------------------------------
(* What a run knows.                                                       *)

HasCells(rows, s) == \E k \in DOMAIN rows : k[1] = s

TilesOf(rows, s) == {r \in rows : r.doc.service = s}

\* The tiles of a service are what some ledger between the first query's and the
\* one there is by now answers.
AnsweredBy(w, early, late, rows, cut, s) ==
  \E points \in [Demands -> Nat] :
    /\ \A p \in Demands : early[p] <= points[p] /\ points[p] <= late[p]
    /\ TilesOf(rows, s) \in Limited(TileRowsOf(w, points, s))
    /\ CutShort(TilesOf(rows, s)) => s \in cut

Shape ==
  /\ date \in Dates /\ roster \in Rosters /\ window = Covered(date, -2..2)
  /\ ledger \in [Demands -> 0..MaxPoints] /\ seen \in [Demands -> 0..MaxPoints]
  /\ stage \in {"idle", "asking", "done"}
  /\ failures \in 0..MaxFailures
  /\ truncated \subseteq {Services[i] : i \in DOMAIN Services}
  /\ \A p \in Demands : seen[p] <= ledger[p] /\ (ledger[p] > 0 => Writable(p))

Answers ==
  /\ stage = "idle" => asking = {} /\ cells = <<>> /\ tiles = {}
  /\ stage # "idle" =>
       /\ cells = CellRowsOf(window, roster, seen)
       /\ asking \subseteq {i \in DOMAIN Services : HasCells(cells, Services[i])}
       /\ \A i \in DOMAIN Services \ asking :
            HasCells(cells, Services[i]) => AnsweredBy(window, seen, ledger, tiles, truncated, Services[i])
       /\ \A r \in tiles : \E i \in DOMAIN Services \ asking :
            HasCells(cells, Services[i]) /\ r.doc.service = Services[i]

Usable(rows) == {k \in DOMAIN rows : Known(k[2]) /\ ~Unplaceable(k)}

Assembled ==
  /\ stage # "done" => records = <<>>
  /\ stage = "done" =>
       /\ asking = {}
       /\ records = [k \in Usable(cells) |->
            [service |-> k[1], kind |-> k[2], qk8 |-> IF Placed(k[2]) THEN k[3] ELSE "-",
             row |-> cells[k], top |-> TopOf(k)]]
       /\ skipped = [unknownKind |-> Cardinality({k \in DOMAIN cells : ~Known(k[2])}),
                     unplaceable |-> Cardinality({k \in DOMAIN cells : Unplaceable(k)}),
                     withoutTop  |-> Cardinality({k \in Usable(cells) : TopOf(k) = {}})]

DigestInv == Shape /\ Answers /\ Assembled

LEMMA DigestStarts ==
  Init => DigestInv
<1>1. SUFFICES ASSUME Init PROVE DigestInv
  OBVIOUS
<1>2. Shape
  BY <1>1, DigestAssumption DEF Init, Shape
<1>3. Answers
  BY <1>1 DEF Init, Answers
<1>4. Assembled
  BY <1>1 DEF Init, Assembled
<1> QED
  BY <1>2, <1>3, <1>4 DEF DigestInv

LEMMA LedgersAreNumbers ==
  ASSUME Shape
  PROVE  /\ ledger \in [Demands -> Nat] /\ seen \in [Demands -> Nat]
         /\ \A p \in Demands : ledger[p] \in Nat /\ seen[p] \in Nat
         /\ MaxPoints \in Nat /\ MaxFailures \in Nat
<1>1. MaxPoints \in Nat /\ MaxFailures \in Nat
  BY DigestAssumption
<1>2. ledger \in [Demands -> 0..MaxPoints] /\ seen \in [Demands -> 0..MaxPoints]
  BY DEF Shape
<1> QED
  BY <1>1, <1>2

LEMMA LandStep ==
  ASSUME DigestInv, NEW p \in Demands, Land(p)
  PROVE  DigestInv'
<1>1. /\ stage # "done" /\ Writable(p) /\ MapThenSumSet(LAMBDA q : ledger[q], Demands) < MaxPoints
      /\ ledger' = [ledger EXCEPT ![p] = @ + 1]
      /\ UNCHANGED <<date, roster, window, stage, asking, cells, tiles, truncated, seen, records, skipped, failures>>
  BY DEF Land, answers, digest
<1>2. Shape
  BY DEF DigestInv
<1>3. ledger \in [Demands -> Nat] /\ ledger[p] \in Nat /\ MaxPoints \in Nat
  BY <1>2, LedgersAreNumbers
<1>4. ledger[p] < MaxPoints
  <2>1. Sum(ledger, Demands) < MaxPoints
    BY <1>1 DEF Sum
  <2>2. ledger[p] <= Sum(ledger, Demands) /\ Sum(ledger, Demands) \in Nat
    BY <1>3, DigestAssumption, SumOfNaturals
  <2> QED
    BY <1>3, <2>1, <2>2
<1>5. /\ ledger' \in [Demands -> 0..MaxPoints]
      /\ \A q \in Demands : ledger[q] <= ledger'[q] /\ (q # p => ledger'[q] = ledger[q])
  BY <1>1, <1>2, <1>3, <1>4 DEF Shape
<1>6. Shape'
  <2>1. \A q \in Demands : seen[q] <= ledger'[q] /\ (ledger'[q] > 0 => Writable(q))
    BY <1>1, <1>2, <1>3, <1>5 DEF Shape
  <2> QED
    BY <1>1, <1>2, <1>5, <2>1 DEF Shape
<1>7. ASSUME NEW s, AnsweredBy(window, seen, ledger, tiles, truncated, s)
      PROVE  AnsweredBy(window, seen, ledger', tiles, truncated, s)
  <2>1. PICK points \in [Demands -> Nat] :
          /\ \A q \in Demands : seen[q] <= points[q] /\ points[q] <= ledger[q]
          /\ TilesOf(tiles, s) \in Limited(TileRowsOf(window, points, s))
          /\ CutShort(TilesOf(tiles, s)) => s \in truncated
    BY <1>7 DEF AnsweredBy
  <2>2. \A q \in Demands : points[q] <= ledger'[q]
    BY <1>3, <1>5, <2>1
  <2> QED
    BY <2>1, <2>2 DEF AnsweredBy
<1>8. Answers'
  BY <1>1, <1>7 DEF DigestInv, Answers
<1>9. Assembled'
  BY <1>1 DEF DigestInv, Assembled
<1> QED
  BY <1>6, <1>8, <1>9 DEF DigestInv

LEMMA AskCellsStep ==
  ASSUME DigestInv, AskCells
  PROVE  DigestInv'
<1>1. /\ stage = "idle" /\ stage' = "asking" /\ cells' = CellRows
      /\ asking' = {i \in DOMAIN Services : \E k \in DOMAIN CellRows : k[1] = Services[i]}
      /\ tiles' = {} /\ truncated' = {} /\ seen' = ledger
      /\ UNCHANGED <<date, roster, window, ledger, records, skipped, failures>>
  BY DEF AskCells, digest
<1>2. Shape'
  BY <1>1 DEF DigestInv, Shape
<1>3. cells' = CellRowsOf(window', roster', seen')
  BY <1>1, RowsOfTheLedger
<1>4. asking' = {i \in DOMAIN Services : HasCells(cells', Services[i])}
  BY <1>1 DEF HasCells
<1>5. Answers'
  BY <1>1, <1>3, <1>4 DEF Answers
<1>6. Assembled'
  BY <1>1 DEF DigestInv, Assembled
<1> QED
  BY <1>2, <1>5, <1>6 DEF DigestInv

LEMMA AskTilesStep ==
  ASSUME DigestInv, AskTiles
  PROVE  DigestInv'
<1> DEFINE next == Min(asking)
           service == Services[next]
<1>1. PICK rows \in Limited(TileRows(service)) :
        /\ tiles' = tiles \union rows
        /\ truncated' = IF CutShort(rows) THEN truncated \union {service} ELSE truncated
  BY DEF AskTiles
<1>2. /\ stage = "asking" /\ asking # {} /\ asking' = asking \ {next}
      /\ UNCHANGED <<date, roster, window, ledger, stage, cells, seen, records, skipped, failures>>
  BY DEF AskTiles, digest
<1>3. Shape /\ Answers /\ Assembled
  BY DEF DigestInv
<1>4. /\ cells = CellRowsOf(window, roster, seen)
      /\ asking \subseteq {i \in DOMAIN Services : HasCells(cells, Services[i])}
      /\ \A i \in DOMAIN Services \ asking :
           HasCells(cells, Services[i]) => AnsweredBy(window, seen, ledger, tiles, truncated, Services[i])
      /\ \A r \in tiles : \E i \in DOMAIN Services \ asking :
           HasCells(cells, Services[i]) /\ r.doc.service = Services[i]
  BY <1>2, <1>3 DEF Answers
<1>5. next \in asking
  <2>1. asking \subseteq Nat
    BY <1>4, DigestAssumption
  <2>2. \E x \in asking : \A y \in asking : x <= y
    BY <1>2, <2>1, LeastNatural
  <2> QED
    BY <2>2 DEF Min
<1> HIDE DEF next
<1>6. /\ next \in DOMAIN Services /\ HasCells(cells, service)
      /\ \A i \in DOMAIN Services : Services[i] = service => i = next
  BY <1>4, <1>5, DigestAssumption
<1>7. rows \in Limited(TileRowsOf(window, ledger, service))
  BY RowsOfTheLedger
<1>8. \A r \in rows : r.doc.service = service
  BY <1>7 DEF Limited, TileRowsOf, DocsIn
<1> HIDE DEF service
<1>9. /\ TilesOf(tiles', service) = rows
      /\ \A s : s # service => TilesOf(tiles', s) = TilesOf(tiles, s)
  <2>1. \A r \in tiles : r.doc.service # service
    BY <1>4, <1>5, <1>6
  <2> QED
    BY <1>1, <1>8, <2>1 DEF TilesOf
<1>10. Shape'
  <2>1. truncated' \subseteq {Services[i] : i \in DOMAIN Services}
    BY <1>1, <1>3, <1>6 DEF Shape, service
  <2> QED
    BY <1>2, <1>3, <2>1 DEF Shape
<1>11. AnsweredBy(window, seen, ledger, tiles', truncated', service)
  <2>1. ledger \in [Demands -> Nat] /\ \A p \in Demands : seen[p] <= ledger[p] /\ ledger[p] <= ledger[p]
    BY <1>3, LedgersAreNumbers DEF Shape
  <2>2. CutShort(TilesOf(tiles', service)) => service \in truncated'
    BY <1>1, <1>9
  <2> QED
    BY <1>7, <1>9, <2>1, <2>2 DEF AnsweredBy
<1>12. ASSUME NEW i \in DOMAIN Services \ asking', HasCells(cells, Services[i])
       PROVE  AnsweredBy(window, seen, ledger, tiles', truncated', Services[i])
  <2>1. CASE i = next
    BY <1>11, <2>1 DEF service
  <2>2. CASE i # next
    <3>1. Services[i] # service /\ i \notin asking
      BY <1>2, <1>6, <1>12, <2>2
    <3>2. PICK points \in [Demands -> Nat] :
            /\ \A q \in Demands : seen[q] <= points[q] /\ points[q] <= ledger[q]
            /\ TilesOf(tiles, Services[i]) \in Limited(TileRowsOf(window, points, Services[i]))
            /\ CutShort(TilesOf(tiles, Services[i])) => Services[i] \in truncated
      BY <1>4, <1>12, <3>1 DEF AnsweredBy
    <3>3. truncated \subseteq truncated' /\ TilesOf(tiles', Services[i]) = TilesOf(tiles, Services[i])
      BY <1>1, <1>9, <3>1
    <3> QED
      BY <3>2, <3>3 DEF AnsweredBy
  <2> QED
    BY <2>1, <2>2
<1>13. ASSUME NEW r \in tiles'
       PROVE  \E i \in DOMAIN Services \ asking' : HasCells(cells, Services[i]) /\ r.doc.service = Services[i]
  <2>1. CASE r \in tiles
    BY <1>2, <1>4, <2>1
  <2>2. CASE r \in rows
    BY <1>2, <1>6, <1>8, <2>2 DEF service
  <2> QED
    BY <1>1, <2>1, <2>2
<1>14. Answers'
  BY <1>2, <1>4, <1>12, <1>13 DEF Answers
<1>15. Assembled'
  BY <1>2, <1>3 DEF Assembled
<1> QED
  BY <1>10, <1>14, <1>15 DEF DigestInv

LEMMA AssembleStep ==
  ASSUME DigestInv, Assemble
  PROVE  DigestInv'
<1>1. /\ stage = "asking" /\ asking = {} /\ stage' = "done"
      /\ UNCHANGED <<date, roster, window, ledger, asking, cells, tiles, truncated, seen, failures>>
  BY DEF Assemble, answers
<1>2. Shape'
  BY <1>1 DEF DigestInv, Shape
<1>3. Answers'
  BY <1>1 DEF DigestInv, Answers
<1>4. Assembled'
  <2>1. \A k : TopOf(k)' = TopOf(k)
    BY <1>1 DEF TopOf
  <2>2. /\ records' = [k \in Usable(cells) |->
             [service |-> k[1], kind |-> k[2], qk8 |-> IF Placed(k[2]) THEN k[3] ELSE "-",
              row |-> cells[k], top |-> TopOf(k)]]
        /\ skipped' = [unknownKind |-> Cardinality({k \in DOMAIN cells : ~Known(k[2])}),
                       unplaceable |-> Cardinality({k \in DOMAIN cells : Unplaceable(k)}),
                       withoutTop  |-> Cardinality({k \in Usable(cells) : TopOf(k) = {}})]
    BY DEF Assemble, Usable
  <2> QED
    BY <1>1, <2>1, <2>2 DEF Assembled
<1> QED
  BY <1>2, <1>3, <1>4 DEF DigestInv

LEMMA FailStep ==
  ASSUME DigestInv, Fail
  PROVE  DigestInv'
<1>1. /\ stage \in {"idle", "asking"} /\ failures < MaxFailures /\ failures' = failures + 1
      /\ stage' = "idle" /\ asking' = {} /\ cells' = <<>> /\ tiles' = {} /\ truncated' = {}
      /\ UNCHANGED <<date, roster, window, ledger, seen, records, skipped>>
  BY DEF Fail, digest
<1>2. Shape'
  <2>1. Shape /\ MaxFailures \in Nat
    BY LedgersAreNumbers DEF DigestInv
  <2>2. failures' \in 0..MaxFailures
    BY <1>1, <2>1 DEF Shape
  <2> QED
    BY <1>1, <2>1, <2>2 DEF Shape
<1>3. Answers' /\ Assembled'
  BY <1>1 DEF DigestInv, Answers, Assembled
<1> QED
  BY <1>2, <1>3 DEF DigestInv

LEMMA DigestInvAlways ==
  Spec => []DigestInv
<1>1. ASSUME DigestInv, [Next]_vars PROVE DigestInv'
  <2>1. CASE UNCHANGED vars
    <3>1. /\ UNCHANGED <<date, roster, window, ledger, stage, failures>>
          /\ UNCHANGED <<asking, cells, tiles, truncated, seen, records, skipped>>
      BY <2>1 DEF vars, answers, digest
    <3>2. Shape' /\ Answers'
      BY <1>1, <3>1 DEF DigestInv, Shape, Answers
    <3>3. \A k : TopOf(k)' = TopOf(k)
      BY <3>1 DEF TopOf
    <3>4. Assembled'
      BY <1>1, <3>1, <3>3 DEF DigestInv, Assembled
    <3> QED
      BY <3>2, <3>4 DEF DigestInv
  <2>2. CASE \E p \in Demands : Land(p)
    BY <1>1, <2>2, LandStep
  <2>3. CASE AskCells
    BY <1>1, <2>3, AskCellsStep
  <2>4. CASE AskTiles
    BY <1>1, <2>4, AskTilesStep
  <2>5. CASE Assemble
    BY <1>1, <2>5, AssembleStep
  <2>6. CASE Fail
    BY <1>1, <2>6, FailStep
  <2> QED
    BY <1>1, <2>1, <2>2, <2>3, <2>4, <2>5, <2>6 DEF Next
<1> QED
  BY <1>1, DigestStarts, PTL DEF Spec
-----------------------------------------------------------------------------
(* The rows of an answer.                                                  *)

LEMMA RowFacts ==
  ASSUME NEW w, NEW points \in [Demands -> Nat], NEW s
  PROVE  /\ IsFiniteSet(TileRowsOf(w, points, s))
         /\ \A r \in TileRowsOf(w, points, s) :
              /\ r = [doc |-> r.doc, req |-> r.req]
              /\ r.doc \in Docs /\ r.doc.service = s
              /\ r.req = Requests(points, AskedIn(w, points, r.doc)) /\ r.req \in Nat
<1> DEFINE Q == {q \in ReadIn(w, points) : q.origin = "organic" /\ q.doc.service = s}
           B(d) == Requests(points, AskedIn(w, points, d))
           row == [q \in Q |-> [doc |-> q.doc, req |-> B(q.doc)]]
           R == TileRowsOf(w, points, s)
<1>1. Q \subseteq Demands
  BY DEF ReadIn
<1>2. IsFiniteSet(Q)
  BY <1>1, DigestAssumption, FS_Subset
<1>3. R = {[doc |-> d, req |-> B(d)] : d \in {q.doc : q \in Q}}
  BY DEF TileRowsOf, DocsIn
<1>4. \A q \in Q : q.doc \in Docs /\ q.doc.service = s
  BY <1>1, DigestAssumption
<1>5. \A d : B(d) \in Nat
  <2>1. \A d : AskedIn(w, points, d) \in SUBSET Demands
    BY DEF AskedIn, ReadIn
  <2>2. \A p \in Demands : points[p] <= points[p]
    OBVIOUS
  <2> QED
    BY <2>1, <2>2, RequestsGrow
<1> HIDE DEF Q, B
<1>6. IsFiniteSet(R)
  <2>1. row \in Surjection(Q, R)
    BY <1>3 DEF Surjection
  <2> HIDE DEF row, R
  <2> QED
    BY <1>2, <2>1, FS_Surjection
<1>7. ASSUME NEW r \in R
      PROVE  /\ r = [doc |-> r.doc, req |-> r.req]
             /\ r.doc \in Docs /\ r.doc.service = s /\ r.req = B(r.doc) /\ r.req \in Nat
  BY <1>3, <1>4, <1>5
<1> QED
  BY <1>6, <1>7 DEF B

LEMMA LimitedFacts ==
  ASSUME NEW rows, IsFiniteSet(rows), NEW S \in Limited(rows)
  PROVE  /\ S \subseteq rows /\ IsFiniteSet(S)
         /\ Cardinality(S) \in Nat /\ Cardinality(S) <= TopRows
         /\ ~CutShort(S) => S = rows
         /\ \A r \in S, q \in rows \ S : q.req <= r.req
<1> DEFINE a == Cardinality(rows)
<1>1. /\ S \subseteq rows /\ Cardinality(S) = Min({a, TopRows})
      /\ \A r \in S, q \in rows \ S : q.req <= r.req
  BY DEF Limited
<1>2. /\ IsFiniteSet(S) /\ Cardinality(S) \in Nat /\ a \in Nat
      /\ TopRows \in Nat
  BY <1>1, FS_Subset, FS_CardinalityType, DigestAssumption
<1> HIDE DEF a
<1>3. Min({a, TopRows}) \in {a, TopRows} /\ Min({a, TopRows}) <= a /\ Min({a, TopRows}) <= TopRows
  <2>1. \E x \in {a, TopRows} : \A y \in {a, TopRows} : x <= y
    BY <1>2
  <2>2. Min({a, TopRows}) \in {a, TopRows} /\ \A y \in {a, TopRows} : Min({a, TopRows}) <= y
    BY <2>1 DEF Min
  <2> QED
    BY <2>2
<1>4. ASSUME ~CutShort(S) PROVE S = rows
  <2>1. Cardinality(S) = Cardinality(rows)
    BY <1>1, <1>2, <1>3, <1>4 DEF CutShort, a
  <2> QED
    BY <1>1, <2>1, FS_Subset
<1> QED
  BY <1>1, <1>2, <1>3, <1>4

\* What the first query saw is in what a later one answers.
LEMMA LaterAsks ==
  ASSUME NEW w, NEW early \in [Demands -> Nat], NEW points \in [Demands -> Nat],
         \A p \in Demands : early[p] <= points[p], NEW d
  PROVE  /\ Requests(early, AskedIn(w, early, d)) \in Nat
         /\ Requests(early, AskedIn(w, early, d)) <= Requests(points, AskedIn(w, points, d))
         /\ Requests(early, AskedIn(w, early, d)) > 0 =>
              \E p \in AskedIn(w, early, d) : p \in AskedIn(w, points, d)
<1>1. /\ AskedIn(w, early, d) \in SUBSET Demands /\ AskedIn(w, points, d) \in SUBSET Demands
      /\ AskedIn(w, early, d) \in SUBSET AskedIn(w, points, d)
  BY DEF AskedIn, ReadIn
<1>2. \A p \in Demands : points[p] <= points[p]
  OBVIOUS
<1>3. Requests(points, AskedIn(w, early, d)) <= Requests(points, AskedIn(w, points, d))
  BY <1>1, <1>2, RequestsGrow
<1>4. /\ Requests(early, AskedIn(w, early, d)) \in Nat
      /\ Requests(early, AskedIn(w, early, d)) <= Requests(points, AskedIn(w, early, d))
      /\ Requests(early, AskedIn(w, early, d)) > 0 => \E p \in AskedIn(w, early, d) : early[p] > 0
  BY <1>1, RequestsGrow
<1>5. Requests(points, AskedIn(w, early, d)) \in Nat /\ Requests(points, AskedIn(w, points, d)) \in Nat
  BY <1>1, <1>2, RequestsGrow
<1> QED
  BY <1>1, <1>3, <1>4, <1>5

LEMMA AskedIsAskedIn ==
  ASSUME NEW d
  PROVE  Asked(d) = Requests(seen, AskedIn(window, seen, d))
<1>1. {p \in Within(seen) : p.doc = d /\ p.origin = "organic"} = AskedIn(window, seen, d)
  BY DEF Within, AskedIn, ReadIn
<1> QED
  BY <1>1 DEF Asked

\* The cells answered have each a request that was seen.
LEMMA CellFacts ==
  ASSUME DigestInv, stage # "idle"
  PROVE  /\ DOMAIN cells = {CellKey(p.doc) : p \in {q \in ReadIn(window, seen) : Listed(q.doc.service)}}
         /\ IsFiniteSet(DOMAIN cells)
         /\ \A k \in DOMAIN cells : /\ Listed(k[1]) /\ ~Unplaceable(k)
                                    /\ k \in {CellKey(d) : d \in Docs}
                                    /\ \E i \in DOMAIN Services : k[1] = Services[i]
<1> DEFINE read == {q \in ReadIn(window, seen) : Listed(q.doc.service)}
           key == [p \in read |-> CellKey(p.doc)]
<1>1. cells = CellRowsOf(window, roster, seen)
  BY DEF DigestInv, Answers
<1>2. DOMAIN cells = {CellKey(p.doc) : p \in read}
  BY <1>1 DEF CellRowsOf, Listed, IsListed
<1>3. read \subseteq Demands /\ \A p \in read : seen[p] > 0 /\ Listed(p.doc.service)
  BY DEF ReadIn
<1>4. IsFiniteSet(read)
  BY <1>3, DigestAssumption, FS_Subset
<1> HIDE DEF read
<1>5. IsFiniteSet(DOMAIN cells)
  <2>1. key \in Surjection(read, DOMAIN cells)
    BY <1>2 DEF Surjection
  <2> HIDE DEF key
  <2> QED
    BY <1>4, <2>1, FS_Surjection
<1>6. ASSUME NEW k \in DOMAIN cells
      PROVE  /\ Listed(k[1]) /\ ~Unplaceable(k)
             /\ k \in {CellKey(d) : d \in Docs}
             /\ \E i \in DOMAIN Services : k[1] = Services[i]
  <2>1. PICK p \in read : k = CellKey(p.doc)
    BY <1>2
  <2>2. p \in Demands /\ p.doc \in Docs /\ Listed(p.doc.service)
    BY <1>3, DigestAssumption
  <2>3. Writable(p)
    <3>1. Shape /\ seen[p] > 0
      BY <1>3 DEF DigestInv
    <3>2. seen[p] <= ledger[p] /\ (ledger[p] > 0 => Writable(p)) /\ seen[p] \in Nat /\ ledger[p] \in Nat
      BY <2>2, <3>1, LedgersAreNumbers DEF Shape
    <3> QED
      BY <3>1, <3>2
  <2>4. k = <<p.doc.service, p.doc.kind, p.doc.cell>>
    BY <2>1 DEF CellKey
  <2>5. ~Unplaceable(k)
    BY <2>3, <2>4 DEF Writable, Unplaceable
  <2>6. \E i \in DOMAIN Services : Services[i] = p.doc.service
    BY <2>2, DigestAssumption
  <2>7. k[1] = p.doc.service
    BY <2>4
  <2>8. \E d \in Docs : k = CellKey(d)
    BY <2>1, <2>2
  <2> QED
    BY <2>2, <2>5, <2>6, <2>7, <2>8
<1> QED
  BY <1>2, <1>5, <1>6 DEF read

LEMMA AnswerFor ==
  ASSUME DigestInv, stage = "done", NEW k \in DOMAIN cells
  PROVE  \E points \in [Demands -> Nat] :
           /\ \A p \in Demands : seen[p] <= points[p] /\ points[p] <= ledger[p]
           /\ TilesOf(tiles, k[1]) \in Limited(TileRowsOf(window, points, k[1]))
           /\ CutShort(TilesOf(tiles, k[1])) => k[1] \in truncated
<1>1. PICK i \in DOMAIN Services : k[1] = Services[i]
  BY CellFacts
<1>2. HasCells(cells, Services[i]) /\ asking = {}
  BY <1>1 DEF HasCells, DigestInv, Assembled
<1>3. AnsweredBy(window, seen, ledger, tiles, truncated, Services[i])
  BY <1>2 DEF DigestInv, Answers
<1> QED
  BY <1>1, <1>3 DEF AnsweredBy

\* The rows named in a cell: those of the documents in it.
NamedIn(k) == {r \in tiles : CellKey(r.doc) = k}

LEMMA NamedFacts ==
  ASSUME NEW points \in [Demands -> Nat], NEW k,
         TilesOf(tiles, k[1]) \in Limited(TileRowsOf(window, points, k[1]))
  PROVE  /\ NamedIn(k) \subseteq TilesOf(tiles, k[1]) /\ IsFiniteSet(NamedIn(k))
         /\ \A r \in NamedIn(k) :
              /\ r.doc \in Docs /\ CellKey(r.doc) = k /\ r.req \in Nat
              /\ r.req = Requests(points, AskedIn(window, points, r.doc))
              /\ r = [doc |-> r.doc, req |-> r.req]
         /\ \A r, q \in NamedIn(k) : r.doc = q.doc => r = q
<1> DEFINE R == TileRowsOf(window, points, k[1])
<1>1. IsFiniteSet(R) /\ \A r \in R : /\ r.doc \in Docs /\ r.req \in Nat
                                     /\ r.req = Requests(points, AskedIn(window, points, r.doc))
                                     /\ r = [doc |-> r.doc, req |-> r.req]
  BY RowFacts
<1> HIDE DEF R
<1>2. TilesOf(tiles, k[1]) \subseteq R /\ IsFiniteSet(TilesOf(tiles, k[1]))
  BY <1>1, LimitedFacts DEF R
<1>3. NamedIn(k) \subseteq TilesOf(tiles, k[1])
  BY DEF NamedIn, TilesOf, CellKey
<1>4. IsFiniteSet(NamedIn(k))
  BY <1>2, <1>3, FS_Subset
<1>5. \A r \in NamedIn(k) : r \in R /\ CellKey(r.doc) = k
  BY <1>2, <1>3 DEF NamedIn
<1>6. \A r, q \in NamedIn(k) : r.doc = q.doc => r = q
  BY <1>1, <1>5
<1> QED
  BY <1>1, <1>3, <1>4, <1>5, <1>6

LEMMA HottestIsOrder ==
  ASSUME NEW k, NEW a, NEW b, NEW c,
         \A r \in {a, b, c} : r.doc \in Docs /\ CellKey(r.doc) = k /\ r.req \in Nat
  PROVE  /\ ~HottestFirst(a, a)
         /\ HottestFirst(a, b) /\ HottestFirst(b, c) => HottestFirst(a, c)
         /\ a.doc # b.doc => HottestFirst(a, b) \/ HottestFirst(b, a)
<1>1. \A r \in {a, b, c} : r.doc.key \in Int /\ r.req \in Int
  BY DigestAssumption
<1>2. a.doc # b.doc => a.doc.key # b.doc.key
  <2>1. CellKey(a.doc) = CellKey(b.doc) /\ a.doc \in Docs /\ b.doc \in Docs
    OBVIOUS
  <2>2. a.doc.service = b.doc.service /\ a.doc.kind = b.doc.kind /\ a.doc.cell = b.doc.cell
    BY <2>1 DEF CellKey
  <2>3. \A d, e \in Docs :
          d.service = e.service /\ d.kind = e.kind /\ d.cell = e.cell /\ d.key = e.key => d = e
    BY DigestAssumption
  <2> QED
    BY <2>1, <2>2, <2>3
<1> QED
  BY <1>1, <1>2 DEF HottestFirst

\* The list of a cell has all of its rows or as many as it may have.
LEMMA TopFacts ==
  ASSUME NEW k, IsFiniteSet(NamedIn(k)),
         \A r \in NamedIn(k) : r.doc \in Docs /\ CellKey(r.doc) = k /\ r.req \in Nat,
         \A r, q \in NamedIn(k) : r.doc = q.doc => r = q
  PROVE  /\ TopOf(k) \subseteq NamedIn(k) /\ IsFiniteSet(TopOf(k))
         /\ TopOf(k) # NamedIn(k) => Cardinality(TopOf(k)) = TopN
<1> DEFINE N == NamedIn(k)
           Hotter(r) == {q \in N : HottestFirst(q, r)}
           rank(r) == Cardinality(Hotter(r))
           Top == TopOf(k)
<1>1. TopN \in Nat \ {0}
  BY DigestAssumption
<1>2. Top = {r \in N : rank(r) < TopN}
  BY DEF TopOf, NamedIn
<1>3. Top \subseteq N
  BY <1>2
<1>4. IsFiniteSet(Top)
  BY <1>3, FS_Subset
<1>5. \A r \in N : Hotter(r) \subseteq N /\ r \notin Hotter(r)
  BY HottestIsOrder
<1>6. \A r \in N : IsFiniteSet(Hotter(r)) /\ rank(r) \in Nat
  <2> HIDE DEF Hotter
  <2> QED
    BY <1>5, FS_Subset, FS_CardinalityType
<1>7. \A q, r \in N : q \in Hotter(r) <=> HottestFirst(q, r)
  OBVIOUS
<1>8. \A q, r \in N : HottestFirst(q, r) => Hotter(q) \subseteq Hotter(r)
  <2>1. SUFFICES ASSUME NEW q \in N, NEW r \in N, HottestFirst(q, r), NEW x \in Hotter(q)
                 PROVE  x \in Hotter(r)
    OBVIOUS
  <2>2. x \in N /\ HottestFirst(x, q)
    OBVIOUS
  <2>3. HottestFirst(x, r)
    BY <2>1, <2>2, HottestIsOrder
  <2> QED
    BY <2>2, <2>3
<1>9. \A q, r \in N : q # r => HottestFirst(q, r) \/ HottestFirst(r, q)
  BY HottestIsOrder
<1> HIDE DEF N, Hotter, Top
<1>10. \A q, r \in N : HottestFirst(q, r) => rank(q) < rank(r)
  <2>1. SUFFICES ASSUME NEW q \in N, NEW r \in N, HottestFirst(q, r) PROVE rank(q) < rank(r)
    OBVIOUS
  <2>2. q \in Hotter(r) /\ Hotter(q) \subseteq Hotter(r) \ {q}
    BY <1>5, <1>7, <1>8, <2>1
  <2>3. IsFiniteSet(Hotter(r)) /\ rank(r) \in Nat /\ rank(q) \in Nat
    BY <1>6
  <2>4. IsFiniteSet(Hotter(r) \ {q}) /\ Cardinality(Hotter(r) \ {q}) = rank(r) - 1
    BY <2>2, <2>3, FS_RemoveElement
  <2>5. rank(q) <= rank(r) - 1
    BY <2>2, <2>4, FS_Subset
  <2> QED
    BY <2>3, <2>5
<1>11. ASSUME Top # N PROVE Cardinality(Top) = TopN
  <2> DEFINE Out == N \ Top
             ranks == {rank(r) : r \in Out}
             tops == {rank(r) : r \in Top}
  <2>1. Out # {} /\ Out \subseteq N
    BY <1>3, <1>11
  <2>2. ranks \subseteq Nat /\ ranks # {}
    BY <1>6, <2>1
  <2>3. PICK x \in Out : \A r \in Out : rank(x) <= rank(r)
    <3>1. PICK m \in ranks : \A n \in ranks : m <= n
      <4> HIDE DEF ranks
      <4> QED
        BY <2>2, LeastNatural
    <3> QED
      BY <3>1
  <2>4. x \in N /\ rank(x) \in Nat /\ rank(x) >= TopN
    BY <1>1, <1>2, <1>6, <2>3
  <2>5. Hotter(x) \subseteq Top
    <3>1. SUFFICES ASSUME NEW r \in Hotter(x), r \notin Top PROVE FALSE
      OBVIOUS
    <3>2. r \in N /\ HottestFirst(r, x)
      BY <1>5, <1>7, <2>4
    <3>3. rank(r) < rank(x) /\ rank(r) \in Nat
      BY <1>6, <1>10, <2>4, <3>2
    <3>4. rank(x) <= rank(r)
      BY <2>3, <3>1, <3>2
    <3> QED
      BY <2>4, <3>3, <3>4
  <2>6. Cardinality(Top) \in Nat /\ Cardinality(Top) >= TopN
    <3>1. rank(x) <= Cardinality(Top) /\ Cardinality(Top) \in Nat
      BY <1>4, <2>5, FS_Subset, FS_CardinalityType
    <3> QED
      BY <1>1, <2>4, <3>1
  <2>7. Cardinality(Top) <= TopN
    <3>1. Top # {}
      BY <1>1, <2>6, FS_EmptySet
    <3>2. tops # {} /\ tops \subseteq 0..(TopN - 1) /\ tops \subseteq Int
      BY <1>1, <1>2, <1>6, <3>1
    <3>3. PICK y \in Top : \A r \in Top : rank(r) <= rank(y)
      <4>1. IsFiniteSet(tops)
        <5>1. 0 \in Int /\ TopN - 1 \in Int
          BY <1>1
        <5>2. IsFiniteSet(0..(TopN - 1))
          BY <5>1, FS_Interval
        <5> HIDE DEF tops
        <5> QED
          BY <3>2, <5>2, FS_Subset
      <4>2. PICK m \in tops : \A n \in tops : n <= m
        <5> HIDE DEF tops
        <5> QED
          BY <3>2, <4>1, GreatestInteger
      <4> QED
        BY <4>2
    <3>4. y \in N /\ rank(y) \in Nat /\ rank(y) < TopN
      BY <1>2, <1>6
    <3>5. Top \subseteq Hotter(y) \union {y}
      <4>1. SUFFICES ASSUME NEW r \in Top, r # y PROVE r \in Hotter(y)
        OBVIOUS
      <4>2. r \in N /\ rank(r) <= rank(y) /\ rank(r) \in Nat
        BY <1>3, <1>6, <3>3
      <4>3. ~HottestFirst(y, r)
        BY <1>10, <3>4, <4>2
      <4> QED
        BY <1>7, <1>9, <3>4, <4>1, <4>2, <4>3
    <3>6. IsFiniteSet(Hotter(y) \union {y}) /\ Cardinality(Hotter(y) \union {y}) = rank(y) + 1
      BY <1>5, <1>6, <3>4, FS_AddElement
    <3>7. Cardinality(Top) <= rank(y) + 1
      BY <3>5, <3>6, FS_Subset
    <3> QED
      BY <1>1, <2>6, <3>4, <3>7
  <2> QED
    BY <1>1, <2>6, <2>7
<1> QED
  BY <1>3, <1>4, <1>11 DEF N, Top

-----------------------------------------------------------------------------
(* The results.                                                            *)

\* What a record names of its cell is its list.
LEMMA RecordFacts ==
  ASSUME DigestInv, NEW k \in DOMAIN records
  PROVE  /\ stage = "done" /\ k \in DOMAIN cells /\ Known(k[2])
         /\ records[k].top = TopOf(k) /\ records[k].row = cells[k]
<1>1. stage = "done"
  BY DEF DigestInv, Assembled
<1>2. records = [l \in Usable(cells) |->
            [service |-> l[1], kind |-> l[2], qk8 |-> IF Placed(l[2]) THEN l[3] ELSE "-",
             row |-> cells[l], top |-> TopOf(l)]]
  BY <1>1 DEF DigestInv, Assembled
<1> QED
  BY <1>1, <1>2 DEF Usable

\* The documents of a cell that a later query answers for.
LEMMA RowOf ==
  ASSUME NEW points \in [Demands -> Nat], NEW d \in Docs, NEW p \in AskedIn(window, points, d)
  PROVE  [doc |-> d, req |-> Requests(points, AskedIn(window, points, d))]
           \in TileRowsOf(window, points, d.service)
<1>1. d \in DocsIn(window, points, d.service)
  BY DEF AskedIn, DocsIn
<1> QED
  BY <1>1 DEF TileRowsOf

\* The variables keep their shape, and a service has no more rows than its limit,
\* whichever of the rows that tie are left out (query.rs, top_tiles).
THEOREM DigestTypeCorrect ==
  Spec => []TypeOK
<1>1. ASSUME DigestInv PROVE TypeOK
  <2>1. Shape /\ asking \subseteq DOMAIN Services
    BY <1>1 DEF DigestInv, Answers, Shape
  <2>2. DOMAIN cells \subseteq {CellKey(d) : d \in Docs}
    <3>1. CASE stage = "idle"
      BY <1>1, <3>1 DEF DigestInv, Answers
    <3>2. CASE stage # "idle"
      BY <1>1, <3>2, CellFacts
    <3> QED
      BY <3>1, <3>2
  <2>3. DOMAIN records \subseteq DOMAIN cells
    BY <1>1, RecordFacts
  <2>4. ASSUME NEW s \in {d.service : d \in Docs}
        PROVE  Cardinality({r \in tiles : r.doc.service = s}) <= TopRows
    <3> DEFINE T == {r \in tiles : r.doc.service = s}
    <3>1. CASE T = {}
      <4>1. Cardinality({}) = 0 /\ TopRows \in Nat
        BY FS_EmptySet, DigestAssumption
      <4> HIDE DEF T
      <4>2. Cardinality(T) <= TopRows
        BY <3>1, <4>1
      <4> QED
        BY <4>2 DEF T
    <3>2. CASE T # {}
      <4>1. PICK r \in tiles : r.doc.service = s
        BY <3>2
      <4>2. stage # "idle"
        BY <1>1, <4>1 DEF DigestInv, Answers
      <4>3. AnsweredBy(window, seen, ledger, tiles, truncated, s)
        BY <1>1, <4>1, <4>2 DEF DigestInv, Answers
      <4>4. PICK points \in [Demands -> Nat] : TilesOf(tiles, s) \in Limited(TileRowsOf(window, points, s))
        BY <4>3 DEF AnsweredBy
      <4>5. IsFiniteSet(TileRowsOf(window, points, s))
        BY RowFacts
      <4>6. Cardinality(TilesOf(tiles, s)) <= TopRows
        BY <4>4, <4>5, LimitedFacts
      <4> QED
        BY <4>6 DEF TilesOf
    <3> QED
      BY <3>1, <3>2
  <2> QED
    BY <2>1, <2>2, <2>3, <2>4 DEF TypeOK, Shape
<1> QED
  BY <1>1, DigestInvAlways, PTL

\* The documents a record names are the hottest of its cell, however many points
\* landed after the first query and whichever rows the limit left out (query.rs,
\* aggregate.rs: take_top).
THEOREM TheHottestAreNamed ==
  Spec => []HottestNamed
<1>1. ASSUME DigestInv PROVE HottestNamed
  <2>1. SUFFICES ASSUME NEW k \in DOMAIN records, NEW r \in records[k].top, NEW d \in Docs,
                        CellKey(d) = k, d \notin Named(k)
                 PROVE  Asked(d) <= r.req
    BY DEF HottestNamed
  <2>2. stage = "done" /\ k \in DOMAIN cells /\ records[k].top = TopOf(k)
    BY <1>1, <2>1, RecordFacts
  <2>3. PICK points \in [Demands -> Nat] :
          /\ \A p \in Demands : seen[p] <= points[p]
          /\ TilesOf(tiles, k[1]) \in Limited(TileRowsOf(window, points, k[1]))
    BY <1>1, <2>2, AnswerFor
  <2> DEFINE N == NamedIn(k)
             R == TileRowsOf(window, points, k[1])
             q == [doc |-> d, req |-> Requests(points, AskedIn(window, points, d))]
             Hotter(x) == {y \in N : HottestFirst(y, x)}
  <2>4. /\ N \subseteq TilesOf(tiles, k[1]) /\ IsFiniteSet(N)
        /\ \A x \in N : x.doc \in Docs /\ CellKey(x.doc) = k /\ x.req \in Nat
    BY <2>3, NamedFacts
  <2>5. TopOf(k) = {x \in N : Cardinality(Hotter(x)) < TopN}
    BY DEF TopOf, NamedIn
  <2>6. r \in N /\ r.req \in Nat /\ Cardinality(Hotter(r)) < TopN
    BY <2>1, <2>2, <2>4, <2>5
  <2>7. /\ Asked(d) \in Nat /\ Asked(d) <= q.req
        /\ Asked(d) > 0 => \E p : p \in AskedIn(window, points, d)
    <3>1. Shape /\ seen \in [Demands -> Nat]
      BY <1>1, LedgersAreNumbers DEF DigestInv
    <3> QED
      BY <2>3, <3>1, LaterAsks, AskedIsAskedIn
  <2>8. CASE Asked(d) = 0
    BY <2>6, <2>8
  <2>9. CASE Asked(d) > 0
    <3>1. q \in R
      <4>1. k[1] = d.service
        BY <2>1 DEF CellKey
      <4> QED
        BY <2>7, <2>9, <4>1, RowOf
    <3>2. IsFiniteSet(R) /\ q.req \in Nat
      BY <3>1, RowFacts
    <3>3. CASE q \notin TilesOf(tiles, k[1])
      <4>1. q.req <= r.req
        BY <2>3, <2>4, <2>6, <3>1, <3>2, <3>3, LimitedFacts
      <4> QED
        BY <2>6, <2>7, <3>2, <4>1
    <3>4. CASE q \in TilesOf(tiles, k[1])
      <4>1. q \in N /\ q.doc = d
        BY <2>1, <3>4 DEF NamedIn, TilesOf
      <4>2. q \notin TopOf(k)
        BY <2>1, <2>2, <4>1 DEF Named
      <4>3. ~(Cardinality(Hotter(q)) < TopN)
        BY <2>5, <4>1, <4>2
      <4>4. ASSUME q.req > r.req PROVE FALSE
        <5>1. Hotter(q) \subseteq Hotter(r)
          <6>1. \A x \in N : HottestFirst(x, q) => x.req >= q.req /\ x.req \in Nat
            BY <2>4, <3>2, <4>1 DEF HottestFirst
          <6>2. \A x \in N : HottestFirst(x, q) => x.req > r.req
            BY <2>6, <3>2, <4>4, <6>1
          <6> QED
            BY <6>2 DEF HottestFirst
        <5>2. Hotter(r) \subseteq N
          OBVIOUS
        <5> HIDE DEF Hotter, N
        <5>3. /\ IsFiniteSet(Hotter(r)) /\ Cardinality(Hotter(r)) \in Nat
              /\ Cardinality(Hotter(q)) <= Cardinality(Hotter(r)) /\ Cardinality(Hotter(q)) \in Nat
          <6>1. IsFiniteSet(Hotter(r))
            BY <2>4, <5>2, FS_Subset
          <6>2. IsFiniteSet(Hotter(q))
            BY <5>1, <6>1, FS_Subset
          <6> QED
            BY <5>1, <6>1, <6>2, FS_Subset, FS_CardinalityType
        <5> QED
          BY <2>6, <4>3, <5>3, DigestAssumption
      <4> QED
        BY <2>6, <2>7, <3>2, <4>4
    <3> QED
      BY <3>3, <3>4
  <2> QED
    BY <2>7, <2>8, <2>9
<1> QED
  BY <1>1, DigestInvAlways, PTL

\* What was asked for is named, or the run says why it may not be (digest.rs,
\* report_digest; aggregate.rs: a digest that describes less would read as a quiet
\* day).
THEOREM NothingIsLeftOutSilently ==
  Spec => []NamedOrExcused
<1>1. ASSUME DigestInv, stage = "done" PROVE ~Reported.unplaceable
  <2>1. {k \in DOMAIN cells : Unplaceable(k)} = {}
    BY <1>1, CellFacts
  <2>2. skipped.unplaceable = Cardinality({k \in DOMAIN cells : Unplaceable(k)})
    BY <1>1 DEF DigestInv, Assembled
  <2>3. skipped.unplaceable = 0
    BY <2>1, <2>2, FS_EmptySet
  <2>4. ~(skipped.unplaceable > 0)
    BY <2>3
  <2> QED
    BY <2>4 DEF Reported
<1>2. ASSUME DigestInv, stage = "done", NEW k \in DOMAIN records PROVE Listed(k[1])
  BY <1>2, RecordFacts, CellFacts
<1>3. ASSUME DigestInv, stage = "done", NEW d \in Docs, Asked(d) > 0, Listed(d.service)
      PROVE  \/ ~Known(d.kind) /\ Reported.unknownKind
             \/ /\ CellKey(d) \in DOMAIN records
                /\ \/ d \in Named(CellKey(d))
                   \/ Cardinality(Named(CellKey(d))) = TopN
                   \/ d.service \in Reported.truncated
  <2> DEFINE k == CellKey(d)
             N == NamedIn(k)
             unknown == {l \in DOMAIN cells : ~Known(l[2])}
  <2>1. Shape /\ seen \in [Demands -> Nat]
    BY <1>3, LedgersAreNumbers DEF DigestInv
  <2>2. \A q \in Demands : seen[q] <= seen[q]
    BY <2>1
  <2>3. PICK p \in AskedIn(window, seen, d) : TRUE
    BY <1>3, <2>1, <2>2, LaterAsks, AskedIsAskedIn
  <2>4. k \in DOMAIN cells /\ IsFiniteSet(DOMAIN cells) /\ ~Unplaceable(k)
    <3>1. p \in ReadIn(window, seen) /\ p.doc = d
      BY <2>3 DEF AskedIn
    <3> QED
      BY <1>3, <3>1, CellFacts
  <2>5. k[1] = d.service /\ k[2] = d.kind
    BY DEF CellKey
  <2>6. CASE ~Known(d.kind)
    <3>1. k \in unknown /\ unknown \subseteq DOMAIN cells
      BY <2>4, <2>5, <2>6
    <3>2. skipped.unknownKind = Cardinality(unknown)
      BY <1>3 DEF DigestInv, Assembled
    <3> HIDE DEF unknown, k
    <3>3. IsFiniteSet(unknown)
      BY <2>4, <3>1, FS_Subset
    <3>4. Cardinality(unknown) \in Nat /\ Cardinality(unknown) # 0
      BY <3>1, <3>3, FS_CardinalityType, FS_EmptySet
    <3>5. skipped.unknownKind > 0
      BY <3>2, <3>4
    <3>6. Reported.unknownKind
      BY <3>5 DEF Reported
    <3> QED
      BY <2>6, <3>6
  <2>7. CASE Known(d.kind)
    <3>1. records = [l \in Usable(cells) |->
            [service |-> l[1], kind |-> l[2], qk8 |-> IF Placed(l[2]) THEN l[3] ELSE "-",
             row |-> cells[l], top |-> TopOf(l)]]
      BY <1>3 DEF DigestInv, Assembled
    <3>2. k \in DOMAIN records
      BY <2>4, <2>5, <2>7, <3>1 DEF Usable
    <3>3. records[k].top = TopOf(k)
      BY <1>3, <3>2, RecordFacts
    <3>4. SUFFICES ASSUME d \notin Named(k), d.service \notin truncated
                   PROVE  Cardinality(Named(k)) = TopN
      BY <3>2 DEF Reported
    <3>5. PICK points \in [Demands -> Nat] :
            /\ \A q \in Demands : seen[q] <= points[q]
            /\ TilesOf(tiles, k[1]) \in Limited(TileRowsOf(window, points, k[1]))
            /\ CutShort(TilesOf(tiles, k[1])) => k[1] \in truncated
      BY <1>3, <2>4, AnswerFor
    <3> DEFINE R == TileRowsOf(window, points, k[1])
               row == [doc |-> d, req |-> Requests(points, AskedIn(window, points, d))]
    <3>6. TilesOf(tiles, k[1]) = R
      <4>1. IsFiniteSet(R)
        BY RowFacts
      <4> QED
        BY <2>5, <3>4, <3>5, <4>1, LimitedFacts
    <3>7. row \in R
      <4>1. p \in AskedIn(window, points, d)
        BY <2>1, <2>3, <3>5 DEF AskedIn, ReadIn
      <4> QED
        BY <2>5, <4>1, RowOf
    <3>8. row \in N /\ row.doc = d
      BY <3>6, <3>7 DEF NamedIn, TilesOf
    <3>9. /\ IsFiniteSet(N)
          /\ \A r \in N : r.doc \in Docs /\ CellKey(r.doc) = k /\ r.req \in Nat
          /\ \A r, q \in N : r.doc = q.doc => r = q
      BY <3>5, NamedFacts
    <3>10. row \notin TopOf(k)
      BY <3>3, <3>4, <3>8 DEF Named
    <3> HIDE DEF row, k
    <3>11. /\ TopOf(k) \subseteq N /\ IsFiniteSet(TopOf(k))
           /\ Cardinality(TopOf(k)) = TopN
      BY <3>8, <3>9, <3>10, TopFacts
    <3> DEFINE doc == [r \in TopOf(k) |-> r.doc]
    <3>12. doc \in Bijection(TopOf(k), Named(k))
      <4>1. Named(k) = {r.doc : r \in TopOf(k)}
        BY <3>3 DEF Named
      <4>2. doc \in Surjection(TopOf(k), Named(k))
        BY <4>1 DEF Surjection
      <4>3. doc \in Injection(TopOf(k), Named(k))
        BY <3>9, <3>11, <4>1 DEF Injection, IsInjective
      <4> QED
        BY <4>2, <4>3 DEF Bijection
    <3> HIDE DEF doc
    <3>13. Cardinality(TopOf(k)) = Cardinality(Named(k))
      BY <3>11, <3>12, FS_Bijection DEF ExistsBijection
    <3> QED
      BY <3>11, <3>13
  <2> QED
    BY <2>6, <2>7
<1>4. ASSUME DigestInv PROVE NamedOrExcused
  BY <1>1, <1>2, <1>3, <1>4 DEF NamedOrExcused
<1> QED
  BY <1>4, DigestInvAlways, PTL

\* What the rows of a list add up to is a sum over them.
LEMMA RowsAreSum ==
  ASSUME NEW S, IsFiniteSet(S)
  PROVE  MapThenSumSet(LAMBDA r : r.req, S) = Sum([r \in S |-> r.req], S)
<1> DEFINE f == [r \in S |-> r.req]
           Reckoned(g) == g = [s \in SUBSET S |-> IF s = {} THEN 0
                                ELSE AnyOf(s).req + g[s \ {AnyOf(s)}]]
<1>1. \A s \in SUBSET S : s # {} => f[AnyOf(s)] = AnyOf(s).req
  BY AnyOfIsOne
<1>2. MapThenSumSet(LAMBDA r : r.req, S) = (CHOOSE g : Reckoned(g))[S]
  BY DEF MapThenSumSet, MapThenFoldSet, AnyOf
<1>3. ASSUME NEW g PROVE Sums(g, f, S) <=> Reckoned(g)
  <2> HIDE DEF f
  <2> QED
    BY <1>1 DEF Sums
<1> HIDE DEF Reckoned, f
<1>4. PICK h : Sums(h, f, S) /\ MapThenSumSet(LAMBDA r : r.req, S) = h[S]
  BY <1>2, <1>3, SumsExist
<1>5. PICK g : Sums(g, f, S) /\ Sum(f, S) = g[S]
  BY SumsExist, SumByChoice
<1> QED
  BY <1>4, <1>5, SumsOfParts, S \in SUBSET S DEF f

\* When nothing lands between the queries, the tiles named in a cell were asked for
\* at most as often as the cell, and exactly as often when they are all there
\* (query.rs: cells and top_tiles add up the same demand).
THEOREM TilesAddUpToCells ==
  Spec => []TilesAddUp
<1>1. ASSUME DigestInv, stage = "done", seen = ledger, NEW k \in DOMAIN records
      PROVE  LET sum == MapThenSumSet(LAMBDA r : r.req, records[k].top) IN
             /\ sum <= records[k].row.req
             /\ Cardinality(records[k].top) < TopN /\ k[1] \notin truncated => sum = records[k].row.req
  <2> DEFINE N == NamedIn(k)
             T == TopOf(k)
             R == TileRowsOf(window, seen, k[1])
             C == {p \in ReadIn(window, seen) : CellKey(p.doc) = k /\ p.origin = "organic"}
             D == {p \in C : \E r \in T : r.doc = p.doc}
             g == Counted(seen)
             at == [p \in D |-> CHOOSE r \in T : r.doc = p.doc]
             f == [r \in T |-> r.req]
             sum == MapThenSumSet(LAMBDA r : r.req, records[k].top)
  <2>1. k \in DOMAIN cells /\ records[k].top = T /\ records[k].row = cells[k]
    BY <1>1, RecordFacts
  <2>2. seen \in [Demands -> Nat]
    BY <1>1, LedgersAreNumbers DEF DigestInv
  <2>3. /\ TilesOf(tiles, k[1]) \in Limited(R)
        /\ CutShort(TilesOf(tiles, k[1])) => k[1] \in truncated
    <3>1. PICK points \in [Demands -> Nat] :
            /\ \A p \in Demands : seen[p] <= points[p] /\ points[p] <= ledger[p]
            /\ TilesOf(tiles, k[1]) \in Limited(TileRowsOf(window, points, k[1]))
            /\ CutShort(TilesOf(tiles, k[1])) => k[1] \in truncated
      BY <1>1, <2>1, AnswerFor
    <3>2. \A p \in Demands : points[p] = seen[p]
      BY <1>1, <2>2, <3>1
    <3>3. points = seen
      BY <2>2, <3>2
    <3> QED
      BY <3>1, <3>3
  <2>4. /\ N \subseteq TilesOf(tiles, k[1]) /\ IsFiniteSet(N)
        /\ \A r \in N : /\ r.doc \in Docs /\ CellKey(r.doc) = k /\ r.req \in Nat
                        /\ r.req = Requests(seen, AskedIn(window, seen, r.doc))
        /\ \A r, q \in N : r.doc = q.doc => r = q
    BY <2>2, <2>3, NamedFacts
  <2>5. T \subseteq N /\ IsFiniteSet(T) /\ (T # N => Cardinality(T) = TopN)
    BY <2>4, TopFacts
  <2>6. C \in SUBSET Demands /\ IsFiniteSet(C)
    <3>1. C \in SUBSET Demands
      BY DEF ReadIn
    <3> HIDE DEF C
    <3> QED
      BY <3>1, DigestAssumption, FS_Subset
  <2>7. cells[k].req = Sum(g, C)
    <3>1. cells = CellRowsOf(window, roster, seen)
      BY <1>1 DEF DigestInv, Answers
    <3>2. Listed(k[1])
      BY <1>1, <2>1, CellFacts
    <3> DEFINE read == {p \in ReadIn(window, seen) : IsListed(roster, p.doc.service)}
               Organics(l) == {p \in {q \in read : CellKey(q.doc) = l} : p.origin = "organic"}
    <3>3. cells[k].req = Requests(seen, Organics(k))
      BY <2>1, <3>1 DEF CellRowsOf
    <3>4. \A p : CellKey(p.doc) = k => p.doc.service = k[1]
      BY DEF CellKey
    <3>5. Organics(k) = C
      BY <3>2, <3>4 DEF Listed, IsListed
    <3> QED
      BY <2>6, <3>3, <3>5, RequestsAreSum
  <2>8. \A p \in C : g[p] \in Nat
    BY <2>2, <2>6, CountedIsNatural
  <2>9. D \in SUBSET C /\ IsFiniteSet(D)
    <3>1. D \in SUBSET C
      OBVIOUS
    <3> HIDE DEF D
    <3> QED
      BY <2>6, <3>1, FS_Subset
  <2>10. \A p \in D : at[p] \in T /\ at[p].doc = p.doc
    OBVIOUS
  <2>11. ASSUME NEW r \in T
         PROVE  {p \in D : at[p] = r} = AskedIn(window, seen, r.doc)
    <3>1. r \in N /\ CellKey(r.doc) = k
      BY <2>4, <2>5
    <3>2. AskedIn(window, seen, r.doc) \subseteq D
      BY <3>1 DEF AskedIn
    <3>3. \A p \in D : at[p] = r <=> p.doc = r.doc
      <4> HIDE DEF at, D
      <4> QED
        BY <2>4, <2>5, <2>10, <3>1
    <3>4. \A p \in D : p \in ReadIn(window, seen) /\ p.origin = "organic"
      OBVIOUS
    <3> HIDE DEF at, D
    <3> QED
      BY <3>2, <3>3, <3>4 DEF AskedIn
  <2>12. \A r \in T : f[r] = Sum(g, {p \in D : at[p] = r})
    <3>1. ASSUME NEW r \in T PROVE r.req = Sum(g, AskedIn(window, seen, r.doc))
      <4>1. AskedIn(window, seen, r.doc) \in SUBSET Demands
        BY DEF AskedIn, ReadIn
      <4> QED
        BY <2>4, <2>5, <4>1, RequestsAreSum
    <3> HIDE DEF at, D, g
    <3> QED
      BY <2>11, <3>1
  <2> HIDE DEF at, D, C, g, T, N, R
  <2>13. Sum(f, T) = Sum(g, D)
    <3> DEFINE part == [r \in T |-> Sum(g, {p \in D : at[p] = r})]
    <3>1. \A p \in D : g[p] \in Int
      BY <2>8, <2>9
    <3>2. Sum(g, D) = Sum(part, T)
      BY <2>5, <2>9, <2>10, <3>1, SumByPlaces
    <3>3. \A r \in T : f[r] = part[r]
      BY <2>12
    <3> HIDE DEF part, f
    <3>4. Sum(f, T) = Sum(part, T)
      BY <2>5, <3>3, SumOfEquals
    <3> QED
      BY <3>2, <3>4
  <2>14. sum = Sum(g, D)
    BY <2>1, <2>5, <2>13, RowsAreSum
  <2>15. Sum(g, D) <= Sum(g, C)
    BY <2>6, <2>8, <2>9, SumOfNaturals
  <2>16. ASSUME Cardinality(T) < TopN, k[1] \notin truncated PROVE D = C
    <3>1. T = N
      BY <2>5, <2>16, DigestAssumption
    <3>2. TilesOf(tiles, k[1]) = R
      <4>1. IsFiniteSet(R)
        BY <2>2, RowFacts DEF R
      <4> QED
        BY <2>3, <2>16, <4>1, LimitedFacts
    <3>3. ASSUME NEW p \in C PROVE \E r \in N : r.doc = p.doc
      <4> DEFINE row == [doc |-> p.doc, req |-> Requests(seen, AskedIn(window, seen, p.doc))]
      <4>1. /\ p \in AskedIn(window, seen, p.doc) /\ CellKey(p.doc) = k
            /\ p.doc \in Docs /\ p.doc.service = k[1]
        BY <2>6, DigestAssumption DEF C, AskedIn, CellKey
      <4>2. row \in R
        BY <2>2, <4>1, RowOf DEF R
      <4>3. row \in N /\ row.doc = p.doc
        BY <3>2, <4>1, <4>2 DEF N, NamedIn, TilesOf
      <4> QED
        BY <4>3
    <3> QED
      BY <3>1, <3>3 DEF D
  <2> QED
    BY <2>1, <2>7, <2>14, <2>15, <2>16
<1> QED
  <2>1. ASSUME DigestInv PROVE TilesAddUp
    BY <1>1, <2>1 DEF TilesAddUp
  <2> QED
    BY <2>1, DigestInvAlways, PTL

-----------------------------------------------------------------------------
(* Dates.  A year that starts in March has its leap day at its end.        *)

\* The leap years up to a year, from year 1 on.
LeapsTo(year) == year \div 4 - year \div 100 + year \div 400

\* A year is the place it has in its four, its century and its era.
MadeOf(year, e, c, a, b) ==
  /\ e \in Nat /\ c \in 0..3 /\ a \in 0..24 /\ b \in 0..3
  /\ year = 400 * e + 100 * c + 4 * a + b

LEMMA YearParts ==
  ASSUME NEW year, NEW e, NEW c, NEW a, NEW b, MadeOf(year, e, c, a, b)
  PROVE  /\ year \in Nat
         /\ year \div 4 = 100 * e + 25 * c + a /\ year \div 100 = 4 * e + c /\ year \div 400 = e
         /\ LeapsTo(year) = 97 * e + 24 * c + a
         /\ Leap(year) <=> b = 0 /\ (a # 0 \/ c = 0)
<1>1. /\ e \in Nat /\ c \in 0..3 /\ a \in 0..24 /\ b \in 0..3
      /\ year = 400 * e + 100 * c + 4 * a + b /\ year \in Nat
  BY DEF MadeOf
<1>2. year \div 4 = 100 * e + 25 * c + a /\ year % 4 = b
  <2>1. 100 * e + 25 * c + a \in Int /\ b \in Nat /\ b < 4 /\ year = 4 * (100 * e + 25 * c + a) + b
    BY <1>1
  <2> QED
    BY <1>1, <2>1, QuotientIs
<1>3. year \div 100 = 4 * e + c /\ year % 100 = 4 * a + b
  <2>1. 4 * e + c \in Int /\ 4 * a + b \in Nat /\ 4 * a + b < 100 /\ year = 100 * (4 * e + c) + (4 * a + b)
    BY <1>1
  <2> QED
    BY <1>1, <2>1, QuotientIs
<1>4. year \div 400 = e /\ year % 400 = 100 * c + 4 * a + b
  <2>1. 100 * c + 4 * a + b \in Nat /\ 100 * c + 4 * a + b < 400 /\ year = 400 * e + (100 * c + 4 * a + b)
    BY <1>1
  <2> QED
    BY <1>1, <2>1, QuotientIs
<1>5. Leap(year) <=> b = 0 /\ (a # 0 \/ c = 0)
  <2>1. Leap(year) <=> b = 0 /\ (4 * a + b = 0 => 100 * c + 4 * a + b = 0)
    BY <1>2, <1>3, <1>4 DEF Leap
  <2> QED
    BY <1>1, <2>1
<1>6. LeapsTo(year) = 97 * e + 24 * c + a
  <2>1. LeapsTo(year) = (100 * e + 25 * c + a) - (4 * e + c) + e
    BY <1>2, <1>3, <1>4 DEF LeapsTo
  <2> QED
    BY <1>1, <2>1
<1> QED
  BY <1>1, <1>2, <1>3, <1>4, <1>5, <1>6

LEMMA YearHasParts ==
  ASSUME NEW year \in Nat
  PROVE  \E e, c, a, b : MadeOf(year, e, c, a, b)
<1>1. PICK e \in Nat, r \in 0..399 : year = 400 * e + r
  <2> DEFINE q == year \div 400
             s == year % 400
  <2>1. q \in Int /\ s \in 0..(400 - 1) /\ year = 400 * q + s
    BY DivMod
  <2> HIDE DEF q, s
  <2> QED
    BY <2>1
<1>2. PICK c \in 0..3, t \in 0..99 : r = 100 * c + t
  <2> DEFINE q == r \div 100
             s == r % 100
  <2>1. q \in Int /\ s \in 0..(100 - 1) /\ r = 100 * q + s
    BY DivMod
  <2> HIDE DEF q, s
  <2> QED
    BY <2>1
<1>3. PICK a \in 0..24, b \in 0..3 : t = 4 * a + b
  <2> DEFINE q == t \div 4
             s == t % 4
  <2>1. q \in Int /\ s \in 0..(4 - 1) /\ t = 4 * q + s
    BY DivMod
  <2> HIDE DEF q, s
  <2> QED
    BY <2>1
<1>4. MadeOf(year, e, c, a, b)
  BY <1>1, <1>2, <1>3 DEF MadeOf
<1> QED
  BY <1>4

\* One more leap day with each leap year.
LEMMA NextLeapsTo ==
  ASSUME NEW year \in Nat
  PROVE  /\ LeapsTo(year) \in Int
         /\ LeapsTo(year + 1) = LeapsTo(year) + IF Leap(year + 1) THEN 1 ELSE 0
<1>1. PICK e, c, a, b : MadeOf(year, e, c, a, b)
  BY YearHasParts
<1>2. /\ e \in Nat /\ c \in 0..3 /\ a \in 0..24 /\ b \in 0..3
      /\ year = 400 * e + 100 * c + 4 * a + b
  BY <1>1 DEF MadeOf
<1>3. LeapsTo(year) = 97 * e + 24 * c + a
  BY <1>1, YearParts
<1>4. CASE b # 3
  <2>1. MadeOf(year + 1, e, c, a, b + 1) /\ b + 1 # 0
    BY <1>2, <1>4 DEF MadeOf
  <2>2. LeapsTo(year + 1) = 97 * e + 24 * c + a /\ ~Leap(year + 1)
    BY <2>1, YearParts
  <2> QED
    BY <1>2, <1>3, <2>2
<1>5. CASE b = 3 /\ a # 24
  <2>1. MadeOf(year + 1, e, c, a + 1, 0) /\ a + 1 # 0
    BY <1>2, <1>5 DEF MadeOf
  <2>2. LeapsTo(year + 1) = 97 * e + 24 * c + (a + 1) /\ Leap(year + 1)
    BY <2>1, YearParts
  <2> QED
    BY <1>2, <1>3, <2>2
<1>6. CASE b = 3 /\ a = 24 /\ c # 3
  <2>1. MadeOf(year + 1, e, c + 1, 0, 0) /\ c + 1 # 0
    BY <1>2, <1>6 DEF MadeOf
  <2>2. LeapsTo(year + 1) = 97 * e + 24 * (c + 1) + 0 /\ ~Leap(year + 1)
    BY <2>1, YearParts
  <2> QED
    BY <1>2, <1>3, <1>6, <2>2
<1>7. CASE b = 3 /\ a = 24 /\ c = 3
  <2>1. MadeOf(year + 1, e + 1, 0, 0, 0)
    BY <1>2, <1>7 DEF MadeOf
  <2>2. LeapsTo(year + 1) = 97 * (e + 1) + 24 * 0 + 0 /\ Leap(year + 1)
    BY <2>1, YearParts
  <2> QED
    BY <1>2, <1>3, <1>7, <2>2
<1> QED
  BY <1>2, <1>3, <1>4, <1>5, <1>6, <1>7

\* The days before a month of a year that starts in March.
Started(month) == (153 * month + 2) \div 5

LEMMA MonthsStart ==
  /\ Started(0) = 0 /\ Started(1) = 31 /\ Started(2) = 61 /\ Started(3) = 92
  /\ Started(4) = 122 /\ Started(5) = 153 /\ Started(6) = 184 /\ Started(7) = 214
  /\ Started(8) = 245 /\ Started(9) = 275 /\ Started(10) = 306 /\ Started(11) = 337
BY DEF Started

MarchYear(year, month) == IF month <= 2 THEN year - 1 ELSE year

MarchMonth(month) == IF month <= 2 THEN month + 9 ELSE month - 3

\* days_from_civil counts whole years of 365 days, leap days, months and days.
LEMMA DaysByYears ==
  ASSUME NEW y \in Nat, y >= 1970, NEW m \in 1..12, NEW n \in Int,
         NEW Y, Y = MarchYear(y, m), NEW M, M = MarchMonth(m)
  PROVE  DaysFromCivil(<<y, m, n>>) = 365 * Y + LeapsTo(Y) + Started(M) + n - 719469
<1>1. Y \in Nat /\ M \in 0..11
  BY DEF MarchYear, MarchMonth
<1>2. PICK e, c, a, b : MadeOf(Y, e, c, a, b)
  BY <1>1, YearHasParts
<1> DEFINE r == 100 * c + 4 * a + b
<1>3. /\ e \in Nat /\ c \in 0..3 /\ a \in 0..24 /\ b \in 0..3
      /\ Y = 400 * e + r /\ r \in Nat
  BY <1>2 DEF MadeOf
<1>4. Y \div 400 = e /\ LeapsTo(Y) = 97 * e + 24 * c + a
  BY <1>2, YearParts
<1>5. r \div 4 = 25 * c + a /\ r \div 100 = c
  <2>1. MadeOf(r, 0, c, a, b)
    BY <1>3 DEF MadeOf
  <2> HIDE DEF r
  <2>2. r \div 4 = 100 * 0 + 25 * c + a /\ r \div 100 = 4 * 0 + c
    BY <2>1, YearParts
  <2> QED
    BY <1>3, <2>2
<1>6. Div(Y, 400) = e /\ Div(r, 4) = 25 * c + a /\ Div(r, 100) = c /\ Div(153 * M + 2, 5) = Started(M)
  <2>1. Y >= 0 /\ r >= 0 /\ 153 * M + 2 >= 0
    BY <1>1, <1>3
  <2> HIDE DEF r
  <2> QED
    BY <1>4, <1>5, <2>1 DEF Div, Started
<1>7. DaysFromCivil(<<y, m, n>>) =
        Div(Y, 400) * 146097
          + ((Y - Div(Y, 400) * 400) * 365 + Div(Y - Div(Y, 400) * 400, 4) - Div(Y - Div(Y, 400) * 400, 100)
             + (Div(153 * M + 2, 5) + n - 1))
          - 719468
  BY <1>1 DEF DaysFromCivil, MarchYear, MarchMonth
<1>8. Y - Div(Y, 400) * 400 = r
  BY <1>3, <1>6
<1> HIDE DEF r
<1>9. DaysFromCivil(<<y, m, n>>) = e * 146097 + (r * 365 + (25 * c + a) - c + (Started(M) + n - 1)) - 719468
  BY <1>6, <1>7, <1>8
<1>10. Started(M) \in Int
  BY <1>1, MonthsStart
<1> QED
  BY <1>3, <1>4, <1>9, <1>10

LEMMA LeapsSince ==
  ASSUME NEW year \in Nat, year >= 1970
  PROVE  Cardinality({y \in 1970..(year - 1) : Leap(y)}) = LeapsTo(year - 1) - 477
<1> DEFINE Leaps(k) == {y \in 1970..(1969 + k) : Leap(y)}
           Wrong == {k \in Nat : ~(IsFiniteSet(Leaps(k)) /\ Cardinality(Leaps(k)) = LeapsTo(1969 + k) - 477)}
<1>1. SUFFICES ASSUME Wrong # {} PROVE FALSE
  <2>1. year - 1970 \in Nat /\ 1969 + (year - 1970) = year - 1
    OBVIOUS
  <2>2. Wrong = {}
    <3> HIDE DEF Wrong
    <3> QED
      BY <1>1
  <2>3. Cardinality(Leaps(year - 1970)) = LeapsTo(1969 + (year - 1970)) - 477
    <3> HIDE DEF Leaps
    <3> QED
      BY <2>1, <2>2
  <2> QED
    BY <2>1, <2>3
<1>2. PICK k \in Wrong : \A l \in Wrong : k <= l
  <2>1. Wrong \subseteq Nat
    OBVIOUS
  <2> HIDE DEF Wrong
  <2> QED
    BY ONLY <1>1, <2>1, LeastNatural
<1>3. CASE k = 0
  <2>1. LeapsTo(1969) = 477
    <3>1. MadeOf(1969, 4, 3, 17, 1)
      BY DEF MadeOf
    <3>2. LeapsTo(1969) = 97 * 4 + 24 * 3 + 17
      BY <3>1, YearParts
    <3> QED
      BY <3>2
  <2>2. Leaps(0) = {}
    OBVIOUS
  <2>3. IsFiniteSet({}) /\ Cardinality({}) = 0
    BY FS_EmptySet
  <2>4. LeapsTo(1969 + 0) - 477 = 0
    BY <2>1
  <2> HIDE DEF Leaps
  <2> QED
    BY <1>2, <1>3, <2>2, <2>3, <2>4
<1>4. CASE k # 0
  <2> DEFINE j == k - 1
             z == 1969 + k
  <2>1. j \in Nat /\ j \notin Wrong /\ 1969 + j = z - 1 /\ z \in Nat /\ z - 1 \in Nat /\ (z - 1) + 1 = z
    BY <1>2, <1>4
  <2>2. IsFiniteSet(Leaps(j)) /\ Cardinality(Leaps(j)) = LeapsTo(z - 1) - 477
    BY <2>1
  <2>3. LeapsTo(z - 1) \in Int /\ LeapsTo(z) = LeapsTo(z - 1) + IF Leap(z) THEN 1 ELSE 0
    BY <2>1, NextLeapsTo
  <2>4. 1970..z = (1970..(z - 1)) \union {z} /\ z \notin 1970..(z - 1)
    BY <1>2, <1>4
  <2>5. CASE Leap(z)
    <3>1. Leaps(k) = Leaps(j) \union {z} /\ z \notin Leaps(j)
      BY <2>1, <2>4, <2>5
    <3> HIDE DEF Leaps, z, j
    <3>2. IsFiniteSet(Leaps(k)) /\ Cardinality(Leaps(k)) = Cardinality(Leaps(j)) + 1
      BY <2>2, <3>1, FS_AddElement
    <3>3. Cardinality(Leaps(k)) = LeapsTo(z) - 477
      BY <2>2, <2>3, <2>5, <3>2
    <3> QED
      BY <1>2, <3>2, <3>3 DEF z
  <2>6. CASE ~Leap(z)
    <3>1. Leaps(k) = Leaps(j)
      BY <2>1, <2>4, <2>6
    <3> HIDE DEF Leaps, z, j
    <3>2. Cardinality(Leaps(k)) = LeapsTo(z) - 477
      BY <2>2, <2>3, <2>6, <3>1
    <3> QED
      BY <1>2, <2>2, <3>1, <3>2 DEF z
  <2> QED
    BY <2>5, <2>6
<1> QED
  BY <1>3, <1>4

LeapDays(y) == IF Leap(y) THEN 1 ELSE 0

DaysBefore(y, m) == MapThenSumSet(LAMBDA k : MonthLength(y, k), 1..(m - 1))

LEMMA MonthsBefore ==
  ASSUME NEW y, NEW m \in 1..12, NEW leap, leap = LeapDays(y)
  PROVE  DaysBefore(y, m)
           = IF m = 1 THEN 0 ELSE IF m = 2 THEN 31 ELSE Started(m - 3) + 59 + leap
<1> DEFINE f == [k \in 1..12 |-> MonthLength(y, k)]
           S == 1..(m - 1)
           Reckoned(g) == g = [s \in SUBSET S |-> IF s = {} THEN 0
                                ELSE MonthLength(y, AnyOf(s)) + g[s \ {AnyOf(s)}]]
           total == DaysBefore(y, m)
<1>1. total = Sum(f, S)
  <2>1. \A s \in SUBSET S : s # {} => f[AnyOf(s)] = MonthLength(y, AnyOf(s))
    <3>1. S \subseteq 1..12
      OBVIOUS
    <3> HIDE DEF S
    <3>2. \A s \in SUBSET S : s # {} => AnyOf(s) \in 1..12
      BY <3>1, AnyOfIsOne
    <3> QED
      BY <3>2
  <2>2. total = (CHOOSE g : Reckoned(g))[S]
    BY DEF DaysBefore, MapThenSumSet, MapThenFoldSet, AnyOf
  <2>3. ASSUME NEW g PROVE Sums(g, f, S) <=> Reckoned(g)
    <3> HIDE DEF f
    <3> QED
      BY <2>1 DEF Sums
  <2>4. IsFiniteSet(S)
    BY FS_Interval
  <2> HIDE DEF Reckoned, f
  <2>5. PICK h : Sums(h, f, S) /\ total = h[S]
    BY <2>2, <2>3, <2>4, SumsExist
  <2>6. PICK g : Sums(g, f, S) /\ Sum(f, S) = g[S]
    BY <2>4, SumsExist, SumByChoice
  <2> HIDE DEF total, S
  <2> QED
    BY <2>4, <2>5, <2>6, SumsOfParts, S \in SUBSET S
<1>2. leap \in 0..1
  BY DEF LeapDays
<1>3. /\ f[1] = 31 /\ f[2] = 28 + leap /\ f[3] = 31 /\ f[4] = 30 /\ f[5] = 31 /\ f[6] = 30
      /\ f[7] = 31 /\ f[8] = 31 /\ f[9] = 30 /\ f[10] = 31 /\ f[11] = 30
  BY DEF MonthLength, LeapDays
<1>4. \A k \in 1..12 : f[k] \in Int
  BY DEF MonthLength
<1> HIDE DEF f
<1>5. ASSUME NEW k \in 0..11 PROVE Sum(f, 1..(k + 1)) = f[k + 1] + Sum(f, 1..k)
  <2>1. 1..(k + 1) = (1..k) \union {k + 1} /\ k + 1 \notin 1..k
    OBVIOUS
  <2>3. IsFiniteSet(1..k)
    BY FS_Interval
  <2>2. k + 1 \in 1..12 /\ \A l \in 1..k : l \in 1..12
    OBVIOUS
  <2> QED
    BY <1>4, <2>1, <2>2, <2>3, SumAdds
<1>6. Sum(f, 1..0) = 0
  <2>1. 1..0 = {}
    OBVIOUS
  <2> QED
    BY <2>1, SumOfNone
<1>7. Sum(f, 1..1) = 31 /\ Sum(f, 1..2) = 59 + leap /\ Sum(f, 1..3) = 90 + leap
  <2>1. /\ Sum(f, 1..1) = f[1] + Sum(f, 1..0) /\ Sum(f, 1..2) = f[2] + Sum(f, 1..1)
        /\ Sum(f, 1..3) = f[3] + Sum(f, 1..2)
    BY <1>5, 0 + 1 = 1, 1 + 1 = 2, 2 + 1 = 3
  <2> QED
    BY <1>2, <1>3, <1>6, <2>1
<1>8. /\ Sum(f, 1..4) = 120 + leap /\ Sum(f, 1..5) = 151 + leap /\ Sum(f, 1..6) = 181 + leap
      /\ Sum(f, 1..7) = 212 + leap
  <2>1. /\ Sum(f, 1..4) = f[4] + Sum(f, 1..3) /\ Sum(f, 1..5) = f[5] + Sum(f, 1..4)
        /\ Sum(f, 1..6) = f[6] + Sum(f, 1..5) /\ Sum(f, 1..7) = f[7] + Sum(f, 1..6)
    BY <1>5, 3 + 1 = 4, 4 + 1 = 5, 5 + 1 = 6, 6 + 1 = 7
  <2> QED
    BY <1>2, <1>3, <1>7, <2>1
<1>9. /\ Sum(f, 1..8) = 243 + leap /\ Sum(f, 1..9) = 273 + leap /\ Sum(f, 1..10) = 304 + leap
      /\ Sum(f, 1..11) = 334 + leap
  <2>1. /\ Sum(f, 1..8) = f[8] + Sum(f, 1..7) /\ Sum(f, 1..9) = f[9] + Sum(f, 1..8)
        /\ Sum(f, 1..10) = f[10] + Sum(f, 1..9) /\ Sum(f, 1..11) = f[11] + Sum(f, 1..10)
    BY <1>5, 7 + 1 = 8, 8 + 1 = 9, 9 + 1 = 10, 10 + 1 = 11
  <2> QED
    BY <1>2, <1>3, <1>8, <2>1
<1>10. Sum(f, S) = IF m = 1 THEN 0 ELSE IF m = 2 THEN 31 ELSE Started(m - 3) + 59 + leap
  <2> DEFINE before(k) == Sum(f, 1..k)
  <2>1. /\ before(0) = 0 /\ before(1) = 31 /\ before(2) = Started(0) + 59 + leap
        /\ before(3) = Started(1) + 59 + leap /\ before(4) = Started(2) + 59 + leap
        /\ before(5) = Started(3) + 59 + leap /\ before(6) = Started(4) + 59 + leap
        /\ before(7) = Started(5) + 59 + leap /\ before(8) = Started(6) + 59 + leap
        /\ before(9) = Started(7) + 59 + leap /\ before(10) = Started(8) + 59 + leap
        /\ before(11) = Started(9) + 59 + leap
    BY <1>2, <1>6, <1>7, <1>8, <1>9, MonthsStart
  <2> HIDE DEF before
  <2>2. ASSUME NEW k \in 0..11
        PROVE  before(k) = IF k = 0 THEN 0 ELSE IF k = 1 THEN 31 ELSE Started(k - 2) + 59 + leap
    <3>1. k \in {0, 1, 2, 3, 4, 5, 6, 7, 8, 9, 10, 11}
      OBVIOUS
    <3> QED
      BY <2>1, <3>1
  <2>3. m - 1 \in 0..11 /\ (m - 1) - 2 = m - 3
    OBVIOUS
  <2>4. before(m - 1) = IF m - 1 = 0 THEN 0 ELSE IF m - 1 = 1 THEN 31 ELSE Started((m - 1) - 2) + 59 + leap
    BY <2>2, <2>3
  <2> QED
    BY <2>3, <2>4 DEF before
<1> QED
  BY <1>1, <1>10

\* days_from_civil numbers the days as counting the years, the leap years, the
\* months and the days before does.
LEMMA NumbersAgree ==
  ASSUME NEW y \in Nat, y >= 1970, NEW m \in 1..12, NEW n \in Int
  PROVE  /\ DaysFromCivil(<<y, m, n>>) = DayOf(<<y, m, n>>)
         /\ DayOf(<<y, m, n>>) \in Int
<1> DEFINE Y == MarchYear(y, m)
           M == MarchMonth(m)
           leap == LeapDays(y)
           before == DaysBefore(y, m)
           leaps == Cardinality({z \in 1970..(y - 1) : Leap(z)})
<1>1. DaysFromCivil(<<y, m, n>>) = 365 * Y + LeapsTo(Y) + Started(M) + n - 719469
  BY DaysByYears
<1>2. DayOf(<<y, m, n>>) = 365 * (y - 1970) + leaps + before + n - 1
  BY DEF DayOf, DaysBefore
<1>3. before = IF m = 1 THEN 0 ELSE IF m = 2 THEN 31 ELSE Started(m - 3) + 59 + leap
  BY MonthsBefore
<1>4. leaps = LeapsTo(y - 1) - 477
  BY LeapsSince
<1>5. /\ y - 1 \in Nat /\ (y - 1) + 1 = y /\ LeapsTo(y - 1) \in Int
      /\ LeapsTo(y) = LeapsTo(y - 1) + leap
  <2>1. y - 1 \in Nat /\ (y - 1) + 1 = y
    OBVIOUS
  <2>2. LeapsTo(y - 1) \in Int /\ LeapsTo((y - 1) + 1) = LeapsTo(y - 1) + IF Leap((y - 1) + 1) THEN 1 ELSE 0
    BY <2>1, NextLeapsTo
  <2> QED
    BY <2>1, <2>2 DEF LeapDays
<1>6. leap \in 0..1
  BY DEF LeapDays
<1>7. CASE m \in {1, 2}
  <2>1. Y = y - 1 /\ M = m + 9
    BY <1>7 DEF MarchYear, MarchMonth
  <2> HIDE DEF Y, M, leap, before, leaps
  <2>2. before = Started(M) - 306 /\ Started(M) \in Int
    BY <1>3, <1>7, <2>1, MonthsStart
  <2> QED
    BY <1>1, <1>2, <1>4, <1>5, <2>1, <2>2
<1>8. CASE m \in 3..12
  <2>1. Y = y /\ M = m - 3
    BY <1>8 DEF MarchYear, MarchMonth
  <2>2. Started(M) \in Int
    <3>1. M \in {0, 1, 2, 3, 4, 5, 6, 7, 8, 9}
      BY <1>8, <2>1
    <3> HIDE DEF M
    <3> QED
      BY <3>1, MonthsStart
  <2> HIDE DEF Y, M, leap, before, leaps
  <2>3. before = Started(M) + 59 + leap
    BY <1>3, <1>8, <2>1
  <2> QED
    BY <1>1, <1>2, <1>4, <1>5, <1>6, <2>1, <2>2, <2>3
<1> QED
  BY <1>7, <1>8

\* n is the number in its era, and r the year, of a day of the b-th year of the a-th
\* four of the c-th century.
DayOfEra(n, r, c, a, b, day) ==
  /\ c \in 0..3 /\ a \in 0..24 /\ b \in 0..3 /\ day \in Nat /\ day <= 365
  /\ day = 365 => b = 3 /\ (a # 24 \/ c = 3)
  /\ r = 100 * c + 4 * a + b
  /\ n = 36524 * c + 1461 * a + 365 * b + day

\* A year of an era is found from each of its days.
LEMMA YearOfDay ==
  ASSUME NEW n, NEW r, NEW c, NEW a, NEW b, NEW day, DayOfEra(n, r, c, a, b, day)
  PROVE  /\ n \in Nat /\ n < 146097
         /\ n - n \div 1460 + n \div 36524 - n \div 146096 \in Nat
         /\ (n - n \div 1460 + n \div 36524 - n \div 146096) \div 365 = r
<1> DEFINE rest == 24 * c + a + 365 * b + day
           years == 1461 * a + 365 * b + day
<1>0. /\ c \in 0..3 /\ a \in 0..24 /\ b \in 0..3 /\ day \in Nat /\ day <= 365
      /\ day = 365 => b = 3 /\ (a # 24 \/ c = 3)
      /\ r = 100 * c + 4 * a + b
      /\ n = 36524 * c + 1461 * a + 365 * b + day
  BY DEF DayOfEra
<1>1. /\ c \in Nat /\ a \in Nat /\ b \in Nat /\ day \in Nat
      /\ c <= 3 /\ a <= 24 /\ b <= 3 /\ day <= 365
  BY ONLY <1>0
<1>2. n \in Nat /\ r \in Nat /\ rest \in Nat /\ years \in Nat
  BY ONLY <1>0, <1>1
<1>3. rest <= 1556 /\ years <= 36524
  BY ONLY <1>1
<1>4. n = 1460 * (25 * c + a) + rest /\ n = 36524 * c + years
  BY ONLY <1>0, <1>1
<1>5. n - (25 * c + a) + c = 365 * r + day
  BY ONLY <1>0, <1>1
<1>6. years = 36524 => a = 24 /\ b = 3 /\ day = 365 /\ c = 3
  BY ONLY <1>0, <1>1
<1>7. rest >= 1460 => day >= 1
  BY ONLY <1>1
<1>8. rest < 1460 => day <= 364
  BY ONLY <1>0, <1>1
<1> HIDE DEF rest, years
<1>9. (n = 146096 <=> years = 36524) /\ n <= 146096
  BY <1>1, <1>2, <1>3, <1>4, <1>6
<1>10. n \div 1460 = IF rest < 1460 THEN 25 * c + a ELSE 25 * c + a + 1
  <2>1. CASE rest < 1460
    <3>1. 25 * c + a \in Int
      BY <1>1
    <3>2. n \div 1460 = 25 * c + a
      BY <1>2, <1>4, <2>1, <3>1, QuotientIs
    <3> QED
      BY <2>1, <3>2
  <2>2. CASE rest >= 1460
    <3>1. /\ 25 * c + a + 1 \in Int /\ rest - 1460 \in Nat /\ rest - 1460 < 1460
          /\ n = 1460 * (25 * c + a + 1) + (rest - 1460)
      BY <1>1, <1>2, <1>3, <1>4, <2>2
    <3>2. n \div 1460 = 25 * c + a + 1
      BY <1>2, <3>1, QuotientIs
    <3> QED
      BY <1>2, <2>2, <3>2
  <2> QED
    BY <1>2, <2>1, <2>2
<1>11. n \div 36524 - n \div 146096 = c
  <2>1. CASE years < 36524
    <3>1. n < 146096 /\ n = 146096 * 0 + n
      BY <1>2, <1>9, <2>1
    <3>2. n \div 36524 = c
      BY <1>1, <1>2, <1>4, <2>1, QuotientIs
    <3>3. n \div 146096 = 0
      BY <1>2, <3>1, QuotientIs
    <3> QED
      BY <1>1, <3>2, <3>3
  <2>2. CASE years = 36524
    <3>1. n = 36524 * 4 + 0 /\ n = 146096 * 1 + 0 /\ c = 3
      BY <1>6, <1>9, <2>2
    <3>2. n \div 36524 = 4
      BY <1>2, <3>1, QuotientIs
    <3>3. n \div 146096 = 1
      BY <1>2, <3>1, QuotientIs
    <3> QED
      BY <3>1, <3>2, <3>3
  <2> QED
    BY <1>2, <1>3, <2>1, <2>2
<1> DEFINE x == n - n \div 1460 + n \div 36524 - n \div 146096
           rem == IF rest < 1460 THEN day ELSE day - 1
<1>12. n \div 1460 \in Int /\ n \div 36524 \in Int /\ n \div 146096 \in Int
  BY <1>2
<1>13. rem \in Nat /\ rem < 365
  BY <1>1, <1>2, <1>7, <1>8
<1>14. x = 365 * r + rem /\ x \in Int
  BY <1>1, <1>2, <1>5, <1>10, <1>11, <1>12
<1> HIDE DEF x, rem
<1>15. x \div 365 = r /\ x \in Nat
  BY <1>2, <1>13, <1>14, QuotientIs
<1> QED
  BY <1>2, <1>9, <1>15 DEF x

\* February has its 29th day at the end of a year that starts in March.
LEMMA LeapAfter ==
  ASSUME NEW year, NEW e, NEW c, NEW a, NEW b, MadeOf(year, e, c, a, b), Leap(year + 1)
  PROVE  b = 3 /\ (a # 24 \/ c = 3)
<1>1. /\ e \in Nat /\ c \in 0..3 /\ a \in 0..24 /\ b \in 0..3
      /\ year = 400 * e + 100 * c + 4 * a + b
  BY DEF MadeOf
<1>2. ASSUME b # 3 PROVE FALSE
  <2>1. MadeOf(year + 1, e, c, a, b + 1) /\ b + 1 # 0
    BY <1>1, <1>2 DEF MadeOf
  <2> QED
    BY <2>1, YearParts
<1>3. ASSUME b = 3, a = 24, c # 3 PROVE FALSE
  <2>1. MadeOf(year + 1, e, c + 1, 0, 0) /\ c + 1 # 0
    BY <1>1, <1>3 DEF MadeOf
  <2> QED
    BY <2>1, YearParts
<1> QED
  BY <1>2, <1>3

\* A day's place in its year tells its month.
LEMMA MonthOfDay ==
  ASSUME NEW y, NEW m \in 1..12, NEW n \in 1..MonthLength(y, m),
         NEW M, M = MarchMonth(m), NEW day, day = Started(M) + n - 1
  PROVE  /\ M \in 0..11 /\ Started(M) \in Nat /\ n \in Nat /\ day \in Nat /\ day <= 365
         /\ day = 365 => m = 2 /\ Leap(y)
         /\ (5 * day + 2) \div 153 = M
<1>1. MonthLength(y, m) \in Nat
  BY DEF MonthLength
<1>2. n \in Nat /\ 1 <= n /\ n <= MonthLength(y, m)
  BY <1>1
<1>3. /\ M \in 0..11 /\ Started(M) \in Nat
      /\ Started(M) + MonthLength(y, m) <= 366
      /\ Started(M) + MonthLength(y, m) = 366 => m = 2 /\ Leap(y)
      /\ 153 * M <= 5 * Started(M) + 2
      /\ 5 * (Started(M) + MonthLength(y, m) - 1) + 2 < 153 * (M + 1)
  <2>1. CASE m \in {1, 2, 3, 4}
    BY <2>1, MonthsStart DEF MarchMonth, MonthLength
  <2>2. CASE m \in {5, 6, 7, 8}
    BY <2>2, MonthsStart DEF MarchMonth, MonthLength
  <2>3. CASE m \in {9, 10, 11, 12}
    BY <2>3, MonthsStart DEF MarchMonth, MonthLength
  <2>4. m \in {1, 2, 3, 4} \union {5, 6, 7, 8} \union {9, 10, 11, 12}
    OBVIOUS
  <2> QED
    BY <2>1, <2>2, <2>3, <2>4
<1>4. /\ day \in Nat /\ day <= 365 /\ (day = 365 => m = 2 /\ Leap(y))
      /\ 153 * M <= 5 * day + 2 /\ 5 * day + 2 < 153 * (M + 1) /\ M \in Nat
  <2> DEFINE s == Started(M)
             len == MonthLength(y, m)
  <2>1. s \in Nat /\ len \in Nat /\ M \in 0..11 /\ s + len <= 366
    BY ONLY <1>1, <1>3
  <2>2. (s + len = 366 => m = 2 /\ Leap(y)) /\ day = s + n - 1 /\ n <= len
    BY <1>2, <1>3
  <2>3. 153 * M <= 5 * s + 2 /\ 5 * (s + len - 1) + 2 < 153 * (M + 1)
    BY <1>3
  <2> HIDE DEF s, len
  <2>4. day \in Nat /\ day <= 365 /\ (day = 365 => s + len = 366)
    BY ONLY <1>2, <2>1, <2>2
  <2>5. 153 * M <= 5 * day + 2 /\ 5 * day + 2 < 153 * (M + 1)
    BY ONLY <1>2, <2>1, <2>2, <2>3
  <2> QED
    BY ONLY <2>1, <2>2, <2>4, <2>5
<1>5. (5 * day + 2) \div 153 = M
  <2> DEFINE x == 5 * day + 2
             rem == x - 153 * M
  <2>1. x \in Int /\ M \in Int /\ rem \in Nat /\ rem < 153 /\ x = 153 * M + rem
    BY ONLY <1>4
  <2> HIDE DEF x, rem
  <2>2. x \div 153 = M
    BY <2>1, QuotientIs
  <2> QED
    BY <2>2 DEF x
<1> QED
  BY <1>2, <1>3, <1>4, <1>5

\* civil_from_days gives a date back.
LEMMA DatesReadBack ==
  ASSUME NEW y \in Nat, y >= 1970, NEW m \in 1..12, NEW n \in 1..MonthLength(y, m)
  PROVE  CivilFromDays(DaysFromCivil(<<y, m, n>>)) = <<y, m, n>>
<1> DEFINE Y == MarchYear(y, m)
           M == MarchMonth(m)
           day == Started(M) + n - 1
           days == DaysFromCivil(<<y, m, n>>) + 719468
<1>1. /\ M \in 0..11 /\ Started(M) \in Nat /\ n \in Nat /\ day \in Nat /\ day <= 365
      /\ day = 365 => m = 2 /\ Leap(y)
      /\ (5 * day + 2) \div 153 = M
  BY MonthOfDay
<1>2. Y \in Nat /\ (m = 2 => Y + 1 = y)
  BY DEF MarchYear
<1>3. DaysFromCivil(<<y, m, n>>) = 365 * Y + LeapsTo(Y) + Started(M) + n - 719469
  BY <1>1, DaysByYears
<1>4. y = (IF m <= 2 THEN Y + 1 ELSE Y) /\ m = (IF M < 10 THEN M + 3 ELSE M - 9)
  BY DEF MarchYear, MarchMonth
<1> HIDE DEF Y, M
<1>5. PICK e, c, a, b : MadeOf(Y, e, c, a, b)
  BY <1>2, YearHasParts
<1> DEFINE r == 100 * c + 4 * a + b
           k == 36524 * c + 1461 * a + 365 * b + day
<1>6. /\ e \in Nat /\ c \in 0..3 /\ a \in 0..24 /\ b \in 0..3
      /\ Y = 400 * e + r /\ r \in Nat
      /\ LeapsTo(Y) = 97 * e + 24 * c + a
  <2>1. /\ e \in Nat /\ c \in 0..3 /\ a \in 0..24 /\ b \in 0..3
        /\ Y = 400 * e + 100 * c + 4 * a + b
    BY ONLY <1>5 DEF MadeOf
  <2>2. LeapsTo(Y) = 97 * e + 24 * c + a
    BY <1>5, YearParts
  <2>3. r \in Nat /\ Y = 400 * e + r
    BY ONLY <2>1
  <2> QED
    BY <2>1, <2>2, <2>3
<1>7. day = 365 => b = 3 /\ (a # 24 \/ c = 3)
  BY <1>1, <1>2, <1>5, LeapAfter
<1>8. days = 146097 * e + k
  BY <1>1, <1>3, <1>6
<1>9. r \div 4 = 25 * c + a /\ r \div 100 = c
  <2>1. MadeOf(r, 0, c, a, b)
    BY <1>6 DEF MadeOf
  <2> HIDE DEF r
  <2>2. r \div 4 = 100 * 0 + 25 * c + a /\ r \div 100 = 4 * 0 + c
    BY <2>1, YearParts
  <2> QED
    BY <1>6, <2>2
<1>10. k - (365 * r + (25 * c + a) - c) = day
  BY <1>1, <1>6
<1> HIDE DEF day
<1>11. /\ k \in Nat /\ k < 146097
       /\ k - k \div 1460 + k \div 36524 - k \div 146096 \in Nat
       /\ (k - k \div 1460 + k \div 36524 - k \div 146096) \div 365 = r
  <2>1. r = 100 * c + 4 * a + b /\ k = 36524 * c + 1461 * a + 365 * b + day
    OBVIOUS
  <2> HIDE DEF r, k, day
  <2>2. DayOfEra(k, r, c, a, b, day)
    BY ONLY <1>1, <1>6, <1>7, <2>1 DEF DayOfEra
  <2> QED
    BY ONLY <2>2, YearOfDay
<1> HIDE DEF r, k, days
<1>12. days \in Nat /\ days \div 146097 = e
  <2>1. days \in Nat
    BY ONLY <1>6, <1>8, <1>11
  <2> QED
    BY <1>6, <1>8, <1>11, <2>1, QuotientIs
<1>13. Div(days, 146097) = e /\ days - Div(days, 146097) * 146097 = k
  BY <1>6, <1>8, <1>11, <1>12 DEF Div
<1> DEFINE yearOfEra == Div(k - Div(k, 1460) + Div(k, 36524) - Div(k, 146096), 365)
           dayOfYear == k - (365 * yearOfEra + Div(yearOfEra, 4) - Div(yearOfEra, 100))
           monthPrime == Div(5 * dayOfYear + 2, 153)
           month == IF monthPrime < 10 THEN monthPrime + 3 ELSE monthPrime - 9
           year == yearOfEra + e * 400
<1>14. CivilFromDays(DaysFromCivil(<<y, m, n>>)) =
         <<IF month <= 2 THEN year + 1 ELSE year, month, dayOfYear - Div(153 * monthPrime + 2, 5) + 1>>
  <2> DEFINE x == DaysFromCivil(<<y, m, n>>)
  <2>1. x + 719468 = days
    BY SMT DEF days
  <2>2. Div(IF days >= 0 THEN days ELSE days - 146096, 146097) = e
    BY <1>12, <1>13, SMT
  <2>3. k = days - e * 146097
    BY ONLY <1>13, SMTT(20)
  <2> HIDE DEF x, days
  <2>4. CivilFromDays(x) =
          <<IF month <= 2 THEN year + 1 ELSE year, month, dayOfYear - Div(153 * monthPrime + 2, 5) + 1>>
    BY ONLY <2>1, <2>2, <2>3, SMT DEF CivilFromDays
  <2> QED
    BY <2>4 DEF x
<1>15. yearOfEra = r
  <2> DEFINE x == k - k \div 1460 + k \div 36524 - k \div 146096
  <2>1. Div(k, 1460) = k \div 1460 /\ Div(k, 36524) = k \div 36524 /\ Div(k, 146096) = k \div 146096
    BY <1>11 DEF Div
  <2>2. x >= 0
    BY <1>11
  <2>3. yearOfEra = Div(x, 365)
    BY ONLY <2>1
  <2> HIDE DEF x
  <2>4. Div(x, 365) = x \div 365
    BY <2>2 DEF Div
  <2> QED
    BY ONLY <1>11, <2>3, <2>4 DEF x
<1> HIDE DEF yearOfEra
<1>16. dayOfYear = day
  <2>1. Div(r, 4) = 25 * c + a /\ Div(r, 100) = c
    BY <1>6, <1>9 DEF Div
  <2> QED
    BY ONLY <1>10, <1>15, <2>1
<1> HIDE DEF dayOfYear
<1>17. monthPrime = M
  <2>1. 5 * day + 2 >= 0
    BY <1>1
  <2> QED
    BY <1>1, <1>16, <2>1 DEF Div
<1> HIDE DEF monthPrime
<1>18. month = m
  BY <1>4, <1>17
<1>19. year = Y
  BY <1>6, <1>15
<1>20. dayOfYear - Div(153 * monthPrime + 2, 5) + 1 = n
  <2>1. Div(153 * M + 2, 5) = Started(M)
    <3>1. 153 * M + 2 >= 0
      BY <1>1
    <3> QED
      BY <3>1 DEF Div, Started
  <2> QED
    BY ONLY <1>1, <1>16, <1>17, <2>1 DEF day
<1> HIDE DEF month, year
<1> QED
  BY <1>4, <1>14, <1>18, <1>19, <1>20

IsDay(y, m, n) == y \in Nat /\ y >= 1970 /\ m \in 1..12 /\ n \in 1..MonthLength(y, m)

\* The day after a date has one, the next in its month, the first of the next
\* month or the first of the next year.
LEMMA NextDay ==
  ASSUME NEW y, NEW m, NEW n, IsDay(y, m, n)
  PROVE  \E z, l, d : IsDay(z, l, d) /\ DaysFromCivil(<<z, l, d>>) = DaysFromCivil(<<y, m, n>>) + 1
<1> DEFINE Y == MarchYear(y, m)
           M == MarchMonth(m)
<1>0. y \in Nat /\ y >= 1970 /\ m \in 1..12 /\ n \in 1..MonthLength(y, m)
  BY DEF IsDay
<1>1. MonthLength(y, m) \in Nat /\ n \in Nat /\ 1 <= n /\ n <= MonthLength(y, m)
  BY <1>0 DEF MonthLength
<1>2. DaysFromCivil(<<y, m, n>>) = 365 * Y + LeapsTo(Y) + Started(M) + n - 719469
  BY <1>0, <1>1, DaysByYears
<1>3. Y \in Nat /\ M \in 0..11 /\ Started(M) \in Nat
  <2>1. Y \in Nat
    BY <1>0 DEF MarchYear
  <2> QED
    BY <1>0, <2>1, MonthOfDay
<1>4. LeapsTo(Y) \in Int
  BY <1>0, <1>3, NextLeapsTo
<1>5. CASE n < MonthLength(y, m)
  <2>1. n + 1 \in 1..MonthLength(y, m) /\ n + 1 \in Int
    BY <1>0, <1>1, <1>5
  <2>2. DaysFromCivil(<<y, m, n + 1>>) = 365 * Y + LeapsTo(Y) + Started(M) + (n + 1) - 719469
    BY <1>0, <2>1, DaysByYears
  <2> HIDE DEF Y, M
  <2>3. DaysFromCivil(<<y, m, n + 1>>) = DaysFromCivil(<<y, m, n>>) + 1
    BY <1>0, <1>1, <1>2, <1>3, <1>4, <2>2
  <2> QED
    BY <1>0, <2>1, <2>3 DEF IsDay
<1>6. CASE n = MonthLength(y, m) /\ m # 12
  <2> DEFINE l == m + 1
             Z == MarchYear(y, l)
             L == MarchMonth(l)
  <2>1. l \in 1..12 /\ 1 \in Int
    BY <1>0, <1>6
  <2>2. DaysFromCivil(<<y, l, 1>>) = 365 * Z + LeapsTo(Z) + Started(L) + 1 - 719469
    BY <1>0, <2>1, DaysByYears
  <2>3. 1 \in 1..MonthLength(y, l)
    BY <1>0 DEF MonthLength
  <2>4. CASE m = 2
    <3>1. Z = y /\ Y = y - 1 /\ y - 1 \in Nat /\ (y - 1) + 1 = y /\ M = 11 /\ L = 0
      BY <1>0, <2>4 DEF MarchYear, MarchMonth
    <3> HIDE DEF Z, Y, M, L, l
    <3>2. LeapsTo(y) = LeapsTo(y - 1) + IF Leap(y) THEN 1 ELSE 0
      <4>1. LeapsTo((y - 1) + 1) = LeapsTo(y - 1) + IF Leap((y - 1) + 1) THEN 1 ELSE 0
        BY <1>0, <3>1, NextLeapsTo
      <4> QED
        BY <1>0, <3>1, <4>1
    <3>3. n = 28 + IF Leap(y) THEN 1 ELSE 0
      BY <1>0, <1>6, <2>4 DEF MonthLength
    <3>4. Started(11) = 337 /\ Started(0) = 0
      BY <1>0, MonthsStart
    <3>5. DaysFromCivil(<<y, l, 1>>) = DaysFromCivil(<<y, m, n>>) + 1
      BY <1>0, <1>1, <1>2, <1>4, <2>2, <3>1, <3>2, <3>3, <3>4
    <3> QED
      BY <1>0, <2>1, <2>3, <3>5 DEF IsDay
  <2>5. CASE m # 2
    <3>1. Z = Y
      BY <1>0, <2>5 DEF MarchYear
    <3>2. Started(L) = Started(M) + n
      <4>1. CASE m \in {1, 3, 4, 5, 6}
        BY <1>0, <1>6, <4>1, MonthsStart DEF MarchMonth, MonthLength
      <4>2. CASE m \in {7, 8, 9, 10, 11}
        BY <1>0, <1>6, <4>2, MonthsStart DEF MarchMonth, MonthLength
      <4>3. m \in {1, 3, 4, 5, 6} \union {7, 8, 9, 10, 11}
        BY <1>0, <1>6, <2>5
      <4> QED
        BY <1>0, <4>1, <4>2, <4>3
    <3> HIDE DEF Z, Y, M, L, l
    <3>3. DaysFromCivil(<<y, l, 1>>) = DaysFromCivil(<<y, m, n>>) + 1
      BY <1>0, <1>1, <1>2, <1>3, <1>4, <2>2, <3>1, <3>2
    <3> QED
      BY <1>0, <2>1, <2>3, <3>3 DEF IsDay
  <2> QED
    BY ONLY <2>4, <2>5
<1>7. CASE n = MonthLength(y, m) /\ m = 12
  <2> DEFINE z == y + 1
             Z == MarchYear(z, 1)
             L == MarchMonth(1)
  <2>1. z \in Nat /\ z >= 1970 /\ 1 \in 1..12 /\ 1 \in Int
    BY <1>0
  <2>2. DaysFromCivil(<<z, 1, 1>>) = 365 * Z + LeapsTo(Z) + Started(L) + 1 - 719469
    BY <1>0, <2>1, DaysByYears
  <2>3. 1 \in 1..MonthLength(z, 1)
    BY <1>0 DEF MonthLength
  <2>4. Z = y /\ Y = y /\ M = 9 /\ L = 10 /\ n = 31
    BY <1>0, <1>7 DEF MarchYear, MarchMonth, MonthLength
  <2>5. Started(9) = 275 /\ Started(10) = 306
    BY <1>0, MonthsStart
  <2> HIDE DEF Z, Y, M, L, z
  <2>6. DaysFromCivil(<<z, 1, 1>>) = DaysFromCivil(<<y, m, n>>) + 1
    BY <1>0, <1>1, <1>2, <1>4, <2>2, <2>4, <2>5
  <2> QED
    BY <1>0, <2>1, <2>3, <2>6 DEF IsDay
<1>8. n < MonthLength(y, m) \/ n = MonthLength(y, m)
  BY ONLY <1>1
<1> QED
  BY ONLY <1>5, <1>6, <1>7, <1>8

\* A window of a date is that day, from its start to the start of the next.
LEMMA WindowOfDate ==
  ASSUME NEW when, when \in (Nat \ 0..1969) \X Nat \X Nat, IsDate(when)
  PROVE  /\ DaysFromCivil(when) = DayOf(when)
         /\ CivilFromDays(DaysFromCivil(when)) = when
         /\ Covered(when, -2..2) = {0}
<1> DEFINE y == when[1]
           m == when[2]
           n == when[3]
<1>1. /\ y \in Nat /\ y >= 1970 /\ m \in 1..12 /\ n \in 1..MonthLength(y, m)
      /\ n \in Nat /\ when = <<y, m, n>>
  BY DEF IsDate
<1> HIDE DEF y, m, n
<1>2. DaysFromCivil(when) = DayOf(when) /\ DayOf(when) \in Int
  <2>1. n \in Int
    BY <1>1
  <2>2. DaysFromCivil(<<y, m, n>>) = DayOf(<<y, m, n>>) /\ DayOf(<<y, m, n>>) \in Int
    BY <1>1, <2>1, NumbersAgree
  <2> QED
    BY <1>1, <2>2
<1>3. CivilFromDays(DaysFromCivil(when)) = when
  <2>1. CivilFromDays(DaysFromCivil(<<y, m, n>>)) = <<y, m, n>>
    BY ONLY <1>1, DatesReadBack
  <2> QED
    BY <1>1, <2>1
<1>4. PICK z, l, d : /\ z \in Nat /\ z >= 1970 /\ l \in 1..12 /\ d \in 1..MonthLength(z, l)
                     /\ DaysFromCivil(<<z, l, d>>) = DaysFromCivil(<<y, m, n>>) + 1
  <2>1. IsDay(y, m, n)
    BY ONLY <1>1 DEF IsDay
  <2>2. PICK z, l, d : IsDay(z, l, d) /\ DaysFromCivil(<<z, l, d>>) = DaysFromCivil(<<y, m, n>>) + 1
    BY ONLY <2>1, NextDay
  <2> QED
    BY ONLY <2>2 DEF IsDay
<1> DEFINE next == <<z, l, d>>
<1>5. UpTo(when) = next
  <2>1. CivilFromDays(DaysFromCivil(next)) = next
    BY ONLY <1>4, DatesReadBack
  <2>2. DaysFromCivil(next) = DaysFromCivil(when) + 1
    BY <1>1, <1>4
  <2> HIDE DEF next
  <2> QED
    BY <2>1, <2>2 DEF UpTo
<1>6. IsDate(next)
  BY <1>4 DEF IsDate
<1>7. DayOf(next) = DayOf(when) + 1
  <2>1. d \in Int
    <3>1. MonthLength(z, l) \in Nat
      BY DEF MonthLength
    <3> QED
      BY <1>4, <3>1
  <2>2. DaysFromCivil(next) = DayOf(next)
    BY <1>4, <2>1, NumbersAgree
  <2>3. DaysFromCivil(next) = DaysFromCivil(when) + 1
    BY <1>1, <1>4
  <2> HIDE DEF next
  <2> QED
    BY <1>2, <2>2, <2>3
<1> HIDE DEF next
<1>8. Covered(when, -2..2) = {k \in -2..2 : DayOf(when) <= DayOf(when) + k /\ DayOf(when) + k < DayOf(when) + 1}
  BY <1>5, <1>6, <1>7 DEF Covered, From
<1>9. \A k \in -2..2 : DayOf(when) <= DayOf(when) + k /\ DayOf(when) + k < DayOf(when) + 1 <=> k = 0
  BY <1>2
<1> QED
  BY <1>2, <1>3, <1>8, <1>9

\* Of every date from 1970 on the window is that day and no part of another, and
\* days_from_civil and civil_from_days are inverse there (time.rs, window.rs).
THEOREM WindowsAreWholeDays ==
  Spec => []DayIsWhole
<1>1. ASSUME DigestInv PROVE DayIsWhole
  <2>1. date \in Dates /\ window = Covered(date, -2..2)
    BY <1>1 DEF DigestInv, Shape
  <2>2. \A d \in Dates : d \in (Nat \ 0..1969) \X Nat \X Nat /\ IsDate(d)
    BY DigestAssumption
  <2>3. date \in (Nat \ 0..1969) \X Nat \X Nat /\ IsDate(date)
    BY <2>1, <2>2
  <2> QED
    BY <2>1, <2>3, WindowOfDate DEF DayIsWhole
<1> QED
  BY <1>1, DigestInvAlways, PTL
=============================================================================
