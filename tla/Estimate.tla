------------------------------ MODULE Estimate ------------------------------
(***************************************************************************)
(* What a plan costs, and what not warming costs: estimate.rs, with the    *)
(* manifests and the pricing table it reads (manifest.rs, pricing.rs).     *)
(*                                                                         *)
(* Amounts are whole numbers in units that make them so.  A quotient is    *)
(* the pair of what is divided and what divides it.                        *)
(***************************************************************************)
EXTENDS Integers, Sequences, FiniteSets, FiniteSetsExt

CONSTANT None   \* null

-----------------------------------------------------------------------------
(* Documents.                                                              *)

Axes == {"source", "algo", "param"}

Kinds == {"content", "tileset", "subtree", "meta"}

\* What okibi knows of resources, and one that is the vendor's.
Resources == {"cpu_ms", "egress_byte", "vendors"}

Some(S) == S \union {None}

IsMap(f, S, T) == DOMAIN f \subseteq S /\ \A x \in DOMAIN f : f[x] \in T

IsBilling(b) == b.profile \in STRING /\ IsMap(b.per_gen, Resources, Some(Nat))

IsCost(c) ==
  /\ c.default_gen \in Nat \ {0} /\ c.default_bytes \in Nat /\ c.warm_above \in Some(Nat)
  /\ c.concurrency \in Nat /\ c.rate \in Nat
  /\ c.billing = None \/ IsBilling(c.billing)

\* A template is the set of the axes it has a placeholder for.
IsManifest(m) ==
  /\ m.url \subseteq Axes /\ IsMap(m.meta_urls, Kinds, Some(SUBSET Axes))
  /\ IsCost(m.cost) /\ m.resolution \in BOOLEAN

IsPricing(p) == p.profile \in STRING /\ IsMap(p.units, Resources, Nat)

-----------------------------------------------------------------------------
(* Prices.                                                                 *)

\* What the table does not price is free.
Unit(pricing, resource) ==
  IF resource \in DOMAIN pricing.units THEN pricing.units[resource] ELSE 0

\* A null amount is what the digest measured, where it measures that.
AmountOf(resource, amount, tile) ==
  IF amount # None THEN amount
  ELSE CASE resource = "cpu_ms" -> tile.gen
         [] resource = "egress_byte" -> tile.bytes
         [] OTHER -> 0

\* What one generation costs; nothing under a table for another profile.
CostOf(cost, pricing, tile) ==
  IF cost.billing = None \/ (cost.billing # None /\ cost.billing.profile # pricing.profile) THEN 0
  ELSE MapThenSumSet(LAMBDA r : AmountOf(r, cost.billing.per_gen[r], tile) * Unit(pricing, r),
                     DOMAIN cost.billing.per_gen)

\* The sum of a field, and of the cost, over the first n tiles.
SumOf(tiles, n, field) == MapThenSumSet(LAMBDA i : tiles[i][field], 1..n)

Usd(cost, pricing, tiles, n) == MapThenSumSet(LAMBDA i : CostOf(cost, pricing, tiles[i]), 1..n)

AtLeastOne(n) == IF n = 0 THEN 1 ELSE n

\* Parts a unit of time is counted in: what concurrency and rate divide by.
Parts(cost) == AtLeastOne(cost.concurrency) * AtLeastOne(cost.rate)

\* In such parts: by work or by rate, whichever binds.
WallClock(cost, gen, count) ==
  Max({gen * AtLeastOne(cost.rate),
       IF cost.rate > 0 THEN count * AtLeastOne(cost.concurrency) ELSE 0})

-----------------------------------------------------------------------------
(* The estimate of a plan: of the tiles in order, the first n are kept.    *)

\* What a cell says about the tiles nobody named: its observed tiles, gen, p95.
WarmCost(cost, pricing, tiles, n) ==
  LET gen == SumOf(tiles, n, "gen")
      billed == cost.billing # None /\ "cpu_ms" \in DOMAIN cost.billing.per_gen
                  /\ cost.billing.per_gen["cpu_ms"] # None
  IN  [tiles   |-> n,
       wall    |-> WallClock(cost, gen, n),
       cpu     |-> IF billed THEN cost.billing.per_gen["cpu_ms"] * n ELSE gen,
       usd     |-> Usd(cost, pricing, tiles, n),
       storage |-> SumOf(tiles, n, "bytes")]

Observed(cells) == MapThenSumSet(LAMBDA k : cells[k].observed, DOMAIN cells)

\* Slip: the tiles that were cut count as warmed.
UncoveredByAll(cells, tiles, n) == Max({0, Observed(cells) - Len(tiles)})

\* observed.saturating_sub(kept)
Uncovered(cells, tiles, n) == Max({0, Observed(cells) - n})

\* The waiting they amount to, each cell's share at its own pace.
WeightedWait(cells, uncovered) ==
  IF Observed(cells) = 0 \/ uncovered = 0 THEN <<0, 1>>
  ELSE <<uncovered * MapThenSumSet(LAMBDA k : cells[k].observed * cells[k].gen, DOMAIN cells),
         Observed(cells)>>

NoWarmCost(cells, tiles, n) ==
  LET slow == {cells[k].p95 : k \in DOMAIN cells} \ {None} IN
  [affected |-> Uncovered(cells, tiles, n),
   wait     |-> WeightedWait(cells, Uncovered(cells, tiles, n)),
   p95      |-> IF slow = {} THEN None ELSE Max(slow)]

Levels == <<50, 80, 90, 95>>

\* Slip: a level is reached once it is passed.
ReachesLate(tiles, n, level) ==
  SumOf(tiles, n, "req") * 100 > level * SumOf(tiles, Len(tiles), "req")

\* covered / total >= target
Reaches(tiles, n, level) ==
  SumOf(tiles, n, "req") * 100 >= level * SumOf(tiles, Len(tiles), "req")

\* The cumulative curve: where each level of coverage is first reached.
Marginal(cost, pricing, tiles) ==
  IF SumOf(tiles, Len(tiles), "req") = 0 THEN <<>>
  ELSE [l \in DOMAIN Levels |->
          LET n == Min({i \in 1..Len(tiles) : Reaches(tiles, i, Levels[l])}) IN
          [coverage |-> Levels[l], tiles |-> n, usd |-> Usd(cost, pricing, tiles, n),
           wall |-> WallClock(cost, SumOf(tiles, n, "gen"), n)]]

EstimateOf(cost, pricing, cells, tiles, n) ==
  [warm |-> WarmCost(cost, pricing, tiles, n), no_warm |-> NoWarmCost(cells, tiles, n),
   marginal |-> Marginal(cost, pricing, tiles)]
=============================================================================
