------------------------------- MODULE Planner -------------------------------
(***************************************************************************)
(* okibi_core::plan, crates/okibi-core/src/planner.rs: demand digests, one *)
(* invalidation and a manifest in; the tiles to warm, in the order to warm *)
(* them, with what that costs, out.                                        *)
(*                                                                         *)
(* The function is pure: its input is chosen in Init.  The digests are     *)
(* read one after another, in whatever order they come, and the rest of    *)
(* the function is a step per call.  Requests are counted in units of      *)
(* 2^-Horizon, the weight of the oldest, so that decay with a half-life of *)
(* a day stays whole; generation times in seconds.                         *)
(***************************************************************************)
EXTENDS Quadkey, Estimate

CONSTANTS
  Records,     \* digest records
  Cases,       \* [event, manifest, epoch, options]
  Pricing,     \* the pricing table
  Horizon,     \* days no window is older than
  Unreadable   \* a time that cannot be read

Read(S) == S \union {Unreadable}

Placed(kind) == kind = "content"

Tiles == UNION {{[kind |-> r.kind, qk |-> t[1], id |-> t[2]] : t \in DOMAIN r.top} : r \in Records}

IsRecord(r) ==
  /\ r.kind \in Kinds /\ r.window \in Read(0..Horizon)
  /\ r.req \in Nat /\ r.observed \in Nat
  /\ r.p50 \in Some(Nat) /\ r.p95 \in Some(Nat) /\ r.bytes \in Some(Nat)
  /\ DOMAIN r.top \subseteq Seq(0..3) \X Nat
  /\ \A t \in DOMAIN r.top : r.top[t] \in Nat
  /\ Placed(r.kind) => r.cell \in Seq(0..3) /\ \A t \in DOMAIN r.top : IsPrefix(r.cell, t[1])

IsScope(s) ==
  \/ s.type = "all"
  \/ s.type = "qk_prefixes" /\ s.prefixes \subseteq Seq(0..3)
  \/ s.type = "ids" /\ s.ids \subseteq Nat

IsEvent(e) ==
  /\ e.tileset \in STRING /\ IsScope(e.scope)
  /\ e.occurred \in [day : Read(0..Horizon), second : Read(Int)]
  /\ e.deadline \in Some(Read(Int))

IsOptions(o) ==
  /\ o.halfLife \in {0, 1} /\ o.honour \in BOOLEAN
  /\ o.budget \in Some(Nat) /\ o.coverage \in Some(0..100)

ASSUME PlannerAssumption ==
  /\ Horizon \in Nat /\ IsPricing(Pricing) /\ None \notin Nat \union Quadkeys
  /\ IsFiniteSet(Records) /\ IsFiniteSet(Tiles)
  /\ \A r \in Records : IsRecord(r)
  /\ \A r, s \in Records :
       <<r.tileset, r.kind, r.cell, r.window>> = <<s.tileset, s.kind, s.cell, s.window>> => r = s
  /\ \A r, s \in Records :
       r.tileset = s.tileset /\ r.kind = s.kind /\ DOMAIN r.top \intersect DOMAIN s.top # {}
         => r.cell = s.cell
  /\ \A t, u \in Tiles : t.kind = u.kind /\ t.id = u.id => t = u
  /\ \A c \in Cases :
       /\ c.manifest = None \/ IsManifest(c.manifest)
       /\ c.epoch \subseteq Axes /\ IsEvent(c.event) /\ IsOptions(c.options)

VARIABLES
  input,    \* [digests, event, manifest, epoch, options]
  unread,   \* the records collect_cells has yet to come to
  cells,    \* what it has of each cell
  found,    \* what expand makes of the cells, promoted and sorted
  result,   \* the plan
  stage     \* how far the function is, or the error it returned

vars == <<input, unread, cells, found, result, stage>>

-----------------------------------------------------------------------------
(* Scopes.  A tile is <<qk, id>>; that of a document with no coordinates   *)
(* is <<<<>>, id>>.                                                        *)

\* Slip: only the cells inside a region, not those around it.
TouchesInside(scope, cell) ==
  scope.type = "qk_prefixes" => \E p \in scope.prefixes : IsPrefix(p, cell)

\* Scope::touches_cell: the cell is in a region, or a region in the cell.
TouchesCell(scope, cell) ==
  scope.type = "qk_prefixes" => \E p \in scope.prefixes : IsPrefix(p, cell) \/ IsPrefix(cell, p)

\* Scope::covers_tile; a document with no coordinates is in every region.
CoversTile(scope, kind, tile) ==
  /\ scope.type = "ids" => tile[2] \in scope.ids
  /\ scope.type = "qk_prefixes" /\ Placed(kind) => \E p \in scope.prefixes : IsPrefix(p, tile[1])

-----------------------------------------------------------------------------
(* Cells.                                                                  *)

\* age_in_days, and 0 where a time cannot be read.
Age(window) ==
  IF Unreadable \in {window, input.event.occurred.day} THEN 0
  ELSE Max({0, input.event.occurred.day - window})

\* decay
Weight(r) == IF input.options.halfLife = 0 THEN 2 ^ Horizon ELSE 2 ^ (Horizon - Age(r.window))

\* date_of(window).unwrap_or(0)
DayOf(window) == IF window = Unreadable THEN 0 ELSE window

At(f, x) == IF x \in DOMAIN f THEN f[x] ELSE 0

Empty ==
  [freq |-> 0, newest |-> 0, gen |-> None, p95 |-> None, bytes |-> None, observed |-> 0,
   tiles |-> <<>>]

\* Slip: the last record wins, not the freshest.
Fresher(r, cell) == TRUE

\* window >= cell.newest
Fresh(r, cell) == DayOf(r.window) >= cell.newest

\* Slip: the windows of a cell are kept apart.
CellKeyPerWindow(r) == <<r.kind, r.window>>

CellKey(r) == <<r.kind, r.cell>>

\* One record added to the cell it belongs to.
Merged(cell, r) ==
  LET dead == {t \in DOMAIN r.top : CoversTile(input.event.scope, r.kind, t)}
      c == IF Fresh(r, cell)
           THEN [cell EXCEPT !.newest = DayOf(r.window), !.gen = r.p50, !.p95 = r.p95, !.bytes = r.bytes]
           ELSE cell
  IN  [c EXCEPT !.freq = @ + r.req * Weight(r),
                !.observed = Max({@, r.observed}),
                !.tiles = [t \in DOMAIN @ \union dead |->
                             At(@, t) + IF t \in dead THEN r.top[t] * Weight(r) ELSE 0]]

\* A measured zero is no measurement.
MeasuredOr(value, fallback) == IF value \in {None, 0} THEN fallback ELSE value

\* A measurement below the floor of what the service warms at all.
BelowFloor(gen) ==
  gen \notin {None, 0} /\ input.manifest.cost.warm_above # None /\ gen < input.manifest.cost.warm_above

-----------------------------------------------------------------------------
(* URLs.                                                                   *)

\* Slip: only the tiles' own template.
TileTemplate(manifest) == {manifest.url}

Templates(manifest) ==
  {manifest.url} \union ({manifest.meta_urls[k] : k \in DOMAIN manifest.meta_urls} \ {None})

\* check_epochs: some template asks for an epoch that is not there.
EpochMissing(manifest, epoch) == \E t \in Templates(manifest) : ~(t \subseteq epoch)

\* A template filled in: of which document, and with which axes left empty.
Fill(template, id) == [id |-> id, empty |-> template \ input.epoch]

Unnamed(kind) == ~Placed(kind) /\ kind \notin DOMAIN input.manifest.meta_urls

NotWarmable(kind) == ~Placed(kind) /\ ~Unnamed(kind) /\ input.manifest.meta_urls[kind] = None

UrlFor(kind, id) ==
  Fill(IF Placed(kind) THEN input.manifest.url ELSE input.manifest.meta_urls[kind], id)

-----------------------------------------------------------------------------
(* Candidates.                                                             *)

\* The tiles of a cell that a plan can name.
CandidatesOf(key) ==
  LET cell == cells[key]
      gen == MeasuredOr(cell.gen, input.manifest.cost.default_gen)
  IN  IF BelowFloor(cell.gen) \/ NotWarmable(key[1]) THEN {}
      ELSE {[kind |-> key[1], qk |-> IF Placed(key[1]) /\ Parses(t[1]) THEN FromStr(t[1]) ELSE None,
             id |-> t[2], url |-> UrlFor(key[1], t[2]), req |-> cell.tiles[t], gen |-> gen,
             bytes |-> MeasuredOr(cell.bytes, input.manifest.cost.default_bytes),
             score |-> cell.tiles[t] * gen] : t \in DOMAIN cell.tiles}

Ancestor(a, c) == None \notin {a.qk, c.qk} /\ a.qk # c.qk /\ StartsWith(c.qk, a.qk)

\* promote_ancestors: as high as the highest of what it covers.
Promoted(C) ==
  IF ~input.manifest.resolution THEN C
  ELSE {[c EXCEPT !.score = Max({c.score} \union {d.score : d \in {e \in C : Ancestor(c, e)}})] :
        c \in C}

\* The order of Kind: what a stable sort leaves of the order of the cells.
KindRank == [content |-> 0, tileset |-> 1, subtree |-> 2, meta |-> 3]

\* sort: metadata first, then score, quadkey (none before any), id.
Before(a, b) ==
  IF Placed(a.kind) # Placed(b.kind) THEN ~Placed(a.kind)
  ELSE IF a.score # b.score THEN a.score > b.score
  ELSE IF a.qk # b.qk THEN a.qk = None \/ (b.qk # None /\ Precedes(a.qk, b.qk))
  ELSE IF a.id # b.id THEN a.id < b.id
  ELSE KindRank[a.kind] < KindRank[b.kind]

\* How many of C stand before c.
Rank(C, c) == Cardinality({d \in C : Before(d, c)})

Sorted(C) == [i \in 1..Cardinality(C) |-> CHOOSE c \in C : Rank(C, c) = i - 1]

-----------------------------------------------------------------------------
(* The cut, and what is said of what survives it.                          *)

\* The deadline cannot be reckoned with.
BadTime ==
  /\ input.options.honour /\ input.event.deadline # None
  /\ Unreadable \in {input.event.deadline, input.event.occurred.second}

\* The levers of this plan: seconds, money, and per cent of the demand.
Levers ==
  [seconds  |-> IF ~input.options.honour \/ input.event.deadline = None THEN None
                ELSE Max({0, input.event.deadline - input.event.occurred.second}),
   budget   |-> input.options.budget,
   coverage |-> input.options.coverage]

\* The first n do not fit the deadline or the budget.
Over(tiles, n, by) ==
  LET cost == input.manifest.cost IN
  \/ by.seconds # None /\ WallClock(cost, SumOf(tiles, n, "gen"), n) > by.seconds * Parts(cost)
  \/ by.budget # None /\ Usd(cost, Pricing, tiles, n) > by.budget

\* The first n are as much of the demand as was asked for.
Enough(tiles, n, by) ==
  LET total == SumOf(tiles, Len(tiles), "req")
  IN  by.coverage # None /\ (IF total = 0 THEN by.coverage = 0
                             ELSE SumOf(tiles, n, "req") * 100 >= by.coverage * total)

Stops(tiles, by) == {n \in DOMAIN tiles : Over(tiles, n, by) \/ Enough(tiles, n, by)}

\* Slip: the tile that breaks a limit stays.
CutOffLate(tiles, by) == IF Stops(tiles, by) = {} THEN Len(tiles) ELSE Min(Stops(tiles, by))

\* How many of the tiles stay.
CutOff(tiles, by) ==
  IF Stops(tiles, by) = {} THEN Len(tiles)
  ELSE LET n == Min(Stops(tiles, by)) IN IF Over(tiles, n, by) THEN n - 1 ELSE n

\* A quotient from nothing to one; of nothing it is nothing.
Ratio(part, whole) == IF whole <= 0 THEN <<0, 1>> ELSE <<Min({part, whole}), whole>>

\* What stats.coverage_of_demand is a fraction of.
DemandInScope == MapThenSumSet(LAMBDA k : cells[k].freq, DOMAIN cells)

\* What the estimate reads of the cells.
CellCosts ==
  [k \in DOMAIN cells |->
     [observed |-> cells[k].observed, p95 |-> cells[k].p95,
      gen |-> MeasuredOr(cells[k].gen, input.manifest.cost.default_gen)]]

\* An entry for each of the first n.
EntriesOf(tiles, n) ==
  LET top == Max({0} \union {tiles[i].score : i \in {j \in 1..n : Placed(tiles[j].kind)}})
  IN  [i \in 1..n |->
         [url |-> tiles[i].url, gen |-> tiles[i].gen, saved |-> tiles[i].req,
          priority |-> IF Placed(tiles[i].kind) THEN Ratio(tiles[i].score, top) ELSE <<1, 1>>,
          lane |-> IF n < Len(tiles) THEN "urgent" ELSE "warm"]]

PlanOf(tiles, n) ==
  [entries  |-> EntriesOf(tiles, n),
   stats    |-> [total |-> n, sum_gen |-> SumOf(tiles, n, "gen"),
                 coverage |-> Ratio(SumOf(tiles, n, "req"), DemandInScope),
                 unwarmable |-> found.unwarmable, too_fast |-> found.tooFast],
   estimate |-> EstimateOf(input.manifest.cost, Pricing, CellCosts, tiles, n)]

-----------------------------------------------------------------------------

Init ==
  /\ \E c \in Cases, D \in SUBSET Records :
       input = [digests |-> D, event |-> c.event, manifest |-> c.manifest, epoch |-> c.epoch,
                options |-> c.options]
  /\ unread = input.digests
  /\ cells = <<>>
  /\ found = [order |-> <<>>, unwarmable |-> 0, tooFast |-> 0]
  /\ result = None
  /\ stage = "called"

\* The manifest, and check_epochs.
Check ==
  /\ stage = "called"
  /\ stage' = IF input.manifest = None THEN "NoManifest"
              ELSE IF EpochMissing(input.manifest, input.epoch) THEN "EpochMissing"
              ELSE "collecting"
  /\ UNCHANGED <<input, unread, cells, found, result>>

\* One turn of collect_cells.
Collect(r) ==
  /\ stage = "collecting"
  /\ r \in unread
  /\ unread' = unread \ {r}
  /\ LET key == CellKey(r)
         cell == IF key \in DOMAIN cells THEN cells[key] ELSE Empty
     IN  cells' = IF \/ r.tileset # input.event.tileset
                     \/ Placed(r.kind) /\ ~TouchesCell(input.event.scope, r.cell)
                  THEN cells
                  ELSE [k \in DOMAIN cells \union {key} |-> IF k = key THEN Merged(cell, r) ELSE cells[k]]
  /\ UNCHANGED <<input, found, result, stage>>

\* cell.tiles.len(), over all of these cells.
TilesIn(keys) == Cardinality(UNION {{k} \X DOMAIN cells[k].tiles : k \in keys})

\* expand, promote_ancestors, sort; or NoMetaUrl.
Expand ==
  /\ stage = "collecting"
  /\ unread = {}
  /\ LET fast == {k \in DOMAIN cells : BelowFloor(cells[k].gen)}
         slow == {k \in DOMAIN cells \ fast : DOMAIN cells[k].tiles # {}}
     IN  IF \E k \in slow : Unnamed(k[1])
         THEN stage' = "NoMetaUrl" /\ UNCHANGED found
         ELSE /\ stage' = "sorted"
              /\ found' = [order |-> Sorted(Promoted(UNION {CandidatesOf(k) : k \in slow})),
                           unwarmable |-> TilesIn({k \in slow : NotWarmable(k[1])}),
                           tooFast |-> TilesIn(fast)]
  /\ UNCHANGED <<input, unread, cells, result>>

\* cut_off and the plan; or BadTime.
Cut ==
  /\ stage = "sorted"
  /\ IF BadTime THEN stage' = "BadTime" /\ UNCHANGED result
     ELSE stage' = "done" /\ result' = PlanOf(found.order, CutOff(found.order, Levers))
  /\ UNCHANGED <<input, unread, cells, found>>

Next == Check \/ (\E r \in Records : Collect(r)) \/ Expand \/ Cut

Spec == Init /\ [][Next]_vars

-----------------------------------------------------------------------------
(* Properties.                                                             *)

Planned == stage \in {"sorted", "BadTime", "done"}

\* Every variable has the shape the function gives it, and no URL is written
\* with a placeholder filled by nothing: "every one of those is a real request
\* to a real origin".
TypeOK ==
  /\ input.digests \subseteq Records /\ unread \subseteq input.digests
  /\ DOMAIN cells \subseteq {<<r.kind, r.cell>> : r \in input.digests}
  /\ \A k \in DOMAIN cells :
       /\ cells[k].freq \in Nat /\ cells[k].observed \in Nat /\ cells[k].newest \in 0..Horizon
       /\ DOMAIN cells[k].tiles \subseteq {<<t.qk, t.id>> : t \in Tiles}
  /\ \A i \in DOMAIN found.order :
       found.order[i].url.empty = {} /\ found.order[i].qk \in Some(Quadkeys)
  /\ stage \in {"called", "collecting", "sorted", "done",
                "NoManifest", "EpochMissing", "NoMetaUrl", "BadTime"}
  /\ stage # "done" => result = None

\* The records in question that say something of a tile.
Naming(t) ==
  {r \in input.digests : r.tileset = input.event.tileset /\ r.kind = t.kind /\ <<t.qk, t.id>> \in DOMAIN r.top}

\* What died of what the digests name.
Dead == {t \in Tiles : Naming(t) # {} /\ CoversTile(input.event.scope, t.kind, <<t.qk, t.id>>)}

TileOfCandidate(c) == CHOOSE t \in Tiles : t.kind = c.kind /\ t.id = c.id

Candidates == ToSet(found.order)

\* "Being wrong in the strict direction would drop tiles that did die"
\* (touches_cell) and "a plan silently smaller than the demand it was derived
\* from reads as a quiet day" (expand): each tile that died is a candidate or is
\* counted among those left out, and nothing else is.
DeadIsCandidateOrCounted ==
  Planned =>
    /\ {TileOfCandidate(c) : c \in Candidates} \subseteq Dead
    /\ Len(found.order) + found.unwarmable + found.tooFast = Cardinality(Dead)

\* The freshest of the records of c's cell.
FreshestFor(t) ==
  LET ofCell == {r \in input.digests : \E s \in Naming(t) :
                   <<r.tileset, r.kind, r.cell>> = <<s.tileset, s.kind, s.cell>>}
  IN  CHOOSE r \in ofCell : \A s \in ofCell : DayOf(s.window) <= DayOf(r.window)

\* "Nothing is left to the order the inputs happened to arrive in": what a
\* candidate is worth depends on the set of records only - every request counts
\* at its age's weight, and the freshest window says how long a tile takes.
ArrivalOrderIrrelevant ==
  Planned =>
    \A c \in Candidates :
      LET t == TileOfCandidate(c) IN
      /\ c.req = MapThenSumSet(LAMBDA r : r.top[<<t.qk, t.id>>] * Weight(r), Naming(t))
      /\ c.gen = MeasuredOr(FreshestFor(t).p50, input.manifest.cost.default_gen)

\* "Sorting quadkeys sorts them the same whether they are structs here or strings
\* in a plan": quadkeys read alike as bits, digits and tiles (ReadAlike), and so
\* those at different places that the plan has no other reason to order stand in it
\* as their texts do.  (Two tiles of one place are ordered by their ids.)
QuadkeysReadAlike ==
  Planned =>
    /\ ReadAlike
    /\ \A i, j \in DOMAIN found.order :
         LET a == found.order[i]
             b == found.order[j]
         IN  i < j /\ None \notin {a.qk, b.qk} /\ a.qk # b.qk /\ a.score = b.score =>
               ReadsBefore(TileOfCandidate(a).qk, TileOfCandidate(b).qk)

AtMost(p, q) == p[1] * q[2] <= q[1] * p[2]

\* A tile is preceded by every document without coordinates and, where zoom
\* means resolution, by each of its ancestors that died with it, however little
\* they were asked for and wherever the plan was cut; and an executor that goes
\* by the priority finds the entries in the same order.
RescuersFirst ==
  stage = "done" =>
    /\ \A i \in DOMAIN result.entries, a \in Candidates :
         LET t == TileOfCandidate(found.order[i])
             s == TileOfCandidate(a)
         IN  \/ Placed(t.kind) /\ ~Placed(s.kind)
             \/ /\ input.manifest.resolution /\ Placed(t.kind) /\ Placed(s.kind)
                /\ Parses(s.qk) /\ Parses(t.qk) /\ IsStrictPrefix(s.qk, t.qk)
             => \E j \in 1..(i - 1) : found.order[j] = a
    /\ \A i, j \in DOMAIN result.entries :
         i < j => AtMost(result.entries[j].priority, result.entries[i].priority)

\* The plan fits the deadline and the budget, and "whatever is cut" is cut
\* because of one of the three levers: one tile more would break a limit, or
\* what is there already covers enough.
CutIsTight ==
  stage = "done" =>
    LET n == Len(result.entries) IN
    /\ n > 0 => ~Over(found.order, n, Levers)
    /\ n < Len(found.order) =>
         Over(found.order, n + 1, Levers) \/ (n > 0 /\ Enough(found.order, n, Levers))
    /\ \A m \in 1..(n - 1) : ~Enough(found.order, m, Levers)

\* The records of the tileset and the scope.
Used ==
  {r \in input.digests :
     /\ r.tileset = input.event.tileset
     /\ Placed(r.kind) => TouchesCell(input.event.scope, r.cell)}

\* What a record names beyond what it counts of its cell, in requests and in
\* tiles: nothing, unless requests came in while the two were read.
OverAsked(r) == Max({0, MapThenSumSet(LAMBDA t : r.top[t], DOMAIN r.top) - r.req})

OverNamed(r) == Max({0, Cardinality(DOMAIN r.top) - r.observed})

\* "Whatever is cut shows up as coverage below one rather than as silence": the
\* coverage falls short by all that was asked for of the tiles that were cut, save
\* what the records name too much.  And so does "the count of people who wait"
\* show every tile left out on purpose, where a cell has one record.
LeftOutShows ==
  stage = "done" =>
    LET n == Len(result.entries)
        left == Len(found.order) - n
        cut == SumOf(found.order, Len(found.order), "req") - SumOf(found.order, n, "req")
        coverage == result.stats.coverage
        counted == \A r, s \in input.digests : CellKey(r) = CellKey(s) => r = s
    IN  /\ coverage[2] - coverage[1] >= cut - MapThenSumSet(LAMBDA r : OverAsked(r) * Weight(r), Used)
        /\ counted => result.estimate.no_warm.affected + MapThenSumSet(OverNamed, Used) >=
                        left + result.stats.unwarmable + result.stats.too_fast

\* "A coverage target something to read off rather than to guess at": a plan
\* asked for a coverage on the curve, and nothing else, has the number of tiles,
\* the cost and the time the curve gives there.
CurveReadsBack ==
  stage = "done" =>
    \A i \in DOMAIN result.estimate.marginal :
      LET row == result.estimate.marginal[i]
          target == [seconds |-> None, budget |-> None, coverage |-> row.coverage]
          warm == PlanOf(found.order, CutOff(found.order, target)).estimate.warm
      IN  <<warm.tiles, warm.usd, warm.wall>> = <<row.tiles, row.usd, row.wall>>
=============================================================================
