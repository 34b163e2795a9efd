------------------------------- MODULE Digest -------------------------------
(***************************************************************************)
(* okibi digest: the requests that services wrote to the ledger during one *)
(* day, asked for with one query for the cells and one per service for the *)
(* tiles in them, become one record per cell.                              *)
(*                                                                         *)
(* The ledger is Workers Analytics Engine: a point shows some time after   *)
(* it is written, so points also land between the queries of a run.        *)
(* Points of one tileset are modelled, read one for one by the backend     *)
(* (_sample_interval = 1).                                                 *)
(***************************************************************************)
EXTENDS Calendar, Sequences, FiniteSets, FiniteSetsExt

CONSTANTS
  Services,    \* in the order of their names
  Docs,        \* what is asked for: [service, kind, cell, key]
  NoCell,      \* the qk8 of a document that has no quadkey
  Demands,     \* requests: [doc, status, origin, offset], days from the digest's
  Dates,       \* what the digest can be asked for
  Rosters,     \* the lists of services it can be configured with
  SampleHits,  \* writer.ts: one organic hit in this many is written
  TopN,        \* top_n
  TopRows,     \* top_rows
  MaxPoints,   \* bound: points that land
  MaxFailures  \* bound: queries that fail

ASSUME DigestAssumption ==
  /\ SampleHits \in Nat \ {0} /\ TopN \in Nat \ {0} /\ TopRows \in Nat \ {0}
  /\ MaxPoints \in Nat /\ MaxFailures \in Nat
  /\ IsFiniteSet(Demands) /\ \A p \in Demands : p.doc \in Docs
  /\ Len(Services) \in Nat /\ DOMAIN Services = 1..Len(Services)
  /\ \A i, j \in DOMAIN Services : Services[i] = Services[j] => i = j
  /\ \A roster \in Rosters : roster \subseteq {Services[i] : i \in DOMAIN Services}
  /\ \A d \in Docs : d.key \in Int /\ \E i \in DOMAIN Services : Services[i] = d.service
  /\ \A d, e \in Docs :
       d.service = e.service /\ d.kind = e.kind /\ d.cell = e.cell /\ d.key = e.key => d = e
  /\ \A d \in Dates : d \in (Nat \ 0..1969) \X Nat \X Nat /\ IsDate(d)

VARIABLES
  date,       \* the day the run is for
  roster,     \* the services to read, or nothing for all of them
  window,     \* the days around it that the queries ask for, 0 for itself
  ledger,     \* how often each request has landed
  stage,
  asking,     \* the services whose tiles are still to be asked for, by their place
  cells,      \* the rows of the cells query
  tiles,      \* the rows of the top-tiles queries
  truncated,  \* the services that were cut short
  records,    \* the digest, one record per key
  skipped,    \* what the rows did not become
  seen,       \* the ledger as the cells query saw it
  failures

answers == <<asking, cells, tiles, truncated, seen>>
digest == <<records, skipped>>
vars == <<date, roster, window, ledger, stage, answers, digest, failures>>

-----------------------------------------------------------------------------
(* The writer.                                                             *)

Placed(kind) == kind = "content"

Known(kind) == kind \in {"content", "tileset", "subtree", "meta"}

\* check: an event that cannot be placed is refused.
Writable(p) == Placed(p.doc.kind) => p.doc.cell # NoCell

\* double1: a sampled hit stands for those that were not written.
Weight(p) == IF p.status = "hit" /\ p.origin = "organic" THEN SampleHits ELSE 1

-----------------------------------------------------------------------------
(* The queries.                                                            *)

CellKey(doc) == <<doc.service, doc.kind, doc.cell>>

\* The points of a ledger that fall into the window.
Within(points) == {p \in Demands : points[p] > 0 /\ p.offset \in window}

\* service_filter: AND index1 IN (...)
Listed(service) == roster = {} \/ service \in roster

\* Slip: what okibi asked for itself is demand as well.
AnyOrigin(S) == S

\* blob13 = 'organic'
Organic(S) == {p \in S : p.origin = "organic"}

Requests(points, S) == MapThenSumSet(LAMBDA p : points[p] * Weight(p), S)

\* One row per cell; generation is measured over misses, whoever asked.
CellRows ==
  LET read == {p \in Within(ledger) : Listed(p.doc.service)}
      In(k) == {p \in read : CellKey(p.doc) = k}
      Asked(k) == {p \in In(k) : p.origin = "organic"}
  IN  [k \in {CellKey(p.doc) : p \in read} |->
         [req      |-> Requests(ledger, Asked(k)),
          miss     |-> Requests(ledger, {p \in Asked(k) : p.status = "miss"}),
          measured |-> \E p \in In(k) : p.status = "miss",
          observed |-> Cardinality({p.doc : p \in In(k)}),
          sampled  |-> Max({Weight(p) : p \in In(k)})]]

\* One row per tile of a service, before the limit.
TileRows(s) ==
  LET asked == {p \in Organic(Within(ledger)) : p.doc.service = s} IN
  {[doc |-> d, req |-> Requests(ledger, {p \in asked : p.doc = d})] : d \in {p.doc : p \in asked}}

\* Slip: one row more than the limit.
LimitedLate(rows) ==
  {S \in SUBSET rows : Cardinality(S) = Min({Cardinality(rows), TopRows + 1})}

\* ORDER BY req DESC LIMIT top_rows, which leaves ties to the backend.
Limited(rows) ==
  {S \in SUBSET rows : /\ Cardinality(S) = Min({Cardinality(rows), TopRows})
                       /\ \A r \in S, q \in rows \ S : q.req <= r.req}

-----------------------------------------------------------------------------

Nothing == [unknownKind |-> 0, unplaceable |-> 0, withoutTop |-> 0]

Init ==
  /\ date \in Dates
  /\ roster \in Rosters
  /\ window = Covered(date, -2..2)
  /\ ledger = [p \in Demands |-> 0]
  /\ stage = "idle"
  /\ asking = {} /\ cells = <<>> /\ tiles = {} /\ truncated = {}
  /\ records = <<>> /\ skipped = Nothing
  /\ seen = ledger
  /\ failures = 0

\* A request that is written, and kept by the sampling, shows in the ledger.
Land(p) ==
  /\ stage # "done"
  /\ MapThenSumSet(LAMBDA q : ledger[q], Demands) < MaxPoints
  /\ Writable(p)
  /\ ledger' = [ledger EXCEPT ![p] = @ + 1]
  /\ UNCHANGED <<date, roster, window, stage, answers, digest, failures>>

\* The cells query says which services there are.
AskCells ==
  /\ stage = "idle"
  /\ stage' = "asking"
  /\ cells' = CellRows
  /\ asking' = {i \in DOMAIN Services : \E k \in DOMAIN CellRows : k[1] = Services[i]}
  /\ tiles' = {} /\ truncated' = {}
  /\ seen' = ledger
  /\ UNCHANGED <<date, roster, window, ledger, digest, failures>>

\* Slip: only more rows than the limit are too many.
CutShortLate(rows) == Cardinality(rows) > TopRows

\* rows.len() >= top_rows
CutShort(rows) == Cardinality(rows) >= TopRows

\* The top-tiles query of the next service.
AskTiles ==
  /\ stage = "asking"
  /\ asking # {}
  /\ LET service == Services[Min(asking)] IN
     \E rows \in Limited(TileRows(service)) :
       /\ tiles' = tiles \union rows
       /\ truncated' = IF CutShort(rows) THEN truncated \union {service} ELSE truncated
  /\ asking' = asking \ {Min(asking)}
  /\ UNCHANGED <<date, roster, window, ledger, stage, cells, seen, digest, failures>>

\* Slip: the coldest first.
ColdestFirst(a, b) == a.req < b.req \/ (a.req = b.req /\ a.doc.key < b.doc.key)

\* hottest_first: by demand, then by quadkey or id.
HottestFirst(a, b) == a.req > b.req \/ (a.req = b.req /\ a.doc.key < b.doc.key)

\* The tiles listed for a cell.
TopOf(k) ==
  LET named == {r \in tiles : CellKey(r.doc) = k} IN
  {r \in named : Cardinality({q \in named : HottestFirst(q, r)}) < TopN}

Unplaceable(k) == Placed(k[2]) /\ k[3] = NoCell

\* assemble, and the file is written.
Assemble ==
  /\ stage = "asking"
  /\ asking = {}
  /\ LET usable == {k \in DOMAIN cells : Known(k[2]) /\ ~Unplaceable(k)} IN
     /\ records' = [k \in usable |->
          [service |-> k[1], kind |-> k[2], qk8 |-> IF Placed(k[2]) THEN k[3] ELSE "-",
           row |-> cells[k], top |-> TopOf(k)]]
     /\ skipped' = [unknownKind |-> Cardinality({k \in DOMAIN cells : ~Known(k[2])}),
                    unplaceable |-> Cardinality({k \in DOMAIN cells : Unplaceable(k)}),
                    withoutTop  |-> Cardinality({k \in usable : TopOf(k) = {}})]
  /\ stage' = "done"
  /\ UNCHANGED <<date, roster, window, ledger, answers, failures>>

\* report_digest: what the run says it left out, and for which services.
Reported ==
  [unknownKind |-> skipped.unknownKind > 0, unplaceable |-> skipped.unplaceable > 0,
   withoutTop |-> skipped.withoutTop > 0, truncated |-> truncated]

\* A query is not answered, or with rows that cannot be read, or the file cannot
\* be written: the run ends with nothing written, and may be started again.
Fail ==
  /\ stage \in {"idle", "asking"}
  /\ failures < MaxFailures
  /\ failures' = failures + 1
  /\ stage' = "idle"
  /\ asking' = {} /\ cells' = <<>> /\ tiles' = {} /\ truncated' = {}
  /\ UNCHANGED <<date, roster, window, ledger, seen, digest>>

Next == (\E p \in Demands : Land(p)) \/ AskCells \/ AskTiles \/ Assemble \/ Fail

Spec == Init /\ [][Next]_vars

-----------------------------------------------------------------------------
(* Properties.                                                             *)

\* Every variable has the shape the run gives it, and no service has more rows
\* than its limit.
TypeOK ==
  /\ date \in Dates /\ roster \in Rosters
  /\ ledger \in [Demands -> 0..MaxPoints] /\ seen \in [Demands -> 0..MaxPoints]
  /\ stage \in {"idle", "asking", "done"}
  /\ asking \subseteq DOMAIN Services
  /\ DOMAIN cells \subseteq {CellKey(d) : d \in Docs}
  /\ DOMAIN records \subseteq DOMAIN cells
  /\ \A s \in {d.service : d \in Docs} : Cardinality({r \in tiles : r.doc.service = s}) <= TopRows
  /\ truncated \subseteq {Services[i] : i \in DOMAIN Services}
  /\ failures \in 0..MaxFailures

\* The organic requests for a document that the cells query saw.
Asked(doc) == Requests(seen, {p \in Within(seen) : p.doc = doc /\ p.origin = "organic"})

Named(k) == {r.doc : r \in records[k].top}

\* "A digest that silently described less than it was asked to would read as a
\* quiet day": what was asked for of the services it reads is named in its cell's
\* record, whatever lands between the queries, or the run says that it may not be -
\* of a kind it does not have, of a cut service - or the list is full.  Of the
\* services it does not read it says nothing, and none of what the writer lets
\* into the ledger has no place.
NamedOrExcused ==
  stage = "done" =>
    /\ ~Reported.unplaceable
    /\ \A k \in DOMAIN records : Listed(k[1])
    /\ \A d \in Docs : Asked(d) > 0 /\ Listed(d.service) =>
         \/ ~Known(d.kind) /\ Reported.unknownKind
         \/ /\ CellKey(d) \in DOMAIN records
            /\ \/ d \in Named(CellKey(d))
               \/ Cardinality(Named(CellKey(d))) = TopN
               \/ d.service \in Reported.truncated

\* The documents a record names are the hottest of its cell, although the limit
\* is spent over all cells of a service and cuts before cells are looked at.
HottestNamed ==
  \A k \in DOMAIN records : \A r \in records[k].top, d \in Docs :
    CellKey(d) = k /\ d \notin Named(k) => Asked(d) <= r.req

\* The two queries of a digest agree on what demand is: when nothing lands
\* between them, no cell's tiles were asked for more often than the cell, and
\* when they are all there exactly as often.
TilesAddUp ==
  stage = "done" /\ seen = ledger =>
    \A k \in DOMAIN records :
      LET sum == MapThenSumSet(LAMBDA r : r.req, records[k].top) IN
      /\ sum <= records[k].row.req
      /\ Cardinality(records[k].top) < TopN /\ k[1] \notin truncated => sum = records[k].row.req

\* "A window ends where the next one starts" (time.rs): of every date the window
\* is that whole day, with no part of the day before or of the day after, and the
\* date's number is the one that counting the years and months before it gives.
DayIsWhole ==
  /\ window = {0}
  /\ DaysFromCivil(date) = DayOf(date)
  /\ CivilFromDays(DaysFromCivil(date)) = date

\* "One record per (service, tileset, kind, qk8, window)" (spec/demand-digest.md;
\* digest.rs: "One aggregated cell").
OneRecordPerKey ==
  \A k, l \in DOMAIN records :
    records[k].service = records[l].service /\ records[k].kind = records[l].kind
      /\ records[k].qk8 = records[l].qk8 => k = l
=============================================================================
