------------------------------ MODULE MCPlanner ------------------------------
(***************************************************************************)
(* Planner on any of eight records of three days: tiles of three levels on *)
(* one line and one in another cell, a root document, one the manifest may *)
(* have no URL for, and a record of another tileset.  A cell is two digits *)
(* of a quadkey.  One record names two requests and a tile more than it    *)
(* counts of its cell.                                                     *)
(***************************************************************************)
EXTENDS Planner

Record(tileset, kind, cell, window, p50, req, observed, top) ==
  [tileset |-> tileset, kind |-> kind, cell |-> cell, window |-> window, p50 |-> p50,
   p95 |-> p50, bytes |-> IF p50 = 0 THEN None ELSE p50, req |-> req, observed |-> observed,
   top |-> top]

MCRecords ==
  {Record("osm", "content", <<1>>, 0, 2, 1, 1, <<<<1>>, 5>> :> 1),
   Record("osm", "content", <<1, 0>>, 0, 3, 4, 2, <<<<1, 0>>, 6>> :> 1 @@ <<<<1, 0, 2>>, 7>> :> 3),
   Record("osm", "content", <<1, 0>>, 2, 0, 1, 1, <<<<1, 0, 2>>, 7>> :> 1 @@ <<<<1, 0, 3>>, 2>> :> 2),
   Record("osm", "content", <<2>>, Unreadable, 1, 3, 1, <<<<2>>, 4>> :> 2),
   Record("osm", "tileset", None, 1, None, 1, 1, <<<<>>, 9>> :> 1),
   Record("osm", "meta", None, 2, 2, 1, 2, <<<<>>, 8>> :> 1),
   Record("osm", "subtree", None, 0, 1, 1, 1, <<<<>>, 3>> :> 1),
   Record("dem", "content", <<1>>, 2, 2, 1, 1, <<<<1>>, 5>> :> 1)}

All == [type |-> "all"]

Event(scope, day, second, deadline) ==
  [tileset |-> "osm", scope |-> scope, occurred |-> [day |-> day, second |-> second],
   deadline |-> deadline]

Manifest(url, meta, floor, billing, resolution) ==
  [url |-> url, meta_urls |-> meta, resolution |-> resolution,
   cost |-> [default_gen |-> 4, default_bytes |-> 1, warm_above |-> floor, concurrency |-> 2,
             rate |-> 1, billing |-> billing]]

MetaUrls == "tileset" :> {} @@ "meta" :> {"algo"} @@ "subtree" :> None

Plain == Manifest({}, MetaUrls, None, None, TRUE)

Billed ==
  Manifest({"param"}, MetaUrls, 2,
           [profile |-> "cloudflare",
            per_gen |-> "cpu_ms" :> None @@ "egress_byte" :> 2 @@ "vendors" :> 1], FALSE)

MCPricing == [profile |-> "cloudflare", units |-> "cpu_ms" :> 3 @@ "egress_byte" :> 1]

Options(halfLife, budget, coverage, honour) ==
  [halfLife |-> halfLife, budget |-> budget, coverage |-> coverage, honour |-> honour]

Case(event, manifest, epoch, options) ==
  [event |-> event, manifest |-> manifest, epoch |-> epoch, options |-> options]

MCCases ==
  {Case(Event(All, 2, 7, None), Plain, Axes, Options(1, None, None, TRUE)),
   Case(Event([type |-> "qk_prefixes", prefixes |-> {<<1, 0, 2>>, <<2>>}], 1, 0, None),
        Billed, {"param", "algo"}, Options(1, 16, None, TRUE)),
   Case(Event([type |-> "ids", ids |-> {5, 7, 9}], Unreadable, 0, 4), Plain, {"algo"},
        Options(1, None, None, TRUE)),
   Case(Event(All, 2, 7, 5), Plain, Axes, Options(0, None, 80, TRUE)),
   Case(Event(All, 2, Unreadable, 9), Billed, {"param"}, Options(1, None, None, TRUE)),
   Case(Event(All, 2, Unreadable, 9), Manifest({}, "tileset" :> {}, 1, None, TRUE), {},
        Options(0, None, None, TRUE)),
   Case(Event(All, 2, 7, 12), Plain, {"algo"}, Options(1, 60, 60, FALSE)),
   Case(Event(All, 2, 7, None), None, {}, Options(1, None, None, TRUE))}
=============================================================================
