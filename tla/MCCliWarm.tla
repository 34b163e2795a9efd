------------------------------ MODULE MCCliWarm ------------------------------
(***************************************************************************)
(* WarmJob on a plan of three services: papers two at a time and paced,    *)
(* terrain one at a time and not paced, mesh without a manifest.  Verify   *)
(* asks about every other tile of papers.                                  *)
(***************************************************************************)
EXTENDS WarmJob

CONSTANTS papers, terrain, mesh

MCPlan == <<papers, terrain, papers, papers, terrain, papers, mesh>>

MCServices == <<mesh, papers, terrain>>

MCManifests ==
  [s \in {papers, terrain} |-> IF s = papers THEN [concurrency |-> 2, rate |-> 2]
                               ELSE [concurrency |-> 0, rate |-> 0]]

MCOverride == [concurrency |-> None, rate |-> None]

\* Nothing; a tile the sample misses; two papers in a row; all of terrain; the
\* first of papers and a tile.
MCGone == {{}, {6}, {3, 4}, {2, 5}, {1, 3}}
=============================================================================
