------------------------------ MODULE MCDigest ------------------------------
(***************************************************************************)
(* Digest on two services: three tiles in two cells, a document with a     *)
(* quadkey and one without, a tile without one, and a kind that is not in  *)
(* the vocabulary.                                                         *)
(***************************************************************************)
EXTENDS Digest

CONSTANTS papers, terrain

Doc(service, kind, cell, key) ==
  [service |-> service, kind |-> kind, cell |-> cell, key |-> key]

MCDocs ==
  {Doc(papers, "content", 1, 1), Doc(papers, "content", 1, 2), Doc(papers, "content", 2, 3),
   Doc(papers, "tileset", 1, 4), Doc(papers, "tileset", NoCell, 5),
   Doc(terrain, "content", 1, 6), Doc(terrain, "content", NoCell, 7),
   Doc(terrain, "other", NoCell, 8)}

Request(key, status, origin, offset) ==
  [doc |-> CHOOSE d \in MCDocs : d.key = key,
   status |-> status, origin |-> origin, offset |-> offset]

MCDemands ==
  {Request(1, "hit", "organic", 0), Request(1, "miss", "warm", 0),
   Request(2, "miss", "organic", 0), Request(2, "miss", "organic", 1),
   Request(3, "miss", "organic", 0), Request(4, "hit", "organic", 0),
   Request(5, "miss", "organic", 0), Request(6, "miss", "organic", 0),
   Request(7, "miss", "organic", 0), Request(8, "miss", "organic", 0)}

MCServices == <<papers, terrain>>

MCRosters == {{}, {terrain}}

\* Every day of two years with a leap day and of two without one; the digest is
\* followed for one of them.
MCDates ==
  {d \in {2000, 2024, 2026, 2100} \X (1..12) \X (1..31) : IsDate(d)}

Followed == date = <<2024, 2, 28>>
=============================================================================
