----------------------------- MODULE MCConsumer -----------------------------
(***************************************************************************)
(* Consumer on three messages of two services, one of them for a tile no   *)
(* origin serves.                                                          *)
(***************************************************************************)
EXTENDS Consumer

CONSTANTS papers, terrain, p1, p2, t1

MCServiceOf == [m \in {p1, p2, t1} |-> IF m = t1 THEN terrain ELSE papers]

\* papers is limited to one tile in flight, anything else to two.
MCLimits == [s \in {papers, Star} |-> IF s = papers THEN 1 ELSE 2]

\* A limit for papers that is no number, as in {"papers":"many"}.
MCMalformedLimits == [s \in {papers} |-> NaN]
=============================================================================
