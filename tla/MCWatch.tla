------------------------------- MODULE MCWatch -------------------------------
(***************************************************************************)
(* Watch on three tilesets, of which the one the glob has last may be one  *)
(* that cannot be planned.                                                 *)
(***************************************************************************)
EXTENDS Watch

CONSTANTS t1, t2, t3

MCRank == [t \in {t1, t2, t3} |-> IF t = t1 THEN 1 ELSE IF t = t2 THEN 2 ELSE 3]
=============================================================================
