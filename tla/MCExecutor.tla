----------------------------- MODULE MCExecutor -----------------------------
(***************************************************************************)
(* Executor on two plans of one service: two entries sent one at a time,   *)
(* and one entry whose URL is gone.                                        *)
(***************************************************************************)
EXTENDS Executor

CONSTANTS good, gone, papers

MCSize == [j \in {good, gone} |-> IF j = good THEN 2 ELSE 1]

MCMessages == {<<good, 1>>, <<good, 2>>, <<gone, 1>>}

MCGone == {<<gone, 1>>}

MCServiceOf == [m \in MCMessages |-> papers]

MCLimits == [s \in {papers} |-> 1]
=============================================================================
