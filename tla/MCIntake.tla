------------------------------ MODULE MCIntake ------------------------------
(***************************************************************************)
(* Intake on a plan of five entries, one whose URLs are all gone, and one  *)
(* whose last entry names no service.                                      *)
(***************************************************************************)
EXTENDS Intake

CONSTANTS good, gone, bad

MCSize == [j \in {good, gone, bad} |-> IF j = good THEN 5 ELSE IF j = gone THEN 4 ELSE 2]

MCGone == {gone} \X (1..4)

MCBad == {<<bad, 2>>}
=============================================================================
