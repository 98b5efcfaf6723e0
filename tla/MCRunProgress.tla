--------------------------- MODULE MCRunProgress ----------------------------
(* Two agents; a run of two steps and one of one step.                     *)
EXTENDS RunProgress

CONSTANTS a1, a2

MCLength == [r \in Runs |-> IF r = 1 THEN 2 ELSE 1]
=============================================================================
