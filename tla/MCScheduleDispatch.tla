------------------------- MODULE MCScheduleDispatch -------------------------
(* Two API processes, one or two schedules.                                *)
EXTENDS ScheduleDispatch, TLC

CONSTANTS p1, p2, e1, s1, s2

Symmetry == Permutations({p1, p2})
=============================================================================
