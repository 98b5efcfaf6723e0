--------------------------- MODULE MCInstanceLock ---------------------------
(* A few processes started on one machine.                                 *)
EXTENDS InstanceLock

CONSTANTS p1, p2, p3
=============================================================================
