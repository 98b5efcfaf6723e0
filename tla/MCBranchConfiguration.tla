------------------------ MODULE MCBranchConfiguration ------------------------
(* Instances of BranchConfiguration for TLC. *)
EXTENDS BranchConfiguration, TLC

\* Every code keeps a part of its own.
MCDistinct == [c \in Codes |-> c]

\* "2-A" and "2_A": the last two codes have one part.
MCColliding == [c \in Codes |-> IF c = 3 THEN 2 ELSE c]

MCSymmetry == Permutations(Branches)
===============================================================================
