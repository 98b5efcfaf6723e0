---------------------------- MODULE MCAgentFleet ----------------------------
(***************************************************************************)
(* Two agents of one instance and a run of one step, or of two.            *)
(***************************************************************************)
EXTENDS AgentFleet, TLC

CONSTANTS a1, a2, r1, s1, s2, i1, h1, h2

MCSequenceNumber  == [s \in Steps |-> IF s = s1 THEN 1 ELSE 2]
MCRunOf           == [s \in Steps |-> r1]
MCAgentInstance   == [a \in Agents |-> i1]
MCRunInstance     == [r \in Runs |-> i1]
Symmetry          == Permutations({a1, a2}) \cup Permutations({h1, h2})
=============================================================================
