---------------------------- MODULE MCAgentAccess ----------------------------
(* One or two agents, two machines.                                        *)
EXTENDS AgentAccess, TLC

CONSTANTS a1, a2, m1, m2, r1, r2, e1, e2

Symmetry == Permutations({r1, r2}) \cup Permutations({m1, m2}) \cup Permutations({e1, e2})
=============================================================================
