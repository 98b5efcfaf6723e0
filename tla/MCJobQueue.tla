----------------------------- MODULE MCJobQueue -----------------------------
(***************************************************************************)
(* A small instance of the job queue: a run of two steps of an instance    *)
(* that two agents serve, an agent of another instance, which must be      *)
(* given none of them, and two concurrent claimNext requests.              *)
(***************************************************************************)
EXTENDS JobQueue, TLC

CONSTANTS a1, a2, b1, r1, s1, s2, i1, i2, h1, h2

MCRunOf          == s1 :> r1 @@ s2 :> r1
MCSequenceNumber == s1 :> 1 @@ s2 :> 2
MCAgentInstance  == a1 :> i1 @@ a2 :> i1 @@ b1 :> i2
MCRunInstance    == r1 :> i1

Symmetry == Permutations({h1, h2}) \cup Permutations({a1, a2})
=============================================================================
