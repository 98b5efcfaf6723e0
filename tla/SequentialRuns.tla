--------------------------- MODULE SequentialRuns ---------------------------
(***************************************************************************)
(* What the job queue promises about runs.  A run is worked on by one      *)
(* agent at a time; that agent finishes the next step, fails it, or loses  *)
(* it.  The run succeeds with its last step and fails with the first step  *)
(* that fails.  Nothing here knows of leases, tokens or requests: module   *)
(* JobQueue implements this specification.                                 *)
(***************************************************************************)
EXTENDS Naturals

CONSTANTS
    Runs,
    NoAgent,
    Length,   \* Length[r]: the number of steps of r
    Workers   \* Workers[r]: the agents of the instance of r

VARIABLES
    outcome,   \* "ABSENT", "RUNNING", "SUCCEEDED" or "FAILED"
    progress,  \* the steps of the run that have succeeded
    holder     \* the agent that works on the next step, or NoAgent

vars == <<outcome, progress, holder>>

Init ==
    /\ outcome = [r \in Runs |-> "ABSENT"]
    /\ progress = [r \in Runs |-> 0]
    /\ holder = [r \in Runs |-> NoAgent]

Create(r) ==
    /\ outcome[r] = "ABSENT"
    /\ outcome' = [outcome EXCEPT ![r] = "RUNNING"]
    /\ UNCHANGED <<progress, holder>>

Take(r) ==
    /\ outcome[r] = "RUNNING"
    /\ holder[r] = NoAgent
    /\ \E a \in Workers[r] : holder' = [holder EXCEPT ![r] = a]
    /\ UNCHANGED <<outcome, progress>>

(* One requeue may take the step from the holders of several runs.         *)
Lose(R) ==
    /\ \A r \in R : holder[r] # NoAgent
    /\ holder' = [r \in Runs |-> IF r \in R THEN NoAgent ELSE holder[r]]
    /\ UNCHANGED <<outcome, progress>>

Finish(r) ==
    /\ holder[r] # NoAgent
    /\ holder' = [holder EXCEPT ![r] = NoAgent]
    /\ progress' = [progress EXCEPT ![r] = @ + 1]
    /\ outcome' = [outcome EXCEPT
                     ![r] = IF progress[r] + 1 = Length[r] THEN "SUCCEEDED" ELSE @]

Break(r) ==
    /\ holder[r] # NoAgent
    /\ holder' = [holder EXCEPT ![r] = NoAgent]
    /\ outcome' = [outcome EXCEPT ![r] = "FAILED"]
    /\ UNCHANGED progress

Next ==
    \/ \E r \in Runs : Create(r) \/ Take(r) \/ Finish(r) \/ Break(r)
    \/ \E R \in SUBSET Runs : Lose(R)

Spec == Init /\ [][Next]_vars
=============================================================================
