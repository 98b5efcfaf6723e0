---------------------------- MODULE RunProgress -----------------------------
(***************************************************************************)
(* Liveness of the job queue: do the runs end?  Module JobQueue has a      *)
(* clock that must be bounded to be checked, and a stopped clock expires   *)
(* no lease.  Here a lease is live or over, and time is the fairness of    *)
(* the step that ends it.  A claimNext is one step (its interleavings are  *)
(* the subject of JobQueue), with its requeue: nothing else in the API     *)
(* ever requeues an expired claim.                                         *)
(*                                                                         *)
(* The agents serve one instance.  Faults (a crash, a lost answer, a       *)
(* failed lease heartbeat) happen at any time, MaxFaults times in all: an  *)
(* agent that failed in every attempt would rightly never finish.          *)
(***************************************************************************)
EXTENDS Naturals, FiniteSets

CONSTANTS
    Agents,
    NoAgent,
    Runs,            \* run ids, a set of numbers: the older is the smaller
    Length,          \* Length[r]: number of steps of run r
    CandidateLimit,  \* candidates one claimNext looks at (100 in the code)
    MaxFaults        \* bound: faults in a behaviour

ASSUME ProgressAssumption ==
    /\ NoAgent \notin Agents
    /\ Runs \subseteq Nat
    /\ Length \in [Runs -> Nat \ {0}]
    /\ CandidateLimit \in Nat \ {0}
    /\ MaxFaults \in Nat

Steps == UNION {{<<r, k>> : k \in 1..Length[r]} : r \in Runs}

VARIABLES
    runStatus,
    stepStatus,
    claimedBy,
    leaseOver,   \* leaseOver[s]: leaseExpiresAt <= now
    worksOn,     \* the step the agent's handler is executing, or Nothing
    up,          \* the agent process is running
    faults

vars == <<runStatus, stepStatus, claimedBy, leaseOver, worksOn, up, faults>>

Nothing == <<>>

TypeOK ==
    /\ runStatus \in [Runs -> {"ABSENT", "RUNNING", "SUCCEEDED", "FAILED"}]
    /\ stepStatus \in [Steps -> {"ABSENT", "PENDING", "RUNNING", "SUCCEEDED", "FAILED"}]
    /\ claimedBy \in [Steps -> Agents \cup {NoAgent}]
    /\ leaseOver \in [Steps -> BOOLEAN]
    /\ worksOn \in [Agents -> Steps \cup {Nothing}]
    /\ up \in [Agents -> BOOLEAN]
    /\ faults \in 0..MaxFaults

Init ==
    /\ runStatus = [r \in Runs |-> "ABSENT"]
    /\ stepStatus = [s \in Steps |-> "ABSENT"]
    /\ claimedBy = [s \in Steps |-> NoAgent]
    /\ leaseOver = [s \in Steps |-> FALSE]
    /\ worksOn = [a \in Agents |-> Nothing]
    /\ up = [a \in Agents |-> TRUE]
    /\ faults = 0

(* Runs are created in the order of their numbers.                         *)
CreateRun(r) ==
    /\ runStatus[r] = "ABSENT"
    /\ \A q \in Runs : q < r => runStatus[q] # "ABSENT"
    /\ runStatus' = [runStatus EXCEPT ![r] = "RUNNING"]
    /\ stepStatus' = [s \in Steps |-> IF s[1] = r THEN "PENDING" ELSE stepStatus[s]]
    /\ UNCHANGED <<claimedBy, leaseOver, worksOn, up, faults>>

-----------------------------------------------------------------------------
(* claimNext *)

(* Mutants: no requeue; a requeue to a status of its own.                  *)
RequeuedNever == stepStatus
RequeuedAsExpired == [s \in Steps |->
    IF stepStatus[s] = "RUNNING" /\ leaseOver[s] THEN "EXPIRED" ELSE stepStatus[s]]

Requeued == [s \in Steps |->
                IF stepStatus[s] = "RUNNING" /\ leaseOver[s] THEN "PENDING"
                                                             ELSE stepStatus[s]]

Before(t, s) == t[1] < s[1] \/ (t[1] = s[1] /\ t[2] < s[2])

(* Mutant: the steps of ended runs are candidates too.                     *)
CandidatesOfAnyRun(status) ==
    LET pending == {s \in Steps : status[s] = "PENDING"}
    IN  {s \in pending : Cardinality({t \in pending : Before(t, s)}) < CandidateLimit}

(* where: pending steps of running runs; orderBy; take.                    *)
Candidates(status) ==
    LET pending == {s \in Steps : status[s] = "PENDING" /\ runStatus[s[1]] = "RUNNING"}
    IN  {s \in pending : Cardinality({t \in pending : Before(t, s)}) < CandidateLimit}

Unblocked(status, s) == \A k \in 1..(s[2] - 1) : status[<<s[1], k>>] = "SUCCEEDED"

(* The first unblocked candidate, if there is one.                         *)
Choice(status) ==
    LET ready == {s \in Candidates(status) : Unblocked(status, s)}
    IN  {s \in ready : \A t \in ready : ~Before(t, s)}

Requeue ==
    /\ claimedBy' = [s \in Steps |->
                        IF Requeued[s] # stepStatus[s] THEN NoAgent ELSE claimedBy[s]]
    /\ leaseOver' = [s \in Steps |-> leaseOver[s] /\ Requeued[s] = stepStatus[s]]

Claim(a) ==
    /\ up[a]
    /\ worksOn[a] = Nothing
    /\ \E s \in Choice(Requeued) :
          /\ stepStatus' = [Requeued EXCEPT ![s] = "RUNNING"]
          /\ claimedBy' = [t \in Steps |->
                IF t = s THEN a
                ELSE IF Requeued[t] # stepStatus[t] THEN NoAgent ELSE claimedBy[t]]
          /\ leaseOver' = [t \in Steps |->
                t # s /\ leaseOver[t] /\ Requeued[t] = stepStatus[t]]
          /\ \/ worksOn' = [worksOn EXCEPT ![a] = s] /\ UNCHANGED faults
             \* the answer is lost: a claim without a worker
             \/ faults < MaxFaults /\ faults' = faults + 1 /\ UNCHANGED worksOn
    /\ UNCHANGED <<runStatus, up>>

(* No job: the requeue has happened all the same.                          *)
ClaimNothing(a) ==
    /\ up[a]
    /\ worksOn[a] = Nothing
    /\ Choice(Requeued) = {}
    /\ stepStatus' = Requeued
    /\ Requeue
    /\ UNCHANGED <<runStatus, worksOn, up, faults>>

-----------------------------------------------------------------------------
(* The lease of a step nobody renews runs out.                             *)
LeaseEnds(s) ==
    /\ stepStatus[s] = "RUNNING"
    /\ ~leaseOver[s]
    /\ \A a \in Agents : worksOn[a] = s => claimedBy[s] # a
    /\ leaseOver' = [leaseOver EXCEPT ![s] = TRUE]
    /\ UNCHANGED <<runStatus, stepStatus, claimedBy, worksOn, up, faults>>

Fault(a) ==
    /\ faults < MaxFaults
    /\ faults' = faults + 1
    /\ UNCHANGED <<runStatus, stepStatus, claimedBy>>

Crash(a) ==
    /\ up[a]
    /\ Fault(a)
    /\ up' = [up EXCEPT ![a] = FALSE]
    /\ worksOn' = [worksOn EXCEPT ![a] = Nothing]
    /\ UNCHANGED leaseOver

Restart(a) ==
    /\ ~up[a]
    /\ up' = [up EXCEPT ![a] = TRUE]
    /\ UNCHANGED <<runStatus, stepStatus, claimedBy, leaseOver, worksOn, faults>>

(* A heartbeat fails: the handler is aborted and nothing is reported.      *)
LoseLease(a) ==
    /\ worksOn[a] # Nothing
    /\ Fault(a)
    /\ worksOn' = [worksOn EXCEPT ![a] = Nothing]
    /\ UNCHANGED <<leaseOver, up>>

(* The agent is held up for so long that its lease ends while it works.    *)
Stall(a) ==
    /\ worksOn[a] # Nothing
    /\ Fault(a)
    /\ leaseOver' = [leaseOver EXCEPT
                       ![worksOn[a]] = @ \/ claimedBy[worksOn[a]] = a]
    /\ UNCHANGED <<worksOn, up>>

-----------------------------------------------------------------------------
(* The handler is over and its outcome is reported.                        *)
Accepted(a, s) ==
    /\ stepStatus[s] = "RUNNING"
    /\ claimedBy[s] = a
    /\ ~leaseOver[s]

Succeed(a) ==
    LET s == worksOn[a]
    IN  /\ s # Nothing
        /\ worksOn' = [worksOn EXCEPT ![a] = Nothing]
        /\ IF Accepted(a, s)
             THEN /\ stepStatus' = [stepStatus EXCEPT ![s] = "SUCCEEDED"]
                  /\ runStatus' = [runStatus EXCEPT
                        ![s[1]] = IF \A t \in Steps : t[1] = s[1] =>
                                                         stepStatus'[t] = "SUCCEEDED"
                                    THEN "SUCCEEDED" ELSE @]
             ELSE UNCHANGED <<stepStatus, runStatus>>
        /\ UNCHANGED <<claimedBy, leaseOver, up, faults>>

Fail(a) ==
    LET s == worksOn[a]
    IN  /\ s # Nothing
        /\ worksOn' = [worksOn EXCEPT ![a] = Nothing]
        /\ IF Accepted(a, s)
             THEN /\ stepStatus' = [stepStatus EXCEPT ![s] = "FAILED"]
                  /\ runStatus' = [runStatus EXCEPT ![s[1]] = "FAILED"]
             ELSE UNCHANGED <<stepStatus, runStatus>>
        /\ UNCHANGED <<claimedBy, leaseOver, up, faults>>

-----------------------------------------------------------------------------
Poll(a)   == Claim(a) \/ ClaimNothing(a)
Report(a) == Succeed(a) \/ Fail(a)

Next ==
    \/ \E r \in Runs : CreateRun(r)
    \/ \E a \in Agents : \/ Poll(a) \/ Report(a) \/ Restart(a)
                         \/ Crash(a) \/ LoseLease(a) \/ Stall(a)
    \/ \E s \in Steps : LeaseEnds(s)

(* jobLoop polls while it is up, every handler ends (its desktop driver    *)
(* has timeouts), an agent that went down is started again, and time       *)
(* passes.                                                                 *)
Fairness ==
    /\ \A a \in Agents : WF_vars(Poll(a)) /\ WF_vars(Report(a)) /\ WF_vars(Restart(a))
    /\ \A s \in Steps : WF_vars(LeaseEnds(s))

Spec == Init /\ [][Next]_vars /\ Fairness

-----------------------------------------------------------------------------
(* Properties *)

(* Every run ends: no crash, lost claim or lost lease leaves a step        *)
(* RUNNING for ever, and no run waits for ever behind the steps of another *)
(* in the bounded window of candidates, be that as small as one step.      *)
EveryRunEnds ==
    \A r \in Runs :
        runStatus[r] = "RUNNING" ~> runStatus[r] \in {"SUCCEEDED", "FAILED"}

(* A claim does not outlive the interest of its holder: a RUNNING step its *)
(* holder is not working on comes back to PENDING, or has been finished or *)
(* claimed anew.                                                           *)
OrphanedClaim(s, a) ==
    stepStatus[s] = "RUNNING" /\ claimedBy[s] = a /\ worksOn[a] # s
OrphansAreReclaimed ==
    \A s \in Steps, a \in Agents : OrphanedClaim(s, a) ~> ~OrphanedClaim(s, a)
=============================================================================
