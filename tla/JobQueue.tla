------------------------------ MODULE JobQueue ------------------------------
(***************************************************************************)
(* The job queue of the API: the automation steps of every run, the        *)
(* claims (leases) agents hold on them, and the endpoints claimNext,       *)
(* heartbeat, succeed and fail of AgentJobsService                         *)
(* (apps/api/src/agent-jobs/agent-jobs.service.ts).                        *)
(*                                                                         *)
(* A claimNext request captures `now` when it arrives and then runs three  *)
(* separate pieces against the database: the requeue of expired claims     *)
(* (its own statement), the snapshot of the candidates, and one guarded    *)
(* update per candidate until one of them succeeds.  Other requests run    *)
(* in between, so each piece is an action.  heartbeat, succeed and fail    *)
(* are one transaction each, but their `now` is captured before they wait  *)
(* for a connection: they execute with any `now` since the claim.          *)
(*                                                                         *)
(* Agents are the most general clients here: each may present, for any     *)
(* step, any token that was ever issued.  Module AgentFleet composes the   *)
(* queue with the agent runtime that really calls it.                      *)
(***************************************************************************)
EXTENDS Integers, FiniteSets

CONSTANTS
    Agents,          \* enrolled agents
    NoAgent,         \* claimedByAgentId = null
    Runs,            \* ids of the runs that may be created
    Steps,           \* ids of the steps of those runs
    RunOf,           \* RunOf[s]: the run of step s
    SequenceNumber,  \* SequenceNumber[s]: position of s in its run
    AgentInstance,   \* AgentInstance[a]: the WinThor instance a serves
    RunInstance,     \* RunInstance[r]: the WinThor instance of r
    Handlers,        \* claimNext requests the API processes at once
    LeaseTime,       \* AGENT_JOB_LEASE_SECONDS
    CandidateLimit,  \* candidates one claimNext looks at (100 in the code)
    MaxClock,        \* bound: the clock stops here
    MaxAttempts      \* bound: claims of one step

ASSUME ShapeAssumption ==
    /\ NoAgent \notin Agents
    /\ RunOf \in [Steps -> Runs]
    /\ SequenceNumber \in [Steps -> Nat]
    \* @@unique([runId, sequenceNumber])
    /\ \A s, t \in Steps :
          RunOf[s] = RunOf[t] /\ SequenceNumber[s] = SequenceNumber[t] => s = t
    \* every step builder returns at least one step
    /\ \A r \in Runs : \E s \in Steps : RunOf[s] = r
    /\ DOMAIN AgentInstance = Agents
    /\ DOMAIN RunInstance = Runs

\* a run is created with a list of steps
ASSUME LengthAssumption == \A r \in Runs : IsFiniteSet({s \in Steps : RunOf[s] = r})

ASSUME BoundAssumption ==
    /\ LeaseTime \in Nat \ {0}
    /\ CandidateLimit \in Nat \ {0}
    /\ MaxClock \in Nat
    /\ MaxAttempts \in Nat

VARIABLES
    clock,           \* the database/API clock
    runStatus,       \* AutomationRun.status, "ABSENT" before creation
    createdAt,       \* AutomationRun.createdAt
    stepStatus,      \* AutomationStep.status, "ABSENT" before creation
    claimedBy,       \* AutomationStep.claimedByAgentId
    claimToken,      \* AutomationStep.claimToken: 0 is null, n the UUID of the n-th claim
    claimedAt,       \* AutomationStep.claimedAt (0 when null)
    leaseExpiresAt,  \* AutomationStep.leaseExpiresAt: 0 is null
    attemptCount,    \* AutomationStep.attemptCount
    phase,           \* claimNext requests in progress: what they do next,
    caller,          \*   the agent they serve,
    calledAt,        \*   the `now` they captured,
    candidates       \*   the unblocked steps of their snapshot

runVars  == <<runStatus, createdAt>>
stepVars == <<stepStatus, claimedBy, claimToken, claimedAt, leaseExpiresAt,
              attemptCount>>
claimVars == <<phase, caller, calledAt, candidates>>
vars     == <<clock, runVars, stepVars, claimVars>>

StepsOf(r)     == {s \in Steps : RunOf[s] = r}
Earlier(t, s)  == RunOf[t] = RunOf[s] /\ SequenceNumber[t] < SequenceNumber[s]
Serves(a, s)   == AgentInstance[a] = RunInstance[RunOf[s]]

RunStatuses  == {"ABSENT", "RUNNING", "SUCCEEDED", "FAILED"}
StepStatuses == {"ABSENT", "PENDING", "RUNNING", "SUCCEEDED", "FAILED"}

TypeOK ==
    /\ clock \in 0..MaxClock
    /\ runStatus \in [Runs -> RunStatuses]
    /\ createdAt \in [Runs -> 0..MaxClock]
    /\ stepStatus \in [Steps -> StepStatuses]
    /\ claimedBy \in [Steps -> Agents \cup {NoAgent}]
    /\ claimToken \in [Steps -> 0..MaxAttempts]
    /\ claimedAt \in [Steps -> 0..MaxClock]
    /\ leaseExpiresAt \in [Steps -> 0..(MaxClock + LeaseTime)]
    /\ attemptCount \in [Steps -> 0..MaxAttempts]
    /\ phase \in [Handlers -> {"idle", "requeue", "find", "update"}]
    /\ caller \in [Handlers -> Agents \cup {NoAgent}]
    /\ calledAt \in [Handlers -> 0..MaxClock]
    /\ candidates \in [Handlers -> SUBSET Steps]

Init ==
    /\ clock = 0
    /\ runStatus = [r \in Runs |-> "ABSENT"]
    /\ createdAt = [r \in Runs |-> 0]
    /\ stepStatus = [s \in Steps |-> "ABSENT"]
    /\ claimedBy = [s \in Steps |-> NoAgent]
    /\ claimToken = [s \in Steps |-> 0]
    /\ claimedAt = [s \in Steps |-> 0]
    /\ leaseExpiresAt = [s \in Steps |-> 0]
    /\ attemptCount = [s \in Steps |-> 0]
    /\ phase = [h \in Handlers |-> "idle"]
    /\ caller = [h \in Handlers |-> NoAgent]
    /\ calledAt = [h \in Handlers |-> 0]
    /\ candidates = [h \in Handlers |-> {}]

Tick ==
    /\ clock < MaxClock
    /\ clock' = clock + 1
    /\ UNCHANGED <<runVars, stepVars, claimVars>>

(* AutomationRunsService.createRun: the run and its steps in one insert.   *)
CreateRun(r) ==
    /\ runStatus[r] = "ABSENT"
    /\ runStatus' = [runStatus EXCEPT ![r] = "RUNNING"]
    /\ createdAt' = [createdAt EXCEPT ![r] = clock]
    /\ stepStatus' = [s \in Steps |->
                        IF RunOf[s] = r THEN "PENDING" ELSE stepStatus[s]]
    /\ UNCHANGED <<clock, claimedBy, claimToken, claimedAt, leaseExpiresAt,
                   attemptCount, claimVars>>

-----------------------------------------------------------------------------
(* claimNext *)

ReceiveClaim(h, a) ==
    /\ phase[h] = "idle"
    /\ phase' = [phase EXCEPT ![h] = "requeue"]
    /\ caller' = [caller EXCEPT ![h] = a]
    /\ calledAt' = [calledAt EXCEPT ![h] = clock]
    /\ UNCHANGED candidates
    /\ UNCHANGED <<clock, runVars, stepVars>>

Expired(s, now) ==
    /\ stepStatus[s] = "RUNNING"
    /\ claimedBy[s] # NoAgent
    /\ claimToken[s] # 0
    /\ leaseExpiresAt[s] # 0
    /\ leaseExpiresAt[s] <= now

(* Mutant: the columns of the claim are kept.                              *)
RequeueKeepingClaim(h) ==
    /\ phase[h] = "requeue"
    /\ stepStatus' = [s \in Steps |->
                        IF Expired(s, calledAt[h]) THEN "PENDING" ELSE stepStatus[s]]
    /\ phase' = [phase EXCEPT ![h] = "find"]
    /\ UNCHANGED <<clock, runVars, claimedBy, claimToken, claimedAt, leaseExpiresAt,
                   attemptCount, caller, calledAt, candidates>>

(* One updateMany over every instance, with the request's own `now`.       *)
RequeueExpiredJobs(h) ==
    LET gone == {s \in Steps : Expired(s, calledAt[h])}
    IN  /\ phase[h] = "requeue"
        /\ stepStatus' = [s \in Steps |-> IF s \in gone THEN "PENDING" ELSE stepStatus[s]]
        /\ claimedBy' = [s \in Steps |-> IF s \in gone THEN NoAgent ELSE claimedBy[s]]
        /\ claimToken' = [s \in Steps |-> IF s \in gone THEN 0 ELSE claimToken[s]]
        /\ claimedAt' = [s \in Steps |-> IF s \in gone THEN 0 ELSE claimedAt[s]]
        /\ leaseExpiresAt' = [s \in Steps |-> IF s \in gone THEN 0 ELSE leaseExpiresAt[s]]
        /\ phase' = [phase EXCEPT ![h] = "find"]
        /\ UNCHANGED <<clock, runVars, attemptCount, caller, calledAt, candidates>>

Pending(a) == {s \in Steps : /\ stepStatus[s] = "PENDING"
                             /\ runStatus[RunOf[s]] = "RUNNING"
                             /\ Serves(a, s)}

(* orderBy createdAt, sequenceNumber: a tie may come out either way.       *)
Before(t, s) ==
    \/ createdAt[RunOf[t]] < createdAt[RunOf[s]]
    \/ /\ createdAt[RunOf[t]] = createdAt[RunOf[s]]
       /\ SequenceNumber[t] < SequenceNumber[s]

(* take: 100.  The windows findMany may return.                            *)
Windows(a) ==
    {W \in SUBSET Pending(a) :
        /\ \A s \in W : \A t \in Pending(a) \ W : ~Before(t, s)
        /\ \/ W = Pending(a) /\ Cardinality(W) <= CandidateLimit
           \/ Cardinality(W) = CandidateLimit}

(* Mutant: only a step at work blocks its successors.                      *)
BlockedByRunning(s) == \E t \in Steps : Earlier(t, s) /\ stepStatus[t] = "RUNNING"

Blocked(s) == \E t \in Steps : Earlier(t, s) /\ stepStatus[t] # "SUCCEEDED"

(* The consistent reads of the transaction: findMany, and the findFirst of *)
(* a blocking step per candidate, see the snapshot taken here.             *)
FindCandidates(h) ==
    /\ phase[h] = "find"
    /\ phase' = [phase EXCEPT ![h] = "update"]
    /\ \E W \in Windows(caller[h]) :
          candidates' = [candidates EXCEPT ![h] = {s \in W : ~Blocked(s)}]
    /\ UNCHANGED <<clock, runVars, stepVars, caller, calledAt>>

(* The candidates the loop may try next.                                   *)
First(h, s) ==
    /\ phase[h] = "update"
    /\ s \in candidates[h]
    /\ \A t \in candidates[h] : ~Before(t, s)

(* Mutants: the update trusts the snapshot, or looks at the token alone.   *)
ClaimableUnchecked(a, s) == runStatus[RunOf[s]] = "RUNNING" /\ Serves(a, s)
ClaimableUnlessClaimed(a, s) == claimToken[s] = 0 /\ ClaimableUnchecked(a, s)

(* The where clause of the claiming updateMany.                            *)
Claimable(a, s) ==
    /\ stepStatus[s] = "PENDING"
    /\ claimToken[s] = 0
    /\ runStatus[RunOf[s]] = "RUNNING"
    /\ Serves(a, s)

(* The request ends; a free handler keeps nothing.                         *)
Answer(h) ==
    /\ phase' = [phase EXCEPT ![h] = "idle"]
    /\ caller' = [caller EXCEPT ![h] = NoAgent]
    /\ calledAt' = [calledAt EXCEPT ![h] = 0]
    /\ candidates' = [candidates EXCEPT ![h] = {}]

ClaimCandidate(h, s) ==
    LET a == caller[h]
        now == calledAt[h]
    IN  /\ First(h, s)
        /\ Claimable(a, s)
        /\ attemptCount[s] < MaxAttempts
        /\ stepStatus' = [stepStatus EXCEPT ![s] = "RUNNING"]
        /\ claimedBy' = [claimedBy EXCEPT ![s] = a]
        /\ claimToken' = [claimToken EXCEPT ![s] = attemptCount[s] + 1]
        /\ claimedAt' = [claimedAt EXCEPT ![s] = now]
        /\ leaseExpiresAt' = [leaseExpiresAt EXCEPT ![s] = now + LeaseTime]
        /\ attemptCount' = [attemptCount EXCEPT ![s] = attemptCount[s] + 1]
        /\ Answer(h)
        /\ UNCHANGED <<clock, runVars>>

(* count = 0: another request was faster; go on with the next candidate.   *)
SkipCandidate(h, s) ==
    /\ First(h, s)
    /\ ~Claimable(caller[h], s)
    /\ candidates' = [candidates EXCEPT ![h] = @ \ {s}]
    /\ UNCHANGED <<clock, runVars, stepVars, phase, caller, calledAt>>

NoJob(h) ==
    /\ phase[h] = "update"
    /\ candidates[h] = {}
    /\ Answer(h)
    /\ UNCHANGED <<clock, runVars, stepVars>>

(* A database error, a deadlock victim or the end of the API process: the  *)
(* transaction rolls back, a requeue already committed stays.              *)
DropClaim(h) ==
    /\ phase[h] # "idle"
    /\ Answer(h)
    /\ UNCHANGED <<clock, runVars, stepVars>>

-----------------------------------------------------------------------------
(* heartbeat, succeed, fail *)

(* Mutant: the token is not compared.                                      *)
HoldsAnyClaim(a, s, token, now) ==
    /\ stepStatus[s] = "RUNNING"
    /\ claimedBy[s] = a
    /\ leaseExpiresAt[s] > now
    /\ Serves(a, s)

(* The where clause the three share: with count = 0 they answer            *)
(* AGENT_JOB_CLAIM_INVALID and change nothing.                             *)
HoldsClaim(a, s, token, now) ==
    /\ stepStatus[s] = "RUNNING"
    /\ claimedBy[s] = a
    /\ claimToken[s] = token
    /\ leaseExpiresAt[s] > now
    /\ Serves(a, s)

(* The `now` of a request that presents the current claim of s.            *)
RequestTimes(s) == claimedAt[s]..clock

Heartbeat(a, s, token, now) ==
    /\ HoldsClaim(a, s, token, now)
    /\ leaseExpiresAt' = [leaseExpiresAt EXCEPT ![s] = now + LeaseTime]
    /\ UNCHANGED <<clock, runVars, stepStatus, claimedBy, claimToken, claimedAt,
                   attemptCount, claimVars>>

(* The step ends; claimedByAgentId and claimedAt stay for the record.      *)
EndStep(s, outcome) ==
    /\ stepStatus' = [stepStatus EXCEPT ![s] = outcome]
    /\ claimToken' = [claimToken EXCEPT ![s] = 0]
    /\ leaseExpiresAt' = [leaseExpiresAt EXCEPT ![s] = 0]
    /\ UNCHANGED <<clock, createdAt, claimedBy, claimedAt, attemptCount, claimVars>>

EndRun(r, outcome) ==
    runStatus' = [runStatus EXCEPT ![r] = IF @ = "RUNNING" THEN outcome ELSE @]

(* Mutants: the other steps are counted before the update, or the PENDING  *)
(* ones are not counted.                                                   *)
SucceedCountingBefore(a, s, token, now) ==
    /\ HoldsClaim(a, s, token, now)
    /\ EndStep(s, "SUCCEEDED")
    /\ IF \A t \in StepsOf(RunOf[s]) : stepStatus[t] = "SUCCEEDED"
         THEN EndRun(RunOf[s], "SUCCEEDED")
         ELSE UNCHANGED runStatus

SucceedIgnoringPending(a, s, token, now) ==
    /\ HoldsClaim(a, s, token, now)
    /\ EndStep(s, "SUCCEEDED")
    /\ EndRun(RunOf[s], "SUCCEEDED")

Succeed(a, s, token, now) ==
    /\ HoldsClaim(a, s, token, now)
    /\ EndStep(s, "SUCCEEDED")
    /\ IF \A t \in StepsOf(RunOf[s]) : stepStatus'[t] = "SUCCEEDED"
         THEN EndRun(RunOf[s], "SUCCEEDED")
         ELSE UNCHANGED runStatus

Fail(a, s, token, now) ==
    /\ HoldsClaim(a, s, token, now)
    /\ EndStep(s, "FAILED")
    /\ EndRun(RunOf[s], "FAILED")

-----------------------------------------------------------------------------
ClaimStep(h) ==
    \/ \E a \in Agents : ReceiveClaim(h, a)
    \/ RequeueExpiredJobs(h)
    \/ FindCandidates(h)
    \/ \E s \in Steps : ClaimCandidate(h, s)
    \/ \E s \in Steps : SkipCandidate(h, s)
    \/ NoJob(h)
    \/ DropClaim(h)

Report(a, s, token, now) ==
    \/ Heartbeat(a, s, token, now)
    \/ Succeed(a, s, token, now)
    \/ Fail(a, s, token, now)

Next ==
    \/ Tick
    \/ \E r \in Runs : CreateRun(r)
    \/ \E h \in Handlers : ClaimStep(h)
    \/ \E a \in Agents, s \in Steps :
          \E token \in 1..attemptCount[s], now \in RequestTimes(s) :
             Report(a, s, token, now)

Spec == Init /\ [][Next]_vars

-----------------------------------------------------------------------------
(* Properties *)

(* A step is worked on, or has an outcome, only when every earlier step of *)
(* its run has succeeded: claimNext skips a candidate with a blocking      *)
(* step, and nothing that happens between its snapshot and its update, or  *)
(* in a requeue, may put a step ahead of its predecessors.                 *)
SequentialExecution ==
    \A s \in Steps :
        stepStatus[s] \in {"RUNNING", "SUCCEEDED", "FAILED"} =>
            \A t \in Steps : Earlier(t, s) => stepStatus[t] = "SUCCEEDED"

(* The aggregate kept in the run agrees with its steps: it is SUCCEEDED    *)
(* exactly when all of them are, FAILED exactly when one of them is, and a *)
(* step that is RUNNING belongs to a RUNNING run.  succeed decides this by *)
(* counting, fail by a second update, neither locks the other steps.       *)
RunMatchesSteps ==
    \A r \in Runs :
        /\ runStatus[r] = "SUCCEEDED" <=>
              \A s \in StepsOf(r) : stepStatus[s] = "SUCCEEDED"
        /\ runStatus[r] = "FAILED" <=>
              \E s \in StepsOf(r) : stepStatus[s] = "FAILED"
        /\ (\E s \in StepsOf(r) : stepStatus[s] = "RUNNING") =>
              runStatus[r] = "RUNNING"

(* The claim columns agree with the status: exactly the RUNNING steps have *)
(* a token and a lease, the token is the one of the latest claim, and its  *)
(* holder serves the instance of the run.  A RUNNING step without them     *)
(* would be invisible to the requeue and stay RUNNING for ever.            *)
ClaimMatchesStatus ==
    \A s \in Steps :
        /\ stepStatus[s] = "RUNNING" <=> claimToken[s] # 0
        /\ stepStatus[s] = "RUNNING" <=> leaseExpiresAt[s] # 0
        /\ stepStatus[s] = "RUNNING" =>
              /\ claimedBy[s] \in Agents
              /\ Serves(claimedBy[s], s)
              /\ claimToken[s] = attemptCount[s]
              /\ claimedAt[s] <= clock
              /\ leaseExpiresAt[s] <= clock + LeaseTime

(* A run that has not ended can always go on: one of its steps waits for   *)
(* nothing earlier and either meets what a claim asks of it, or is held    *)
(* under a lease and meets what the requeue asks of it once that is over.  *)
(* The two where clauses, the check for a blocking step and the writes of  *)
(* succeed, fail and requeue must fit together for that.                   *)
RunsCanProceed ==
    \A r \in Runs : runStatus[r] = "RUNNING" =>
        \E s \in StepsOf(r) :
            /\ ~Blocked(s)
            /\ \/ stepStatus[s] = "PENDING" /\ claimToken[s] = 0
               \/ Expired(s, leaseExpiresAt[s])

(* No claim is overwritten, and none is taken from its holder before its   *)
(* lease has run out: the token of a step only ever goes back to null, and *)
(* if the step is not finished by that its lease is over.  Two claimNext   *)
(* with the same candidate, or a requeue racing a heartbeat, might.        *)
LiveClaimIsKept ==
    \A s \in Steps :
        claimToken[s] # 0 /\ claimToken'[s] # claimToken[s] =>
            /\ claimToken'[s] = 0
            /\ \/ stepStatus'[s] \in {"SUCCEEDED", "FAILED"}
               \/ leaseExpiresAt[s] <= clock
LiveClaimsAreKept == [][LiveClaimIsKept]_vars

(* An outcome is final: whatever late, repeated or concurrent requests     *)
(* arrive, a finished step is never run again and a finished run is never  *)
(* reopened or given the other outcome, and its other steps stay put.      *)
OutcomeIsFinal ==
    /\ \A s \in Steps :
          stepStatus[s] \in {"SUCCEEDED", "FAILED"} => stepStatus'[s] = stepStatus[s]
    /\ \A r \in Runs :
          runStatus[r] \in {"SUCCEEDED", "FAILED"} =>
              /\ runStatus'[r] = runStatus[r]
              /\ \A s \in StepsOf(r) : /\ stepStatus'[s] = stepStatus[s]
                                       /\ claimToken'[s] = claimToken[s]
OutcomesAreFinal == [][OutcomeIsFinal]_vars

(* What the queue promises, leases and requests aside (module              *)
(* SequentialRuns): progress is the number of finished steps of the run,   *)
(* holder the agent of its RUNNING step.                                   *)
Progress == [r \in Runs |->
                Cardinality({s \in StepsOf(r) : stepStatus[s] = "SUCCEEDED"})]
Holder == [r \in Runs |->
              IF \E s \in StepsOf(r) : stepStatus[s] = "RUNNING"
                THEN claimedBy[CHOOSE s \in StepsOf(r) : stepStatus[s] = "RUNNING"]
                ELSE NoAgent]
Abstract == INSTANCE SequentialRuns WITH
                outcome <- runStatus, progress <- Progress, holder <- Holder,
                Length <- [r \in Runs |-> Cardinality(StepsOf(r))],
                Workers <- [r \in Runs |-> {a \in Agents : AgentInstance[a] = RunInstance[r]}]

(* The queue implements the abstract runs: each run is worked on by at     *)
(* most one agent of its own instance at a time, advances by one step, and *)
(* ends as soon as a step fails or the last one succeeds.                  *)
ImplementsSequentialRuns == Abstract!Spec
=============================================================================
