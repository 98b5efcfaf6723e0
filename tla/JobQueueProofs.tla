--------------------------- MODULE JobQueueProofs ---------------------------
(***************************************************************************)
(* The job queue and its agents, for any number of agents, runs, steps and *)
(* concurrent requests, any timing and any loss of requests and answers.   *)
(*                                                                         *)
(* First the queue alone.  The invariants of JobQueue are not inductive by *)
(* themselves: a claimNext acts on candidates it read earlier, and         *)
(* CandidatesReady says what stays true of them until the update.  Every   *)
(* step maps to one of SequentialRuns, or to a stutter.                    *)
(*                                                                         *)
(* Then the agents with it.  What they send, in time or late, are requests *)
(* the queue is prepared for (FleetImplementsQueue), so all that is proved *)
(* of the queue holds with these agents; and a step succeeds only by work  *)
(* done under its last claim.  Both rest on Past: a request was sent after *)
(* the claim it is about, and no later claim has its token.                *)
(*                                                                         *)
(* The last part adds time: with punctual agents (Timely) TimelyInv says   *)
(* how much of the lease is left in each state of the heartbeat, and that  *)
(* every agent at work holds the lease of its step.                        *)
(***************************************************************************)
EXTENDS AgentFleet, FiniteSetTheorems, WellFoundedInduction, TLAPS

(* A step exists exactly when its run does.                                *)
StepsExistWithRun ==
    \A s \in Steps : stepStatus[s] = "ABSENT" <=> runStatus[RunOf[s]] = "ABSENT"

(* What a claimNext in progress knows: it captured `now` in the past, and  *)
(* no candidate of its snapshot has become blocked since.                  *)
CandidatesReady ==
    \A h \in Handlers :
        /\ calledAt[h] <= clock
        /\ phase[h] # "idle" => caller[h] \in Agents
        /\ \A s \in candidates[h] : ~Blocked(s)

IInv ==
    /\ TypeOK
    /\ StepsExistWithRun
    /\ CandidatesReady
    /\ SequentialExecution
    /\ RunMatchesSteps
    /\ ClaimMatchesStatus

-----------------------------------------------------------------------------
LEMMA InitType == Init => TypeOK
  BY ShapeAssumption, BoundAssumption DEF Init, TypeOK, RunStatuses, StepStatuses

LEMMA NextType == TypeOK /\ [Next]_vars => TypeOK'
<1> SUFFICES ASSUME TypeOK, [Next]_vars PROVE TypeOK'
  OBVIOUS
<1> USE ShapeAssumption, BoundAssumption
        DEF TypeOK, RunStatuses, StepStatuses, runVars, stepVars, claimVars
<1>1. CASE Tick
  BY <1>1 DEF Tick
<1>2. ASSUME NEW r \in Runs, CreateRun(r) PROVE TypeOK'
  BY <1>2 DEF CreateRun
<1>3. ASSUME NEW h \in Handlers, NEW a \in Agents, ReceiveClaim(h, a) PROVE TypeOK'
  BY <1>3 DEF ReceiveClaim
<1>4. ASSUME NEW h \in Handlers, RequeueExpiredJobs(h) PROVE TypeOK'
  BY <1>4 DEF RequeueExpiredJobs
<1>5. ASSUME NEW h \in Handlers, FindCandidates(h) PROVE TypeOK'
  BY <1>5 DEF FindCandidates, Windows, Pending
<1>6. ASSUME NEW h \in Handlers, NEW s \in Steps, ClaimCandidate(h, s) PROVE TypeOK'
  BY <1>6 DEF ClaimCandidate, Answer
<1>7. ASSUME NEW h \in Handlers, NEW s \in Steps, SkipCandidate(h, s) PROVE TypeOK'
  BY <1>7 DEF SkipCandidate
<1>8. ASSUME NEW h \in Handlers, NoJob(h) \/ DropClaim(h) PROVE TypeOK'
  <2>1. Answer(h) /\ UNCHANGED <<clock, runVars, stepVars>>
    BY <1>8 DEF NoJob, DropClaim
  <2> QED
    BY <2>1 DEF Answer
<1>9. ASSUME NEW a \in Agents, NEW s \in Steps, NEW held \in 1..attemptCount[s],
             NEW now \in RequestTimes(s), Report(a, s, held, now)
      PROVE TypeOK'
  <2>1. CASE Heartbeat(a, s, held, now)
    BY <2>1, <1>9 DEF Heartbeat, RequestTimes
  <2>2. CASE Succeed(a, s, held, now)
    BY <2>2 DEF Succeed, EndStep, EndRun
  <2>3. CASE Fail(a, s, held, now)
    BY <2>3 DEF Fail, EndStep, EndRun
  <2> QED
    BY <2>1, <2>2, <2>3, <1>9 DEF Report
<1>10. CASE UNCHANGED vars
  BY <1>10 DEF vars
<1> QED
  BY <1>1, <1>2, <1>3, <1>4, <1>5, <1>6, <1>7, <1>8, <1>9, <1>10 DEF Next, ClaimStep

(* Every variable of the queue keeps its type: every claimNext request,    *)
(* lease and attempt counter stays within its bounds.                      *)
THEOREM TypeCorrect == Spec => []TypeOK
  BY InitType, NextType, PTL DEF Spec

-----------------------------------------------------------------------------
LEMMA InitInv == Init => IInv
<1> SUFFICES ASSUME Init PROVE IInv
  OBVIOUS
<1>1. TypeOK
  BY InitType
<1>2. StepsExistWithRun /\ CandidatesReady /\ SequentialExecution
  BY ShapeAssumption, BoundAssumption
  DEF Init, StepsExistWithRun, CandidatesReady, SequentialExecution
<1>3. RunMatchesSteps
  BY ShapeAssumption DEF Init, RunMatchesSteps, StepsOf
<1>4. ClaimMatchesStatus
  BY DEF Init, ClaimMatchesStatus
<1> QED
  BY <1>1, <1>2, <1>3, <1>4 DEF IInv

(* Creating a run adds steps nobody has touched.                           *)
LEMMA CreateRunInv ==
    ASSUME IInv, NEW r \in Runs, CreateRun(r), TypeOK'
    PROVE  IInv'
<1> USE ShapeAssumption DEF TypeOK
<1>1. /\ runStatus[r] = "ABSENT"
      /\ runStatus' = [runStatus EXCEPT ![r] = "RUNNING"]
      /\ stepStatus' = [s \in Steps |-> IF RunOf[s] = r THEN "PENDING" ELSE stepStatus[s]]
      /\ UNCHANGED <<clock, claimedBy, claimToken, claimedAt, leaseExpiresAt, attemptCount>>
      /\ UNCHANGED <<phase, caller, calledAt, candidates>>
  BY DEF CreateRun, claimVars
<1>2. \A s \in Steps : RunOf[s] = r => stepStatus[s] = "ABSENT"
  BY <1>1 DEF IInv, StepsExistWithRun
<1>3. StepsExistWithRun'
  BY <1>1 DEF IInv, StepsExistWithRun
<1>4. CandidatesReady'
  BY <1>1, <1>2 DEF IInv, CandidatesReady, Blocked, Earlier
<1>5. SequentialExecution'
  BY <1>1, <1>2 DEF IInv, SequentialExecution, Earlier
<1>6. RunMatchesSteps'
  BY <1>1, <1>2 DEF IInv, RunMatchesSteps, StepsOf
<1>7. ClaimMatchesStatus'
  BY <1>1, <1>2 DEF IInv, ClaimMatchesStatus, Serves
<1> QED
  BY <1>3, <1>4, <1>5, <1>6, <1>7 DEF IInv

(* A step that goes back to PENDING has no successor that has started.     *)
LEMMA RequeueInv ==
    ASSUME IInv, NEW h \in Handlers, RequeueExpiredJobs(h), TypeOK'
    PROVE  IInv'
<1> USE ShapeAssumption DEF TypeOK
<1> DEFINE gone == {s \in Steps : Expired(s, calledAt[h])}
<1>1. /\ stepStatus' = [s \in Steps |-> IF s \in gone THEN "PENDING" ELSE stepStatus[s]]
      /\ claimedBy' = [s \in Steps |-> IF s \in gone THEN NoAgent ELSE claimedBy[s]]
      /\ claimToken' = [s \in Steps |-> IF s \in gone THEN 0 ELSE claimToken[s]]
      /\ claimedAt' = [s \in Steps |-> IF s \in gone THEN 0 ELSE claimedAt[s]]
      /\ leaseExpiresAt' = [s \in Steps |-> IF s \in gone THEN 0 ELSE leaseExpiresAt[s]]
      /\ phase' = [phase EXCEPT ![h] = "find"]
      /\ phase[h] = "requeue"
      /\ UNCHANGED <<clock, runStatus, attemptCount, caller, calledAt, candidates>>
  BY DEF RequeueExpiredJobs, runVars
<1>2. \A s \in gone : s \in Steps /\ stepStatus[s] = "RUNNING"
  BY DEF Expired
<1> HIDE DEF gone
<1>3. StepsExistWithRun'
  BY <1>1, <1>2 DEF IInv, StepsExistWithRun
<1>4. CandidatesReady'
  BY <1>1, <1>2 DEF IInv, CandidatesReady, Blocked, Earlier
<1>5. SequentialExecution'
  BY <1>1, <1>2 DEF IInv, SequentialExecution, Earlier
<1>6. RunMatchesSteps'
  BY <1>1, <1>2 DEF IInv, RunMatchesSteps, StepsOf
<1>7. ClaimMatchesStatus'
  BY <1>1, <1>2 DEF IInv, ClaimMatchesStatus, Serves
<1> QED
  BY <1>3, <1>4, <1>5, <1>6, <1>7 DEF IInv

(* The claimed step is a candidate, and candidates stay unblocked.         *)
LEMMA ClaimInv ==
    ASSUME IInv, NEW h \in Handlers, NEW s \in Steps, ClaimCandidate(h, s), TypeOK'
    PROVE  IInv'
<1> USE ShapeAssumption, BoundAssumption DEF TypeOK
<1>1. /\ phase[h] = "update"
      /\ s \in candidates[h]
      /\ stepStatus[s] = "PENDING"
      /\ runStatus[RunOf[s]] = "RUNNING"
      /\ Serves(caller[h], s)
      /\ stepStatus' = [stepStatus EXCEPT ![s] = "RUNNING"]
      /\ claimedBy' = [claimedBy EXCEPT ![s] = caller[h]]
      /\ claimToken' = [claimToken EXCEPT ![s] = attemptCount[s] + 1]
      /\ claimedAt' = [claimedAt EXCEPT ![s] = calledAt[h]]
      /\ leaseExpiresAt' = [leaseExpiresAt EXCEPT ![s] = calledAt[h] + LeaseTime]
      /\ attemptCount' = [attemptCount EXCEPT ![s] = attemptCount[s] + 1]
      /\ UNCHANGED <<clock, runStatus>>
  BY DEF ClaimCandidate, First, Claimable, runVars
<1>2. /\ phase' = [phase EXCEPT ![h] = "idle"]
      /\ caller' = [caller EXCEPT ![h] = NoAgent]
      /\ calledAt' = [calledAt EXCEPT ![h] = 0]
      /\ candidates' = [candidates EXCEPT ![h] = {}]
  BY DEF ClaimCandidate, Answer
<1>3. ~Blocked(s) /\ calledAt[h] <= clock /\ caller[h] \in Agents
  BY <1>1 DEF IInv, CandidatesReady
<1>4. StepsExistWithRun'
  BY <1>1 DEF IInv, StepsExistWithRun
<1>5. CandidatesReady'
  BY <1>1, <1>2 DEF IInv, CandidatesReady, Blocked, Earlier
<1>6. SequentialExecution'
  BY <1>1, <1>3 DEF IInv, SequentialExecution, Earlier, Blocked
<1>7. RunMatchesSteps'
  BY <1>1 DEF IInv, RunMatchesSteps, StepsOf
<1>8. ClaimMatchesStatus'
  BY <1>1, <1>3 DEF IInv, ClaimMatchesStatus, Serves
<1> QED
  BY <1>4, <1>5, <1>6, <1>7, <1>8 DEF IInv

(* What the holder of a claim can rely on.                                 *)
LEMMA HolderFacts ==
    ASSUME IInv, NEW a \in Agents, NEW s \in Steps, NEW held, NEW now,
           HoldsClaim(a, s, held, now)
    PROVE  /\ stepStatus[s] = "RUNNING"
           /\ runStatus[RunOf[s]] = "RUNNING"
           /\ \A t \in Steps : RunOf[t] = RunOf[s] /\ t # s =>
                 stepStatus[t] \in {"PENDING", "SUCCEEDED"}
<1> USE ShapeAssumption DEF TypeOK
<1>1. stepStatus[s] = "RUNNING"
  BY DEF HoldsClaim
<1>2. runStatus[RunOf[s]] = "RUNNING"
  BY <1>1 DEF IInv, RunMatchesSteps, StepsOf
<1>3. ASSUME NEW t \in Steps, RunOf[t] = RunOf[s], t # s
      PROVE  stepStatus[t] \in {"PENDING", "SUCCEEDED"}
  <2>1. stepStatus[t] \notin {"ABSENT", "FAILED"}
    BY <1>2, <1>3 DEF IInv, RunMatchesSteps, StepsOf, StepsExistWithRun
  <2>2. Earlier(t, s) \/ Earlier(s, t)
    BY <1>3 DEF Earlier
  <2>3. CASE Earlier(t, s)
    BY <1>1, <2>3 DEF IInv, SequentialExecution
  <2>4. CASE Earlier(s, t)
    BY <1>1, <2>1, <2>4 DEF IInv, SequentialExecution, StepStatuses
  <2> QED
    BY <2>2, <2>3, <2>4
<1> QED
  BY <1>1, <1>2, <1>3

LEMMA SucceedInv ==
    ASSUME IInv, NEW a \in Agents, NEW s \in Steps, NEW held, NEW now,
           Succeed(a, s, held, now), TypeOK'
    PROVE  IInv'
<1> USE ShapeAssumption DEF TypeOK
<1>1. /\ stepStatus' = [stepStatus EXCEPT ![s] = "SUCCEEDED"]
      /\ claimToken' = [claimToken EXCEPT ![s] = 0]
      /\ leaseExpiresAt' = [leaseExpiresAt EXCEPT ![s] = 0]
      /\ UNCHANGED <<clock, claimedBy, claimedAt, attemptCount>>
      /\ UNCHANGED <<phase, caller, calledAt, candidates>>
  BY DEF Succeed, EndStep, claimVars
<1>2. /\ stepStatus[s] = "RUNNING"
      /\ runStatus[RunOf[s]] = "RUNNING"
      /\ \A t \in Steps : RunOf[t] = RunOf[s] /\ t # s =>
            stepStatus[t] \in {"PENDING", "SUCCEEDED"}
  BY HolderFacts DEF Succeed
<1>3. runStatus' = [runStatus EXCEPT ![RunOf[s]] =
                      IF \A t \in StepsOf(RunOf[s]) : stepStatus'[t] = "SUCCEEDED"
                        THEN "SUCCEEDED" ELSE "RUNNING"]
  BY <1>2 DEF Succeed, EndRun
<1>4. StepsExistWithRun'
  BY <1>1, <1>2, <1>3 DEF IInv, StepsExistWithRun
<1>5. CandidatesReady'
  BY <1>1 DEF IInv, CandidatesReady, Blocked, Earlier
<1>6. SequentialExecution'
  BY <1>1, <1>2 DEF IInv, SequentialExecution, Earlier
<1>7. RunMatchesSteps'
  BY <1>1, <1>2, <1>3 DEF IInv, RunMatchesSteps, StepsOf
<1>8. ClaimMatchesStatus'
  BY <1>1, <1>2 DEF IInv, ClaimMatchesStatus, Serves
<1> QED
  BY <1>4, <1>5, <1>6, <1>7, <1>8 DEF IInv

LEMMA FailInv ==
    ASSUME IInv, NEW a \in Agents, NEW s \in Steps, NEW held, NEW now,
           Fail(a, s, held, now), TypeOK'
    PROVE  IInv'
<1> USE ShapeAssumption DEF TypeOK
<1>1. /\ stepStatus' = [stepStatus EXCEPT ![s] = "FAILED"]
      /\ claimToken' = [claimToken EXCEPT ![s] = 0]
      /\ leaseExpiresAt' = [leaseExpiresAt EXCEPT ![s] = 0]
      /\ UNCHANGED <<clock, claimedBy, claimedAt, attemptCount>>
      /\ UNCHANGED <<phase, caller, calledAt, candidates>>
  BY DEF Fail, EndStep, claimVars
<1>2. /\ stepStatus[s] = "RUNNING"
      /\ runStatus[RunOf[s]] = "RUNNING"
      /\ \A t \in Steps : RunOf[t] = RunOf[s] /\ t # s =>
            stepStatus[t] \in {"PENDING", "SUCCEEDED"}
  BY HolderFacts DEF Fail
<1>3. runStatus' = [runStatus EXCEPT ![RunOf[s]] = "FAILED"]
  BY <1>2 DEF Fail, EndRun
<1>4. StepsExistWithRun'
  BY <1>1, <1>2, <1>3 DEF IInv, StepsExistWithRun
<1>5. CandidatesReady'
  BY <1>1, <1>2 DEF IInv, CandidatesReady, Blocked, Earlier
<1>6. SequentialExecution'
  BY <1>1, <1>2 DEF IInv, SequentialExecution, Earlier
<1>7. RunMatchesSteps'
  BY <1>1, <1>2, <1>3 DEF IInv, RunMatchesSteps, StepsOf
<1>8. ClaimMatchesStatus'
  BY <1>1, <1>2 DEF IInv, ClaimMatchesStatus, Serves
<1> QED
  BY <1>4, <1>5, <1>6, <1>7, <1>8 DEF IInv

LEMMA HeartbeatInv ==
    ASSUME IInv, NEW a \in Agents, NEW s \in Steps, NEW held,
           NEW now \in RequestTimes(s), Heartbeat(a, s, held, now), TypeOK'
    PROVE  IInv'
<1> USE ShapeAssumption, BoundAssumption DEF TypeOK
<1>1. /\ leaseExpiresAt' = [leaseExpiresAt EXCEPT ![s] = now + LeaseTime]
      /\ stepStatus[s] = "RUNNING"
      /\ now \in 0..clock
      /\ UNCHANGED <<clock, runStatus, stepStatus, claimedBy, claimToken, claimedAt,
                     attemptCount>>
      /\ UNCHANGED <<phase, caller, calledAt, candidates>>
  BY DEF Heartbeat, HoldsClaim, RequestTimes, runVars, claimVars, IInv
<1>2. StepsExistWithRun' /\ CandidatesReady' /\ SequentialExecution' /\ RunMatchesSteps'
  BY <1>1 DEF IInv, StepsExistWithRun, CandidatesReady, Blocked,
              SequentialExecution, RunMatchesSteps
<1>3. ClaimMatchesStatus'
  BY <1>1 DEF IInv, ClaimMatchesStatus, Serves
<1> QED
  BY <1>2, <1>3 DEF IInv

(* Actions that touch neither runs nor steps only have to keep what is     *)
(* known of the requests in progress.                                      *)
LEMMA RequestInv ==
    ASSUME IInv, UNCHANGED <<runVars, stepVars>>, clock' \in Nat, clock <= clock',
           CandidatesReady', TypeOK'
    PROVE  IInv'
<1> USE ShapeAssumption, BoundAssumption DEF TypeOK, runVars, stepVars
<1>1. StepsExistWithRun' /\ SequentialExecution' /\ RunMatchesSteps'
  BY DEF IInv, StepsExistWithRun, SequentialExecution, RunMatchesSteps
<1>2. ClaimMatchesStatus'
  BY DEF IInv, ClaimMatchesStatus, Serves
<1> QED
  BY <1>1, <1>2 DEF IInv

LEMMA NextInv == IInv /\ [Next]_vars => IInv'
<1> SUFFICES ASSUME IInv, [Next]_vars PROVE IInv'
  OBVIOUS
<1> USE ShapeAssumption, BoundAssumption
<1>0. TypeOK /\ TypeOK' /\ CandidatesReady
  BY NextType DEF IInv
<1>1. CASE Tick
  <2>1. CandidatesReady'
    BY <1>0, <1>1 DEF Tick, CandidatesReady, Blocked, TypeOK, stepVars, claimVars
  <2> QED
    BY <1>0, <1>1, <2>1, RequestInv DEF Tick, TypeOK
<1>2. ASSUME NEW r \in Runs, CreateRun(r) PROVE IInv'
  BY <1>0, <1>2, CreateRunInv
<1>3. ASSUME NEW h \in Handlers, NEW a \in Agents, ReceiveClaim(h, a) PROVE IInv'
  <2>1. CandidatesReady'
    BY <1>0, <1>3 DEF ReceiveClaim, CandidatesReady, Blocked, TypeOK, stepVars
  <2> QED
    BY <1>0, <1>3, <2>1, RequestInv DEF ReceiveClaim, TypeOK
<1>4. ASSUME NEW h \in Handlers, RequeueExpiredJobs(h) PROVE IInv'
  BY <1>0, <1>4, RequeueInv
<1>5. ASSUME NEW h \in Handlers, FindCandidates(h) PROVE IInv'
  <2>1. CandidatesReady'
    BY <1>0, <1>5 DEF FindCandidates, CandidatesReady, Blocked, TypeOK, stepVars
  <2> QED
    BY <1>0, <1>5, <2>1, RequestInv DEF FindCandidates, TypeOK
<1>6. ASSUME NEW h \in Handlers, NEW s \in Steps, ClaimCandidate(h, s) PROVE IInv'
  BY <1>0, <1>6, ClaimInv
<1>7. ASSUME NEW h \in Handlers, NEW s \in Steps, SkipCandidate(h, s) PROVE IInv'
  <2>1. CandidatesReady'
    BY <1>0, <1>7 DEF SkipCandidate, CandidatesReady, Blocked, TypeOK, stepVars
  <2> QED
    BY <1>0, <1>7, <2>1, RequestInv DEF SkipCandidate, TypeOK
<1>8. ASSUME NEW h \in Handlers, NoJob(h) \/ DropClaim(h) PROVE IInv'
  <2>1. Answer(h) /\ UNCHANGED <<clock, runVars, stepVars>>
    BY <1>8 DEF NoJob, DropClaim
  <2>2. CandidatesReady'
    BY <1>0, <2>1 DEF Answer, CandidatesReady, Blocked, TypeOK, stepVars
  <2> QED
    BY <1>0, <2>1, <2>2, RequestInv DEF TypeOK
<1>9. ASSUME NEW a \in Agents, NEW s \in Steps, NEW held \in 1..attemptCount[s],
             NEW now \in RequestTimes(s), Report(a, s, held, now)
      PROVE IInv'
  BY <1>0, <1>9, HeartbeatInv, SucceedInv, FailInv DEF Report
<1>10. CASE UNCHANGED vars
  <2>1. CandidatesReady'
    BY <1>0, <1>10 DEF CandidatesReady, Blocked, vars, stepVars, claimVars
  <2> QED
    BY <1>0, <1>10, <2>1, RequestInv DEF vars, TypeOK
<1> QED
  BY <1>1, <1>2, <1>3, <1>4, <1>5, <1>6, <1>7, <1>8, <1>9, <1>10 DEF Next, ClaimStep

LEMMA Invariance == Spec => []IInv
  BY InitInv, NextInv, PTL DEF Spec

(* No step is started before every earlier step of its run has succeeded,  *)
(* however claims, requeues and reports interleave.                        *)
THEOREM StepsRunInSequence == Spec => []SequentialExecution
<1>1. IInv => SequentialExecution
  BY DEF IInv
<1> QED
  BY <1>1, Invariance, PTL

(* The status of a run always agrees with the statuses of its steps.       *)
THEOREM RunsMatchTheirSteps == Spec => []RunMatchesSteps
<1>1. IInv => RunMatchesSteps
  BY DEF IInv
<1> QED
  BY <1>1, Invariance, PTL

(* Exactly the RUNNING steps carry a claim, held by an agent of the run's  *)
(* own instance: no RUNNING step escapes the requeue.                      *)
THEOREM ClaimsMatchTheirSteps == Spec => []ClaimMatchesStatus
<1>1. IInv => ClaimMatchesStatus
  BY DEF IInv
<1> QED
  BY <1>1, Invariance, PTL

-----------------------------------------------------------------------------
(* A run that has not ended can go on: of its steps without success, the   *)
(* one with the least number waits for nothing.                            *)

(* The least of a set of numbers.                                          *)
LEMMA LeastNumber ==
    ASSUME NEW S \in SUBSET Nat, S # {}
    PROVE  \E n \in S : \A m \in S : n <= m
<1> DEFINE less == OpToRel(<, Nat)
<1>1. IsWellFoundedOn(less, Nat)
  BY NatLessThanWellFounded, Zenon
<1>2. \A m, n \in Nat : m < n => <<m, n>> \in less
  BY Zenon DEF OpToRel
<1> HIDE DEF less
<1>3. PICK n \in S : \A m \in S : <<m, n>> \notin less
  BY <1>1, WFMin
<1>4. \A m \in S : ~(m < n)
  BY <1>2, <1>3
<1> QED
  BY <1>4

(* The first step of a run that has not succeeded is not blocked.          *)
LEMMA FirstUnfinished ==
    ASSUME NEW r \in Runs, \E s \in StepsOf(r) : stepStatus[s] # "SUCCEEDED"
    PROVE  \E s \in StepsOf(r) : stepStatus[s] # "SUCCEEDED" /\ ~Blocked(s)
<1> DEFINE rest    == {s \in StepsOf(r) : stepStatus[s] # "SUCCEEDED"}
           numbers == {SequenceNumber[s] : s \in rest}
<1>1. PICK n \in numbers : \A m \in numbers : n <= m
  <2>1. numbers \in SUBSET Nat /\ numbers # {}
    BY ShapeAssumption DEF StepsOf
  <2> QED
    BY <2>1, LeastNumber
<1>2. PICK s \in rest : n = SequenceNumber[s]
  OBVIOUS
<1>3. ASSUME Blocked(s) PROVE FALSE
  <2>1. PICK t \in Steps : Earlier(t, s) /\ stepStatus[t] # "SUCCEEDED"
    BY <1>3 DEF Blocked
  <2>2. t \in rest /\ SequenceNumber[t] < n
    BY <1>2, <2>1 DEF Earlier, StepsOf
  <2>3. SequenceNumber[t] \in Nat /\ n \in Nat
    BY <1>2, <2>1, ShapeAssumption DEF StepsOf
  <2> QED
    BY <1>1, <2>2, <2>3
<1> QED
  BY <1>2, <1>3

(* That step is PENDING and free to claim, or RUNNING under a lease.       *)
LEMMA RunProceeds ==
    ASSUME IInv, NEW r \in Runs, runStatus[r] = "RUNNING"
    PROVE  \E s \in StepsOf(r) :
              /\ ~Blocked(s)
              /\ \/ stepStatus[s] = "PENDING" /\ claimToken[s] = 0
                 \/ Expired(s, leaseExpiresAt[s])
<1> USE ShapeAssumption DEF IInv, TypeOK
<1>1. \E s \in StepsOf(r) : stepStatus[s] # "SUCCEEDED"
  BY DEF RunMatchesSteps
<1>2. PICK s \in StepsOf(r) : stepStatus[s] # "SUCCEEDED" /\ ~Blocked(s)
  BY <1>1, FirstUnfinished
<1>3. s \in Steps /\ RunOf[s] = r
  BY <1>2 DEF StepsOf
<1>4. stepStatus[s] \in {"PENDING", "RUNNING"}
  <2>1. stepStatus[s] # "FAILED"
    BY <1>2 DEF RunMatchesSteps
  <2>2. stepStatus[s] # "ABSENT"
    BY <1>3 DEF StepsExistWithRun
  <2> QED
    BY <1>2, <1>3, <2>1, <2>2 DEF StepStatuses
<1>5. CASE stepStatus[s] = "PENDING"
  BY <1>2, <1>3, <1>5 DEF ClaimMatchesStatus
<1>6. CASE stepStatus[s] = "RUNNING"
  <2>1. /\ claimedBy[s] \in Agents /\ claimToken[s] # 0 /\ leaseExpiresAt[s] # 0
        /\ leaseExpiresAt[s] \in 0..(MaxClock + LeaseTime)
    BY <1>3, <1>6 DEF ClaimMatchesStatus
  <2>2. leaseExpiresAt[s] <= leaseExpiresAt[s]
    BY <2>1, BoundAssumption
  <2> QED
    BY <1>2, <1>6, <2>1, <2>2 DEF Expired
<1> QED
  BY <1>4, <1>5, <1>6

(* However requests interleave, are dropped or arrive late: a run that has *)
(* not ended has a step that can be claimed, or that the requeue can take  *)
(* back when its lease is over.  No run is stuck.                          *)
THEOREM RunsNeverStick == Spec => []RunsCanProceed
<1>1. IInv => RunsCanProceed
  BY RunProceeds DEF RunsCanProceed
<1> QED
  BY <1>1, Invariance, PTL

-----------------------------------------------------------------------------
(* Action properties: every step from a state of IInv satisfies them.      *)

LEMMA StepKeepsLiveClaims == IInv /\ [Next]_vars => [LiveClaimIsKept]_vars
<1> SUFFICES ASSUME IInv, [Next]_vars, NEW s \in Steps,
                    claimToken[s] # 0, claimToken'[s] # claimToken[s]
             PROVE  /\ claimToken'[s] = 0
                    /\ \/ stepStatus'[s] \in {"SUCCEEDED", "FAILED"}
                       \/ leaseExpiresAt[s] <= clock
  BY DEF LiveClaimIsKept
<1> USE ShapeAssumption, BoundAssumption DEF TypeOK, IInv
<1>1. stepStatus[s] = "RUNNING"
  BY DEF ClaimMatchesStatus
<1>2. ~ UNCHANGED claimToken
  OBVIOUS
<1>3. ASSUME NEW h \in Handlers, RequeueExpiredJobs(h)
      PROVE  claimToken'[s] = 0 /\ leaseExpiresAt[s] <= clock
  <2>1. calledAt[h] <= clock /\ calledAt[h] \in Nat
    BY DEF CandidatesReady
  <2>2. Expired(s, calledAt[h]) /\ claimToken'[s] = 0
    BY <1>3 DEF RequeueExpiredJobs
  <2> QED
    BY <2>1, <2>2 DEF Expired
<1>4. ASSUME NEW h \in Handlers, NEW t \in Steps, ClaimCandidate(h, t) PROVE FALSE
  BY <1>1, <1>4 DEF ClaimCandidate, Claimable
<1>5. ASSUME NEW a \in Agents, NEW t \in Steps, NEW held, NEW now,
             Report(a, t, held, now)
      PROVE  claimToken'[s] = 0 /\ stepStatus'[s] \in {"SUCCEEDED", "FAILED"}
  <2>1. PICK outcome \in {"SUCCEEDED", "FAILED"} : EndStep(t, outcome)
    BY <1>2, <1>5 DEF Report, Heartbeat, Succeed, Fail
  <2>2. s = t
    BY <2>1 DEF EndStep
  <2> QED
    BY <2>1, <2>2 DEF EndStep
<1> QED
  BY <1>2, <1>3, <1>4, <1>5
  DEF Next, ClaimStep, Tick, CreateRun, ReceiveClaim, FindCandidates, SkipCandidate,
      NoJob, DropClaim, vars, stepVars

(* A claim is never overwritten, and only finishing the step or the end of *)
(* its lease ever takes it from its holder.                                *)
THEOREM ClaimsAreKept == Spec => LiveClaimsAreKept
<1>1. IInv /\ [Next]_vars => [LiveClaimIsKept]_vars
  BY StepKeepsLiveClaims
<1> QED
  BY <1>1, Invariance, PTL DEF Spec, LiveClaimsAreKept

(* In a finished run nothing is claimed: no step is RUNNING, and what is   *)
(* still PENDING stays so.                                                 *)
LEMMA StepKeepsOutcomes == IInv /\ [Next]_vars => [OutcomeIsFinal]_vars
<1> SUFFICES ASSUME IInv, Next PROVE OutcomeIsFinal
  OBVIOUS
<1> USE ShapeAssumption, BoundAssumption DEF TypeOK, IInv
<1>1. CASE UNCHANGED <<runVars, stepVars>>
  BY <1>1 DEF OutcomeIsFinal, runVars, stepVars, StepsOf
<1>2. ASSUME NEW r \in Runs, CreateRun(r) PROVE OutcomeIsFinal
  <2>1. \A s \in Steps : RunOf[s] = r => stepStatus[s] = "ABSENT"
    BY <1>2 DEF CreateRun, StepsExistWithRun
  <2> QED
    BY <1>2, <2>1 DEF CreateRun, OutcomeIsFinal, StepsOf
<1>3. ASSUME NEW h \in Handlers, RequeueExpiredJobs(h) PROVE OutcomeIsFinal
  <2>1. \A s \in Steps : Expired(s, calledAt[h]) =>
           stepStatus[s] = "RUNNING" /\ runStatus[RunOf[s]] = "RUNNING"
    BY DEF Expired, RunMatchesSteps, StepsOf
  <2> QED
    BY <1>3, <2>1 DEF RequeueExpiredJobs, OutcomeIsFinal, runVars, StepsOf
<1>4. ASSUME NEW h \in Handlers, NEW s \in Steps, ClaimCandidate(h, s)
      PROVE  OutcomeIsFinal
  <2>1. /\ stepStatus[s] = "PENDING"
        /\ runStatus[RunOf[s]] = "RUNNING"
        /\ stepStatus' = [stepStatus EXCEPT ![s] = "RUNNING"]
        /\ claimToken' = [claimToken EXCEPT ![s] = attemptCount[s] + 1]
        /\ UNCHANGED runStatus
    BY <1>4 DEF ClaimCandidate, Claimable, runVars
  <2> QED
    BY <2>1 DEF OutcomeIsFinal, StepsOf
<1>5. ASSUME NEW a \in Agents, NEW s \in Steps, NEW held, NEW now,
             Report(a, s, held, now)
      PROVE  OutcomeIsFinal
  <2>1. CASE Heartbeat(a, s, held, now)
    BY <2>1 DEF Heartbeat, OutcomeIsFinal, StepsOf, runVars
  <2>2. CASE Succeed(a, s, held, now) \/ Fail(a, s, held, now)
    <3>1. HoldsClaim(a, s, held, now)
      BY <2>2 DEF Succeed, Fail
    <3>2. stepStatus[s] = "RUNNING" /\ runStatus[RunOf[s]] = "RUNNING"
      BY <3>1, HolderFacts
    <3>3. PICK outcome \in {"SUCCEEDED", "FAILED"} :
             /\ EndStep(s, outcome)
             /\ EndRun(RunOf[s], outcome) \/ UNCHANGED runStatus
      BY <2>2 DEF Succeed, Fail
    <3>4. /\ stepStatus' = [stepStatus EXCEPT ![s] = outcome]
          /\ claimToken' = [claimToken EXCEPT ![s] = 0]
          /\ \A r \in Runs : r # RunOf[s] => runStatus'[r] = runStatus[r]
      BY <3>3 DEF EndStep, EndRun
    <3> QED
      BY <3>2, <3>4 DEF OutcomeIsFinal, StepsOf
  <2> QED
    BY <1>5, <2>1, <2>2 DEF Report
<1> QED
  BY <1>1, <1>2, <1>3, <1>4, <1>5
  DEF Next, ClaimStep, Tick, ReceiveClaim, FindCandidates, SkipCandidate, NoJob, DropClaim

(* Finished steps and finished runs never change again.                    *)
THEOREM OutcomesStay == Spec => OutcomesAreFinal
<1>1. IInv /\ [Next]_vars => [OutcomeIsFinal]_vars
  BY StepKeepsOutcomes
<1> QED
  BY <1>1, Invariance, PTL DEF Spec, OutcomesAreFinal

-----------------------------------------------------------------------------
(* The queue implements SequentialRuns.  The holder of a run is the agent  *)
(* of its RUNNING step, of which there is at most one (HoldersKnown): that *)
(* is what makes the mapping a function, and it follows from IInv.         *)
Succeeded(r) == {s \in StepsOf(r) : stepStatus[s] = "SUCCEEDED"}

(* The mapped holder and progress, without choice.                         *)
HoldersKnown ==
    \A r \in Runs :
        /\ \A s \in StepsOf(r) : stepStatus[s] = "RUNNING" =>
              Holder[r] = claimedBy[s] /\ claimedBy[s] \in Agents
        /\ (\A s \in StepsOf(r) : stepStatus[s] # "RUNNING") => Holder[r] = NoAgent

(* At most one step of a run is at work.                                   *)
LEMMA OneAtWork ==
    ASSUME IInv, NEW s \in Steps, NEW t \in Steps, RunOf[s] = RunOf[t],
           stepStatus[s] = "RUNNING", stepStatus[t] = "RUNNING"
    PROVE  s = t
<1> SUFFICES ASSUME s # t PROVE FALSE
  OBVIOUS
<1>1. Earlier(t, s) \/ Earlier(s, t)
  BY ShapeAssumption DEF Earlier
<1> QED
  BY <1>1 DEF IInv, SequentialExecution

LEMMA KnownHolders == IInv => HoldersKnown
<1> SUFFICES ASSUME IInv, NEW r \in Runs
             PROVE  /\ \A s \in StepsOf(r) : stepStatus[s] = "RUNNING" =>
                          Holder[r] = claimedBy[s] /\ claimedBy[s] \in Agents
                    /\ (\A s \in StepsOf(r) : stepStatus[s] # "RUNNING") => Holder[r] = NoAgent
  BY DEF HoldersKnown
<1>1. ASSUME NEW s \in StepsOf(r), stepStatus[s] = "RUNNING"
      PROVE  Holder[r] = claimedBy[s] /\ claimedBy[s] \in Agents
  <2> DEFINE working == CHOOSE t \in StepsOf(r) : stepStatus[t] = "RUNNING"
  <2>1. working \in StepsOf(r) /\ stepStatus[working] = "RUNNING"
    BY <1>1
  <2>2. working = s
    BY <1>1, <2>1, OneAtWork DEF StepsOf
  <2>3. Holder[r] = claimedBy[working]
    BY <1>1 DEF Holder
  <2>4. claimedBy[s] \in Agents
    BY <1>1 DEF IInv, ClaimMatchesStatus, StepsOf
  <2> QED
    BY <2>2, <2>3, <2>4
<1>2. ASSUME \A s \in StepsOf(r) : stepStatus[s] # "RUNNING" PROVE Holder[r] = NoAgent
  BY <1>2 DEF Holder
<1> QED
  BY <1>1, <1>2

LEMMA StepSets ==
    ASSUME NEW r \in Runs
    PROVE  /\ IsFiniteSet(StepsOf(r)) /\ IsFiniteSet(Succeeded(r))
           /\ Cardinality(StepsOf(r)) \in Nat /\ Cardinality(Succeeded(r)) \in Nat
           /\ Cardinality(Succeeded(r)) <= Cardinality(StepsOf(r))
           /\ Cardinality(Succeeded(r)) = Cardinality(StepsOf(r)) => Succeeded(r) = StepsOf(r)
<1>1. IsFiniteSet(StepsOf(r))
  BY LengthAssumption DEF StepsOf
<1>2. Succeeded(r) \in SUBSET StepsOf(r)
  BY DEF Succeeded
<1> QED
  BY <1>1, <1>2, FS_Subset, FS_CardinalityType

LEMMA ProgressIs == Progress = [r \in Runs |-> Cardinality(Succeeded(r))]
BY DEF Progress, Succeeded

-------------------------------------------------------------------------------
LEMMA InitMapped == Init => Abstract!Init
<1> SUFFICES ASSUME Init PROVE Abstract!Init
  OBVIOUS
<1>1. \A r \in Runs : Succeeded(r) = {}
  BY DEF Init, Succeeded, StepsOf
<1>2. Progress = [r \in Runs |-> 0]
  BY <1>1, ProgressIs, FS_EmptySet
<1>3. Holder = [r \in Runs |-> NoAgent]
  BY DEF Init, Holder, StepsOf
<1> QED
  BY <1>2, <1>3 DEF Init, Abstract!Init

(* What leaves runs, statuses and holders alone is not seen.               *)
LEMMA Stutter ==
    ASSUME UNCHANGED <<runStatus, stepStatus, claimedBy>>
    PROVE  UNCHANGED Abstract!vars
<1>1. Progress' = Progress
  BY DEF Progress
<1>2. Holder' = Holder
  BY DEF Holder
<1> QED
  BY <1>1, <1>2 DEF Abstract!vars

LEMMA CreateMapped ==
    ASSUME IInv, HoldersKnown, HoldersKnown', NEW r \in Runs, CreateRun(r)
    PROVE  Abstract!Create(r)
<1>1. /\ runStatus[r] = "ABSENT"
      /\ stepStatus' = [s \in Steps |-> IF RunOf[s] = r THEN "PENDING" ELSE stepStatus[s]]
      /\ claimedBy' = claimedBy
  BY DEF CreateRun
<1>2. \A s \in Steps : RunOf[s] = r => stepStatus[s] = "ABSENT"
  BY <1>1 DEF IInv, StepsExistWithRun
<1>3. \A q \in Runs : Succeeded(q)' = Succeeded(q)
  BY <1>1, <1>2 DEF Succeeded, StepsOf
<1>4. Progress' = Progress
  BY <1>3, ProgressIs DEF Progress, Succeeded
<1>5. ASSUME NEW q \in Runs PROVE Holder'[q] = Holder[q]
  <2>1. \A s \in StepsOf(q) : stepStatus'[s] = "RUNNING" <=> stepStatus[s] = "RUNNING"
    BY <1>1, <1>2 DEF StepsOf
  <2>2. CASE \E s \in StepsOf(q) : stepStatus[s] = "RUNNING"
    BY <1>1, <2>1, <2>2 DEF HoldersKnown, StepsOf
  <2>3. CASE \A s \in StepsOf(q) : stepStatus[s] # "RUNNING"
    BY <2>1, <2>3 DEF HoldersKnown, StepsOf
  <2> QED
    BY <2>2, <2>3
<1>6. Holder' = Holder
  BY <1>5 DEF Holder
<1> QED
  BY <1>4, <1>6 DEF CreateRun, Abstract!Create

LEMMA RequeueMapped ==
    ASSUME IInv, HoldersKnown, HoldersKnown', NEW h \in Handlers, RequeueExpiredJobs(h)
    PROVE  \E R \in SUBSET Runs : Abstract!Lose(R)
<1> DEFINE gone == {s \in Steps : Expired(s, calledAt[h])}
           R == {RunOf[s] : s \in gone}
<1>1. /\ stepStatus' = [s \in Steps |-> IF s \in gone THEN "PENDING" ELSE stepStatus[s]]
      /\ claimedBy' = [s \in Steps |-> IF s \in gone THEN NoAgent ELSE claimedBy[s]]
      /\ runStatus' = runStatus
  BY DEF RequeueExpiredJobs, runVars
<1>2. \A s \in gone : s \in Steps /\ stepStatus[s] = "RUNNING"
  BY DEF Expired
<1> HIDE DEF gone
<1>3. R \in SUBSET Runs
  BY <1>2, ShapeAssumption
<1>4. ASSUME NEW r \in R PROVE Holder[r] # NoAgent
  <2>1. PICK s \in gone : r = RunOf[s]
    OBVIOUS
  <2>2. s \in StepsOf(r) /\ r \in Runs
    BY <1>2, <2>1, ShapeAssumption DEF StepsOf
  <2> QED
    BY <1>2, <2>2, ShapeAssumption DEF HoldersKnown
<1>5. ASSUME NEW r \in Runs PROVE Holder'[r] = IF r \in R THEN NoAgent ELSE Holder[r]
  <2>1. CASE r \in R
    <3>1. PICK s \in gone : r = RunOf[s]
      BY <2>1
    <3>2. \A t \in StepsOf(r) : stepStatus[t] = "RUNNING" => t = s
      BY <1>2, <3>1, OneAtWork DEF StepsOf
    <3>3. \A t \in StepsOf(r) : stepStatus'[t] # "RUNNING"
      BY <1>1, <3>1, <3>2 DEF StepsOf
    <3>4. StepsOf(r)' = StepsOf(r)
      BY DEF StepsOf
    <3> QED
      BY <2>1, <3>3, <3>4 DEF HoldersKnown
  <2>2. CASE r \notin R
    <3>1. \A s \in StepsOf(r) : s \in Steps /\ s \notin gone
      BY <2>2 DEF StepsOf
    <3>2. \A s \in StepsOf(r) : stepStatus'[s] = stepStatus[s] /\ claimedBy'[s] = claimedBy[s]
      BY <1>1, <3>1
    <3>3. StepsOf(r)' = StepsOf(r)
      BY DEF StepsOf
    <3>4. CASE \E s \in StepsOf(r) : stepStatus[s] = "RUNNING"
      BY <2>2, <3>2, <3>3, <3>4 DEF HoldersKnown
    <3>5. CASE \A s \in StepsOf(r) : stepStatus[s] # "RUNNING"
      BY <2>2, <3>2, <3>3, <3>5 DEF HoldersKnown
    <3> QED
      BY <3>4, <3>5
  <2> QED
    BY <2>1, <2>2
<1>6. \A r \in Runs : Succeeded(r)' = Succeeded(r)
  BY <1>1, <1>2 DEF Succeeded, StepsOf
<1>7. Progress' = Progress
  BY <1>6 DEF Progress, Succeeded
<1>8. Holder' = [r \in Runs |-> IF r \in R THEN NoAgent ELSE Holder[r]]
  BY <1>5 DEF Holder
<1> HIDE DEF R
<1>9. Abstract!Lose(R)
  BY <1>1, <1>4, <1>7, <1>8 DEF Abstract!Lose
<1> QED
  BY <1>3, <1>9

LEMMA ClaimMapped ==
    ASSUME IInv, HoldersKnown, HoldersKnown', NEW h \in Handlers, NEW s \in Steps,
           ClaimCandidate(h, s)
    PROVE  Abstract!Take(RunOf[s])
<1> DEFINE r == RunOf[s]
           a == caller[h]
<1> USE ShapeAssumption
<1>1. /\ stepStatus' = [stepStatus EXCEPT ![s] = "RUNNING"]
      /\ claimedBy' = [claimedBy EXCEPT ![s] = a]
      /\ runStatus' = runStatus
      /\ stepStatus[s] = "PENDING" /\ runStatus[r] = "RUNNING" /\ Serves(a, s)
  BY DEF ClaimCandidate, Claimable, runVars
<1>2. a \in Agents /\ ~Blocked(s)
  BY DEF ClaimCandidate, First, IInv, CandidatesReady
<1>3. \A t \in StepsOf(r) : stepStatus[t] # "RUNNING"
  <2> SUFFICES ASSUME NEW t \in StepsOf(r), stepStatus[t] = "RUNNING" PROVE FALSE
    OBVIOUS
  <2>1. Earlier(t, s) \/ Earlier(s, t)
    BY <1>1 DEF StepsOf, Earlier
  <2> QED
    BY <1>1, <1>2, <2>1 DEF IInv, SequentialExecution, Blocked, StepsOf
<1>4. Holder[r] = NoAgent
  BY <1>3 DEF HoldersKnown
<1>5. ASSUME NEW q \in Runs PROVE Holder'[q] = IF q = r THEN a ELSE Holder[q]
  <2>1. StepsOf(q)' = StepsOf(q)
    BY DEF StepsOf
  <2>2. CASE q = r
    <3>1. s \in StepsOf(q) /\ stepStatus'[s] = "RUNNING" /\ claimedBy'[s] = a
      BY <1>1, <2>2 DEF StepsOf, IInv, TypeOK
    <3> QED
      BY <2>1, <2>2, <3>1 DEF HoldersKnown
  <2>3. CASE q # r
    <3>1. \A t \in StepsOf(q) : stepStatus'[t] = stepStatus[t] /\ claimedBy'[t] = claimedBy[t]
      BY <1>1, <2>3 DEF StepsOf, IInv, TypeOK
    <3> QED
      BY <2>1, <2>3, <3>1 DEF HoldersKnown
  <2> QED
    BY <2>2, <2>3
<1>6. Holder' = [Holder EXCEPT ![r] = a]
  BY <1>5 DEF Holder
<1>7. \A q \in Runs : Succeeded(q)' = Succeeded(q)
  BY <1>1 DEF Succeeded, StepsOf, IInv, TypeOK
<1>8. Progress' = Progress
  BY <1>7 DEF Progress, Succeeded
<1>9. r \in Runs /\ a \in {b \in Agents : AgentInstance[b] = RunInstance[r]}
  BY <1>1, <1>2 DEF Serves
<1> QED
  BY <1>1, <1>4, <1>6, <1>8, <1>9 DEF Abstract!Take

(* A claim that ends leaves its run without a holder.                      *)
LEMMA EndOfClaim ==
    ASSUME IInv, HoldersKnown, HoldersKnown', NEW a \in Agents, NEW s \in Steps,
           NEW held, NEW now, HoldsClaim(a, s, held, now),
           NEW outcome \in {"SUCCEEDED", "FAILED"}, EndStep(s, outcome)
    PROVE  /\ RunOf[s] \in Runs /\ Holder[RunOf[s]] # NoAgent
           /\ Holder' = [Holder EXCEPT ![RunOf[s]] = NoAgent]
<1> DEFINE r == RunOf[s]
<1> USE ShapeAssumption
<1>1. /\ stepStatus' = [stepStatus EXCEPT ![s] = outcome]
      /\ claimedBy' = claimedBy
  BY DEF EndStep
<1>2. /\ stepStatus[s] = "RUNNING"
      /\ \A t \in Steps : RunOf[t] = r /\ t # s => stepStatus[t] # "RUNNING"
  BY HolderFacts
<1>3. r \in Runs /\ s \in StepsOf(r)
  BY DEF StepsOf
<1>4. Holder[r] # NoAgent
  BY <1>2, <1>3 DEF HoldersKnown
<1>5. ASSUME NEW q \in Runs PROVE Holder'[q] = IF q = r THEN NoAgent ELSE Holder[q]
  <2>1. StepsOf(q)' = StepsOf(q)
    BY DEF StepsOf
  <2>2. CASE q = r
    <3>1. \A t \in StepsOf(q) : stepStatus'[t] # "RUNNING"
      BY <1>1, <1>2, <2>2 DEF StepsOf, IInv, TypeOK
    <3> QED
      BY <2>1, <2>2, <3>1 DEF HoldersKnown
  <2>3. CASE q # r
    <3>1. \A t \in StepsOf(q) : stepStatus'[t] = stepStatus[t] /\ claimedBy'[t] = claimedBy[t]
      BY <1>1, <2>3 DEF StepsOf, IInv, TypeOK
    <3> QED
      BY <2>1, <2>3, <3>1 DEF HoldersKnown
  <2> QED
    BY <2>2, <2>3
<1>6. Holder' = [Holder EXCEPT ![r] = NoAgent]
  BY <1>5 DEF Holder
<1> QED
  BY <1>3, <1>4, <1>6

LEMMA FailMapped ==
    ASSUME IInv, HoldersKnown, HoldersKnown', NEW a \in Agents, NEW s \in Steps,
           NEW held, NEW now, Fail(a, s, held, now)
    PROVE  Abstract!Break(RunOf[s])
<1>1. /\ stepStatus' = [stepStatus EXCEPT ![s] = "FAILED"]
      /\ stepStatus[s] = "RUNNING" /\ runStatus[RunOf[s]] = "RUNNING"
  BY HolderFacts DEF Fail, EndStep
<1>2. runStatus' = [runStatus EXCEPT ![RunOf[s]] = "FAILED"]
  BY <1>1 DEF Fail, EndRun
<1>3. RunOf[s] \in Runs /\ Holder[RunOf[s]] # NoAgent
      /\ Holder' = [Holder EXCEPT ![RunOf[s]] = NoAgent]
  BY EndOfClaim DEF Fail
<1>4. \A q \in Runs : Succeeded(q)' = Succeeded(q)
  BY <1>1 DEF Succeeded, StepsOf, IInv, TypeOK
<1>5. Progress' = Progress
  BY <1>4 DEF Progress, Succeeded
<1> QED
  BY <1>2, <1>3, <1>5 DEF Abstract!Break

LEMMA SucceedMapped ==
    ASSUME IInv, HoldersKnown, HoldersKnown', NEW a \in Agents, NEW s \in Steps,
           NEW held, NEW now, Succeed(a, s, held, now)
    PROVE  Abstract!Finish(RunOf[s])
<1> DEFINE r == RunOf[s]
           all == \A t \in StepsOf(r) : stepStatus'[t] = "SUCCEEDED"
<1> USE ShapeAssumption
<1>1. /\ stepStatus' = [stepStatus EXCEPT ![s] = "SUCCEEDED"]
      /\ stepStatus[s] = "RUNNING" /\ runStatus[r] = "RUNNING"
  BY HolderFacts DEF Succeed, EndStep
<1>2. r \in Runs /\ Holder[r] # NoAgent /\ Holder' = [Holder EXCEPT ![r] = NoAgent]
  BY EndOfClaim DEF Succeed
<1>3. /\ Succeeded(r)' = Succeeded(r) \cup {s} /\ s \notin Succeeded(r)
      /\ \A q \in Runs \ {r} : Succeeded(q)' = Succeeded(q)
  BY <1>1 DEF Succeeded, StepsOf, IInv, TypeOK
<1>4. Cardinality(Succeeded(r) \cup {s}) = Cardinality(Succeeded(r)) + 1
  BY <1>2, <1>3, StepSets, FS_AddElement
<1>5. Progress' = [Progress EXCEPT ![r] = @ + 1]
  <2>1. Progress' = [q \in Runs |-> Cardinality(Succeeded(q)')]
    BY DEF Progress, Succeeded
  <2>2. ASSUME NEW q \in Runs
        PROVE  Cardinality(Succeeded(q)') =
                 IF q = r THEN Cardinality(Succeeded(q)) + 1 ELSE Cardinality(Succeeded(q))
    BY <1>3, <1>4
  <2> QED
    BY <1>2, <2>1, <2>2, ProgressIs
<1>6. all <=> Succeeded(r) \cup {s} = StepsOf(r)
  BY <1>1 DEF Succeeded, StepsOf, IInv, TypeOK
<1>7. all <=> Progress[r] + 1 = Cardinality(StepsOf(r))
  <2>1. Progress[r] = Cardinality(Succeeded(r))
    BY <1>2, ProgressIs
  <2>2. Succeeded(r) \cup {s} \in SUBSET StepsOf(r)
    BY DEF Succeeded, StepsOf
  <2>3. Cardinality(StepsOf(r)) = Cardinality(Succeeded(r) \cup {s})
          => StepsOf(r) = Succeeded(r) \cup {s}
    BY <1>2, <2>2, StepSets, FS_Subset
  <2> QED
    BY <1>4, <1>6, <2>1, <2>3
<1>8. runStatus' = [runStatus EXCEPT ![r] = IF all THEN "SUCCEEDED" ELSE @]
  BY <1>1, <1>2 DEF Succeed, EndRun, IInv, TypeOK
<1>9. runStatus' = [runStatus EXCEPT
         ![r] = IF Progress[r] + 1 = [q \in Runs |-> Cardinality(StepsOf(q))][r]
                  THEN "SUCCEEDED" ELSE @]
  BY <1>2, <1>7, <1>8
<1> QED
  BY <1>2, <1>5, <1>9 DEF Abstract!Finish

-------------------------------------------------------------------------------
LEMMA NextMapped ==
    IInv /\ HoldersKnown /\ HoldersKnown' /\ [Next]_vars => [Abstract!Next]_(Abstract!vars)
<1> SUFFICES ASSUME IInv, HoldersKnown, HoldersKnown', [Next]_vars
             PROVE  Abstract!Next \/ UNCHANGED Abstract!vars
  OBVIOUS
<1>1. ASSUME NEW r \in Runs, CreateRun(r) PROVE Abstract!Next
  BY <1>1, CreateMapped DEF Abstract!Next
<1>2. ASSUME NEW h \in Handlers, RequeueExpiredJobs(h) PROVE Abstract!Next
  BY <1>2, RequeueMapped DEF Abstract!Next
<1>3. ASSUME NEW h \in Handlers, NEW s \in Steps, ClaimCandidate(h, s) PROVE Abstract!Next
  BY <1>3, ClaimMapped, ShapeAssumption DEF Abstract!Next
<1>4. ASSUME NEW a \in Agents, NEW s \in Steps, NEW held, NEW now,
             Succeed(a, s, held, now)
      PROVE  Abstract!Next
  BY <1>4, SucceedMapped, ShapeAssumption DEF Abstract!Next
<1>5. ASSUME NEW a \in Agents, NEW s \in Steps, NEW held, NEW now, Fail(a, s, held, now)
      PROVE  Abstract!Next
  BY <1>5, FailMapped, ShapeAssumption DEF Abstract!Next
<1>6. ASSUME NEW a \in Agents, NEW s \in Steps, NEW held, NEW now,
             Heartbeat(a, s, held, now)
      PROVE  UNCHANGED Abstract!vars
  BY <1>6, Stutter DEF Heartbeat, runVars
<1>7. CASE Tick \/ UNCHANGED vars
  BY <1>7, Stutter DEF Tick, vars, runVars, stepVars
<1>8. ASSUME NEW h \in Handlers, NEW a \in Agents, ReceiveClaim(h, a)
      PROVE  UNCHANGED Abstract!vars
  BY <1>8, Stutter DEF ReceiveClaim, runVars, stepVars
<1>9. ASSUME NEW h \in Handlers, FindCandidates(h) \/ NoJob(h) \/ DropClaim(h)
      PROVE  UNCHANGED Abstract!vars
  BY <1>9, Stutter DEF FindCandidates, NoJob, DropClaim, runVars, stepVars
<1>10. ASSUME NEW h \in Handlers, NEW s \in Steps, SkipCandidate(h, s)
       PROVE  UNCHANGED Abstract!vars
  BY <1>10, Stutter DEF SkipCandidate, runVars, stepVars
<1> QED
  BY <1>1, <1>2, <1>3, <1>4, <1>5, <1>6, <1>7, <1>8, <1>9, <1>10
  DEF Next, ClaimStep, Report

(* The queue implements the abstract runs: whatever requests overlap, are  *)
(* late or are repeated, a run is worked on by one agent of its instance   *)
(* at a time, advances by one step, and ends as soon as a step fails or    *)
(* the last one succeeds.                                                  *)
THEOREM QueueImplementsRuns == Spec => ImplementsSequentialRuns
<1>1. Spec => []IInv
  BY Invariance
<1>2. Spec => []HoldersKnown
  BY <1>1, KnownHolders, PTL
<1>3. Spec => [][Abstract!Next]_(Abstract!vars)
  BY <1>1, <1>2, NextMapped, PTL DEF Spec
<1> QED
  BY <1>3, InitMapped, PTL DEF Spec, Abstract!Spec, ImplementsSequentialRuns

-------------------------------------------------------------------------------
(* The agents.                                                             *)

(* A request about claim n of step s was sent at t.                        *)
Past(s, n, t) ==
    /\ s \in Steps /\ n \in 1..attemptCount[s]
    /\ t \in 0..clock
    /\ claimToken[s] = n => claimedAt[s] <= t

(* What agent a holds and what it has under way.                           *)
AgentOK(a) ==
    /\ mode[a] \in {"granted", "running", "reporting"} =>
          job[a] \in Steps /\ token[a] \in 1..attemptCount[job[a]]
    /\ waitsFor[a] # NoHandler => mode[a] = "claiming"
    /\ report[a] # "none" <=> mode[a] = "reporting"
    /\ report[a] # "none" => Past(job[a], token[a], sentAt[a])
    /\ report[a] = "succeed" => <<job[a], token[a]>> \in finished
    /\ beat[a] # "none" => /\ mode[a] \in {"running", "reporting"}
                           /\ Past(job[a], token[a], beatAt[a])

(* What a request on its way may be.                                       *)
LateOK(r) ==
    /\ r \in LateRequests
    /\ Past(r.step, r.token, r.since)
    /\ r.kind = "succeed" => <<r.step, r.token>> \in finished

AgentTypes ==
    /\ mode \in [Agents -> {"down", "idle", "claiming", "granted", "running",
                            "reporting"}]
    /\ stopping \in [Agents -> BOOLEAN]
    /\ waitsFor \in [Agents -> Handlers \cup {NoHandler}]
    /\ sentAt \in [Agents -> 0..MaxClock]
    /\ job \in [Agents -> Steps \cup {NoStep}]
    /\ token \in [Agents -> 0..MaxAttempts]
    /\ aborted \in [Agents -> BOOLEAN]
    /\ lost \in [Agents -> BOOLEAN]
    /\ nextBeat \in [Agents -> 0..(MaxClock + HeartbeatInterval)]
    /\ beat \in [Agents -> {"none", "sent", "ok", "rejected"}]
    /\ beatAt \in [Agents -> 0..MaxClock]
    /\ report \in [Agents -> {"none", "succeed", "fail"}]
    /\ finished \subseteq (Steps \X (1..MaxAttempts))

FInv ==
    /\ IInv
    /\ AgentTypes
    /\ \A a \in Agents : AgentOK(a)
    /\ \A r \in late : LateOK(r)
    /\ SuccessIsEarned

-------------------------------------------------------------------------------
LEMMA FleetNumbers ==
    /\ MaxClock \in Nat /\ MaxAttempts \in Nat /\ HeartbeatInterval \in Nat \ {0}
    /\ 0 \in 0..MaxClock /\ 0 \in 0..MaxAttempts /\ 0 \in 0..(MaxClock + HeartbeatInterval)
    /\ \A t \in 0..MaxClock : t + HeartbeatInterval \in 0..(MaxClock + HeartbeatInterval)
BY BoundAssumption, TimerAssumption

LEMMA FleetInitInv == FleetInit => FInv
<1> SUFFICES ASSUME FleetInit PROVE FInv
  OBVIOUS
<1>1. IInv
  BY InitInv DEF FleetInit
<1>2. AgentTypes
  BY FleetNumbers DEF FleetInit, AgentTypes
<1>3. \A a \in Agents : AgentOK(a)
  BY DEF FleetInit, AgentOK
<1>4. SuccessIsEarned
  BY DEF FleetInit, Init, SuccessIsEarned
<1> QED
  BY <1>1, <1>2, <1>3, <1>4 DEF FInv, FleetInit

-------------------------------------------------------------------------------
(* What a step of the queue may do to claims: a token that appears is a    *)
(* new one, and an attempt that has succeeded stays the last.              *)
QueueMoves ==
    /\ clock' >= clock
    /\ \A s \in Steps :
        /\ attemptCount'[s] >= attemptCount[s]
        /\ \/ claimToken'[s] = claimToken[s] /\ claimedAt'[s] = claimedAt[s]
           \/ claimToken'[s] = 0
           \/ claimToken'[s] = attemptCount[s] + 1
        /\ stepStatus[s] = "SUCCEEDED" => attemptCount'[s] = attemptCount[s]

LEMMA StepsAreMoves == IInv /\ [Next]_vars => QueueMoves
<1> SUFFICES ASSUME IInv, [Next]_vars PROVE QueueMoves
  OBVIOUS
<1> USE BoundAssumption DEF IInv, TypeOK, QueueMoves
<1>1. CASE Tick
  BY <1>1 DEF Tick, stepVars
<1>2. ASSUME NEW r \in Runs, CreateRun(r) PROVE QueueMoves
  BY <1>2 DEF CreateRun
<1>3. ASSUME NEW h \in Handlers, RequeueExpiredJobs(h) PROVE QueueMoves
  BY <1>3 DEF RequeueExpiredJobs
<1>4. ASSUME NEW h \in Handlers, NEW s \in Steps, ClaimCandidate(h, s) PROVE QueueMoves
  BY <1>4 DEF ClaimCandidate, Claimable
<1>5. CASE UNCHANGED <<clock, stepVars>>
  BY <1>5 DEF stepVars
<1>6. ASSUME NEW h \in Handlers, ClaimStep(h) PROVE QueueMoves
  BY <1>3, <1>4, <1>5, <1>6 DEF ClaimStep, ReceiveClaim, FindCandidates, SkipCandidate,
       NoJob, DropClaim
<1>7. ASSUME NEW a \in Agents, NEW s \in Steps, NEW n, NEW now, Report(a, s, n, now)
      PROVE QueueMoves
  BY <1>7 DEF Report, Heartbeat, Succeed, Fail, EndStep
<1>8. CASE UNCHANGED vars
  BY <1>5, <1>8 DEF vars
<1> QED
  BY <1>1, <1>2, <1>6, <1>7, <1>8 DEF Next

(* What was sent stays sent.                                               *)
LEMMA PastStays ==
  ASSUME IInv, [Next]_vars, NEW s, NEW n, NEW t, Past(s, n, t)
  PROVE  Past(s, n, t)'
<1>1. QueueMoves /\ TypeOK /\ TypeOK'
  BY StepsAreMoves, NextType DEF IInv
<1>2. s \in Steps /\ n \in 1..attemptCount[s] /\ t \in 0..clock
      /\ (claimToken[s] = n => claimedAt[s] <= t)
  BY DEF Past
<1>3. /\ clock \in Nat /\ clock' \in Nat /\ attemptCount[s] \in Nat /\ attemptCount'[s] \in Nat
      /\ clock' >= clock /\ attemptCount'[s] >= attemptCount[s]
      /\ \/ claimToken'[s] = claimToken[s] /\ claimedAt'[s] = claimedAt[s]
         \/ claimToken'[s] = 0
         \/ claimToken'[s] = attemptCount[s] + 1
  BY <1>1, <1>2, BoundAssumption DEF QueueMoves, TypeOK
<1> QED
  BY <1>2, <1>3 DEF Past

(* A report that is accepted is one the queue expects: its claim is the    *)
(* last one, and it was sent after it.                                     *)
LEMMA AcceptedIsExpected ==
  ASSUME IInv, NEW a \in Agents, NEW s, NEW n, NEW t, NEW now \in t..clock,
         Past(s, n, t), HoldsClaim(a, s, n, now)
  PROVE  s \in Steps /\ n \in 1..attemptCount[s] /\ now \in RequestTimes(s)
         /\ n = attemptCount[s]
<1>1. s \in Steps /\ n \in 1..attemptCount[s] /\ t \in 0..clock /\ claimedAt[s] <= t
  BY DEF Past, HoldsClaim
<1>2. claimedAt[s] \in Nat /\ clock \in Nat
  BY <1>1, BoundAssumption DEF IInv, TypeOK
<1>3. n = attemptCount[s]
  BY <1>1 DEF HoldsClaim, IInv, ClaimMatchesStatus
<1> QED
  BY <1>1, <1>2, <1>3 DEF RequestTimes

LEMMA OutcomeIsAStep ==
  ASSUME IInv, NEW kind, NEW a \in Agents, NEW s, NEW n, NEW t, NEW now \in t..clock,
         Past(s, n, t), Outcome(kind, a, s, n, now)
  PROVE  [Next]_vars
<1>1. CASE UNCHANGED vars
  BY <1>1
<1>2. CASE HoldsClaim(a, s, n, now) /\ Report(a, s, n, now)
  <2>1. s \in Steps /\ n \in 1..attemptCount[s] /\ now \in RequestTimes(s)
    BY <1>2, AcceptedIsExpected
  <2> QED
    BY <1>2, <2>1 DEF Next
<1> QED
  BY <1>1, <1>2 DEF Outcome, Report

(* Every step of the fleet is a step of the queue, or leaves it alone.     *)
LEMMA FleetStepsAreQueueSteps == FInv /\ [FleetNext]_fleetVars => [Next]_vars
<1> SUFFICES ASSUME FInv, [FleetNext]_fleetVars PROVE [Next]_vars
  OBVIOUS
<1>1. CASE FleetTick
  BY <1>1 DEF FleetTick, Next
<1>2. ASSUME NEW r \in Runs, FleetCreateRun(r) PROVE [Next]_vars
  BY <1>2 DEF FleetCreateRun, Next
<1>3. ASSUME NEW h \in Handlers, ServerStep(h) PROVE [Next]_vars
  <2>1. ClaimStep(h)
    BY <1>3 DEF ServerStep, ServeClaim, GrantClaim, RefuseClaim, ClaimStep
  <2> QED
    BY <2>1 DEF Next
<1>4. ASSUME NEW a \in Agents, AgentStep(a) PROVE [Next]_vars
  <2>1. ASSUME NEW h \in Handlers, SendClaim(a, h) PROVE [Next]_vars
    <3>1. a \in Agents /\ ReceiveClaim(h, a)
      BY <2>1 DEF SendClaim
    <3> QED
      BY <3>1 DEF Next, ClaimStep
  <2>2. CASE ServeBeat(a)
    <3>1. CASE UNCHANGED vars
      BY <3>1
    <3>2. ASSUME NEW now \in beatAt[a]..clock, Heartbeat(a, job[a], token[a], now)
          PROVE [Next]_vars
      <4>1. Past(job[a], token[a], beatAt[a])
        BY <2>2 DEF ServeBeat, FInv, AgentOK
      <4>2. Outcome("heartbeat", a, job[a], token[a], now)
        BY <3>2 DEF Outcome, Heartbeat
      <4> QED
        BY <4>1, <4>2, OutcomeIsAStep DEF FInv
    <3> QED
      BY <2>2, <3>1, <3>2 DEF ServeBeat, Arrival
  <2>3. CASE ServeReport(a)
    <3>1. PICK now \in sentAt[a]..clock : Outcome(report[a], a, job[a], token[a], now)
      BY <2>3 DEF ServeReport, Arrival
    <3>2. Past(job[a], token[a], sentAt[a])
      BY <2>3 DEF ServeReport, FInv, AgentOK
    <3> QED
      BY <3>1, <3>2, OutcomeIsAStep DEF FInv
  <2>4. CASE UNCHANGED vars
    BY <2>4
  <2> QED
    BY <1>4, <2>1, <2>2, <2>3, <2>4
       DEF AgentStep, Crash, Restart, Stop, LoseClaim, StartJob, LeaseTimer, BeatSucceeds,
           BeatFails, EndBeat, FinishHandler, LoseReport
<1>5. ASSUME NEW r \in late, ServeLate(r) PROVE [Next]_vars
  <2>1. CASE UNCHANGED vars
    BY <2>1
  <2>2. ASSUME NEW now \in r.since..clock, Outcome(r.kind, r.agent, r.step, r.token, now)
        PROVE [Next]_vars
    <3>1. Past(r.step, r.token, r.since) /\ r.agent \in Agents
      BY DEF FInv, LateOK, LateRequests
    <3> QED
      BY <2>2, <3>1, OutcomeIsAStep DEF FInv
  <2> QED
    BY <1>5, <2>1, <2>2 DEF ServeLate, Arrival
<1>6. CASE UNCHANGED fleetVars
  BY <1>6 DEF fleetVars
<1> QED
  BY <1>1, <1>2, <1>3, <1>4, <1>5, <1>6 DEF FleetNext

-------------------------------------------------------------------------------
(* What an agent holds stays true while the agent does nothing itself.     *)
LEMMA OthersStay ==
  ASSUME FInv, [Next]_vars, NEW b \in Agents, AgentOK(b), finished \subseteq finished',
         mode'[b] = mode[b], waitsFor'[b] = waitsFor[b], sentAt'[b] = sentAt[b],
         job'[b] = job[b], token'[b] = token[b], beat'[b] = beat[b],
         beatAt'[b] = beatAt[b], report'[b] = report[b]
  PROVE  AgentOK(b)'
<1>1. mode[b] \in {"granted", "running", "reporting"} =>
        job[b] \in Steps /\ token[b] \in 1..attemptCount'[job[b]]
  <2> SUFFICES ASSUME mode[b] \in {"granted", "running", "reporting"}
               PROVE job[b] \in Steps /\ token[b] \in 1..attemptCount'[job[b]]
    OBVIOUS
  <2>1. job[b] \in Steps /\ token[b] \in 1..attemptCount[job[b]]
    BY DEF AgentOK
  <2>2. attemptCount'[job[b]] >= attemptCount[job[b]] /\ attemptCount[job[b]] \in Nat
        /\ attemptCount'[job[b]] \in Nat
    BY <2>1, StepsAreMoves, NextType, BoundAssumption DEF FInv, IInv, TypeOK, QueueMoves
  <2> QED
    BY <2>1, <2>2
<1>2. report[b] # "none" => Past(job[b], token[b], sentAt[b])'
  BY PastStays DEF AgentOK, FInv, Past
<1>3. beat[b] # "none" => Past(job[b], token[b], beatAt[b])'
  BY PastStays DEF AgentOK, FInv, Past
<1> QED
  BY <1>1, <1>2, <1>3 DEF AgentOK, Past

LEMMA LateStays ==
  ASSUME FInv, [Next]_vars, finished \subseteq finished', NEW r \in late
  PROVE  LateOK(r)'
<1>1. LateOK(r)
  BY DEF FInv
<1>2. Past(r.step, r.token, r.since)'
  BY <1>1, PastStays DEF LateOK, FInv
<1> QED
  BY <1>1, <1>2 DEF LateOK, LateRequests

(* An agent that has gone back to its loop, or died, holds nothing.        *)
LEMMA ForgetfulIsOK ==
  ASSUME NEW a \in Agents, AgentTypes, Forget(a), mode'[a] \in {"down", "idle"}
  PROVE  AgentOK(a)'
BY DEF AgentTypes, Forget, AgentOK

LEMMA ForgetTypes ==
  ASSUME NEW a \in Agents, AgentTypes, Forget(a)
  PROVE  /\ waitsFor' \in [Agents -> Handlers \cup {NoHandler}]
         /\ sentAt' \in [Agents -> 0..MaxClock]
         /\ job' \in [Agents -> Steps \cup {NoStep}]
         /\ token' \in [Agents -> 0..MaxAttempts]
         /\ aborted' \in [Agents -> BOOLEAN]
         /\ lost' \in [Agents -> BOOLEAN]
         /\ nextBeat' \in [Agents -> 0..(MaxClock + HeartbeatInterval)]
         /\ beat' \in [Agents -> {"none", "sent", "ok", "rejected"}]
         /\ beatAt' \in [Agents -> 0..MaxClock]
         /\ report' \in [Agents -> {"none", "succeed", "fail"}]
BY FleetNumbers DEF Forget, AgentTypes

LEMMA BackTypes ==
  ASSUME NEW a \in Agents, AgentTypes, BackToLoop(a), UNCHANGED finished
  PROVE  AgentTypes'
<1>1. /\ mode' \in [Agents -> {"down", "idle", "claiming", "granted", "running", "reporting"}]
      /\ stopping' \in [Agents -> BOOLEAN]
  BY DEF BackToLoop, AgentTypes
<1>2. Forget(a)
  BY DEF BackToLoop
<1> QED
  BY <1>1, <1>2, ForgetTypes DEF AgentTypes

LEMMA AgentStepTypes ==
  ASSUME FInv, NEW a \in Agents, AgentStep(a) PROVE AgentTypes'
<1>0. AgentTypes /\ clock \in 0..MaxClock
  BY DEF FInv, IInv, TypeOK
<1>1. CASE Crash(a)
  <2>1. Forget(a)
    BY <1>1 DEF Crash
  <2> QED
    BY <1>0, <1>1, <2>1, ForgetTypes DEF Crash, AgentTypes
<1>2. CASE Restart(a) \/ Stop(a)
  BY <1>0, <1>2 DEF Restart, Stop, AgentTypes
<1>3. ASSUME NEW h \in Handlers, SendClaim(a, h) PROVE AgentTypes'
  BY <1>0, <1>3 DEF SendClaim, AgentTypes
<1>4. CASE LoseClaim(a) \/ ServeReport(a) \/ LoseReport(a)
  <2>1. BackToLoop(a) /\ UNCHANGED finished
    BY <1>4 DEF LoseClaim, ServeReport, LoseReport
  <2> QED
    BY <1>0, <2>1, BackTypes
<1>5. CASE StartJob(a)
  <2>1. clock + HeartbeatInterval \in 0..(MaxClock + HeartbeatInterval)
    BY <1>0, FleetNumbers
  <2> QED
    BY <1>0, <1>5, <2>1, FleetNumbers DEF StartJob, AgentTypes
<1>6. CASE LeaseTimer(a)
  <2>1. clock + HeartbeatInterval \in 0..(MaxClock + HeartbeatInterval)
    BY <1>0, FleetNumbers
  <2> QED
    BY <1>0, <1>6, <2>1 DEF LeaseTimer, AgentTypes
<1>7. CASE ServeBeat(a)
  <2>1. \E l \in {"ok", "rejected"} : beat' = [beat EXCEPT ![a] = l]
    BY <1>7 DEF ServeBeat
  <2>2. UNCHANGED <<mode, stopping, waitsFor, sentAt, job, token, aborted, lost,
                    nextBeat, beatAt, report, finished>>
    BY <1>7 DEF ServeBeat
  <2> QED
    BY <1>0, <2>1, <2>2 DEF AgentTypes
<1>8. CASE BeatSucceeds(a) \/ BeatFails(a)
  <2>1. /\ beat' = [beat EXCEPT ![a] = "none"] /\ beatAt' = [beatAt EXCEPT ![a] = 0]
        /\ UNCHANGED <<mode, stopping, waitsFor, sentAt, job, token, nextBeat, report, finished>>
        /\ aborted' \in {aborted, [aborted EXCEPT ![a] = TRUE]}
        /\ lost' \in {lost, [lost EXCEPT ![a] = TRUE]}
    BY <1>8 DEF BeatSucceeds, BeatFails, EndBeat
  <2> QED
    BY <1>0, <2>1, FleetNumbers DEF AgentTypes
<1>9. ASSUME NEW outcome \in {"succeed", "fail"}, FinishHandler(a, outcome) PROVE AgentTypes'
  <2>1. finished' \subseteq (Steps \X (1..MaxAttempts))
    <3>1. job[a] \in Steps /\ token[a] \in 1..attemptCount[job[a]]
      BY <1>9 DEF FinishHandler, FInv, AgentOK
    <3>2. attemptCount[job[a]] \in 0..MaxAttempts
      BY <3>1 DEF FInv, IInv, TypeOK
    <3>3. token[a] \in 1..MaxAttempts
      BY <3>1, <3>2, FleetNumbers
    <3> QED
      BY <1>0, <1>9, <3>1, <3>3 DEF FinishHandler, AgentTypes
  <2>2. CASE BackToLoop(a)
    <3>1. Forget(a)
      BY <2>2 DEF BackToLoop
    <3>2. /\ mode' \in [Agents -> {"down", "idle", "claiming", "granted", "running", "reporting"}]
          /\ stopping' \in [Agents -> BOOLEAN]
      BY <1>0, <2>2 DEF BackToLoop, AgentTypes
    <3> QED
      BY <1>0, <2>1, <3>1, <3>2, ForgetTypes DEF AgentTypes
  <2>3. CASE ~BackToLoop(a)
    BY <1>0, <1>9, <2>1, <2>3 DEF FinishHandler, AgentTypes
  <2> QED
    BY <2>2, <2>3
<1> QED
  BY <1>1, <1>2, <1>3, <1>4, <1>5, <1>6, <1>7, <1>8, <1>9 DEF AgentStep

LEMMA GrantTypes ==
  ASSUME FInv, TypeOK', NEW h \in Handlers, NEW s \in Steps, GrantClaim(h, s) PROVE AgentTypes'
<1>1. claimToken'[s] \in 0..MaxAttempts
  BY DEF TypeOK
<1> QED
  BY <1>1 DEF GrantClaim, FInv, AgentTypes

-------------------------------------------------------------------------------
(* The agent that acts.                                                    *)
LEMMA AgentStepOK ==
  ASSUME FInv, [Next]_vars, NEW a \in Agents, AgentStep(a)
  PROVE  AgentOK(a)'
<1>0. AgentTypes /\ AgentOK(a) /\ clock \in 0..MaxClock /\ clock \in Nat
  BY FleetNumbers DEF FInv, IInv, TypeOK
<1>now. ASSUME mode[a] \in {"granted", "running", "reporting"}
        PROVE Past(job[a], token[a], clock)
  <2>1. job[a] \in Steps /\ token[a] \in 1..attemptCount[job[a]]
    BY <1>0, <1>now DEF AgentOK
  <2>2. claimToken[job[a]] = token[a] => claimedAt[job[a]] <= clock
    BY <2>1 DEF FInv, IInv, ClaimMatchesStatus, TypeOK
  <2> QED
    BY <1>0, <2>1, <2>2 DEF Past
<1>1. CASE Crash(a)
  BY <1>0, <1>1, ForgetfulIsOK DEF Crash, AgentTypes
<1>2. CASE Restart(a) \/ Stop(a)
  BY <1>0, <1>2 DEF Restart, Stop, AgentTypes, AgentOK, Past, vars, runVars, stepVars
<1>3. ASSUME NEW h \in Handlers, SendClaim(a, h) PROVE AgentOK(a)'
  BY <1>0, <1>3 DEF SendClaim, AgentTypes, AgentOK
<1>4. CASE BackToLoop(a)
  <2>1. Forget(a) /\ mode'[a] \in {"down", "idle"}
    BY <1>0, <1>4 DEF BackToLoop, AgentTypes
  <2> QED
    BY <1>0, <2>1, ForgetfulIsOK
<1>5. CASE StartJob(a)
  BY <1>0, <1>5 DEF StartJob, AgentTypes, AgentOK, Past, vars, runVars, stepVars
<1>6. CASE LeaseTimer(a)
  <2>1. Past(job[a], token[a], clock)
    BY <1>6, <1>now DEF LeaseTimer
  <2> QED
    BY <1>0, <1>6, <2>1 DEF LeaseTimer, AgentTypes, AgentOK, Past, vars, runVars, stepVars
<1>7. CASE ServeBeat(a)
  <2>1. /\ beat[a] = "sent" /\ beat'[a] # "none"
        /\ UNCHANGED <<mode, waitsFor, sentAt, job, token, beatAt, report, finished>>
    BY <1>0, <1>7 DEF ServeBeat, AgentTypes
  <2>2. mode[a] \in {"running", "reporting"}
    BY <1>0, <2>1 DEF AgentOK
  <2>3. Past(job[a], token[a], beatAt[a])'
    BY <1>0, <2>1, PastStays DEF AgentOK, FInv, Past
  <2>4. report[a] # "none" => Past(job[a], token[a], sentAt[a])'
    BY <1>0, <2>1, PastStays DEF AgentOK, FInv, Past
  <2>5. job'[a] \in Steps /\ token'[a] \in 1..attemptCount'[job'[a]]
    BY <2>3 DEF Past
  <2> QED
    BY <1>0, <2>1, <2>2, <2>3, <2>4, <2>5 DEF AgentOK
<1>8. CASE BeatSucceeds(a) \/ BeatFails(a)
  BY <1>0, <1>8 DEF BeatSucceeds, BeatFails, EndBeat, AgentTypes, AgentOK, Past,
       vars, runVars, stepVars
<1>9. ASSUME NEW outcome \in {"succeed", "fail"}, FinishHandler(a, outcome), ~BackToLoop(a)
      PROVE AgentOK(a)'
  <2>1. Past(job[a], token[a], clock)
    BY <1>9, <1>now DEF FinishHandler
  <2>2. /\ mode'[a] = "reporting" /\ report'[a] = outcome /\ sentAt'[a] = clock
        /\ UNCHANGED <<waitsFor, job, token, beat, beatAt, vars>>
        /\ outcome = "succeed" => <<job[a], token[a]>> \in finished'
        /\ mode[a] = "running"
    BY <1>0, <1>9 DEF FinishHandler, AgentTypes
  <2> QED
    BY <1>0, <2>1, <2>2 DEF AgentOK, Past, vars, runVars, stepVars
<1> QED
  BY <1>1, <1>2, <1>3, <1>4, <1>5, <1>6, <1>7, <1>8, <1>9
     DEF AgentStep, LoseClaim, ServeReport, LoseReport

LEMMA AgentStepKeeps ==
  ASSUME FInv, [Next]_vars, NEW a \in Agents, AgentStep(a)
  PROVE  /\ finished \subseteq finished'
         /\ \A b \in Agents : AgentOK(b)'
<1>0. AgentTypes
  BY DEF FInv
<1>1. finished \subseteq finished'
  BY DEF AgentStep, Crash, Restart, Stop, SendClaim, LoseClaim, StartJob, LeaseTimer,
     ServeBeat, BeatSucceeds, BeatFails, EndBeat, FinishHandler, ServeReport, LoseReport
<1>2. ASSUME NEW b \in Agents, b # a
      PROVE UNCHANGED <<mode[b], waitsFor[b], sentAt[b], job[b], token[b], beat[b],
                        beatAt[b], report[b]>>
  <2>1. CASE Crash(a)
    BY <1>0, <1>2, <2>1 DEF Crash, Forget, AgentTypes
  <2>2. CASE Restart(a) \/ Stop(a) \/ StartJob(a) \/ LeaseTimer(a)
    BY <1>0, <1>2, <2>2 DEF Restart, Stop, StartJob, LeaseTimer, AgentTypes
  <2>3. ASSUME NEW h \in Handlers, SendClaim(a, h) PROVE UNCHANGED <<mode[b], waitsFor[b], sentAt[b], job[b], token[b], beat[b],
                          beatAt[b], report[b]>>
    BY <1>0, <1>2, <2>3 DEF SendClaim, AgentTypes
  <2>4. CASE BackToLoop(a)
    BY <1>0, <1>2, <2>4 DEF BackToLoop, Forget, AgentTypes
  <2>5. CASE ServeBeat(a)
    BY <1>0, <1>2, <2>5 DEF ServeBeat, AgentTypes
  <2>6. CASE BeatSucceeds(a) \/ BeatFails(a)
    BY <1>0, <1>2, <2>6 DEF BeatSucceeds, BeatFails, EndBeat, AgentTypes
  <2>7. ASSUME NEW outcome \in {"succeed", "fail"}, FinishHandler(a, outcome), ~BackToLoop(a)
        PROVE UNCHANGED <<mode[b], waitsFor[b], sentAt[b], job[b], token[b], beat[b],
                          beatAt[b], report[b]>>
    BY <1>0, <1>2, <2>7 DEF FinishHandler, AgentTypes
  <2> QED
    BY <2>1, <2>2, <2>3, <2>4, <2>5, <2>6, <2>7
       DEF AgentStep, LoseClaim, ServeReport, LoseReport
<1>3. ASSUME NEW b \in Agents, b # a PROVE AgentOK(b)'
  BY <1>1, <1>2, <1>3, OthersStay DEF FInv
<1> QED
  BY <1>1, <1>3, AgentStepOK

(* What an agent abandons was sent about its claim.                        *)
LEMMA AbandonedIsOK ==
  ASSUME FInv, [Next]_vars, finished \subseteq finished', NEW a \in Agents,
         NEW r \in Abandoned(a)
  PROVE  LateOK(r)'
<1>0. AgentTypes /\ AgentOK(a) /\ TypeOK
  BY DEF FInv, IInv
<1>1. CASE beat[a] = "sent" /\ r = [kind |-> "heartbeat", agent |-> a, step |-> job[a],
                                   token |-> token[a], since |-> beatAt[a]]
  <2>1. Past(job[a], token[a], beatAt[a])
    BY <1>0, <1>1 DEF AgentOK
  <2>2. r \in LateRequests
    <3>1. job[a] \in Steps /\ token[a] \in 1..MaxAttempts /\ beatAt[a] \in 0..MaxClock
      BY <1>0, <2>1, FleetNumbers DEF Past, AgentTypes
    <3> QED
      BY <1>1, <3>1 DEF LateRequests
  <2>3. Past(r.step, r.token, r.since)'
    BY <1>1, <2>1, PastStays DEF FInv
  <2> QED
    BY <1>1, <2>2, <2>3 DEF LateOK, LateRequests
<1>2. CASE report[a] # "none" /\ r = [kind |-> report[a], agent |-> a, step |-> job[a],
                                     token |-> token[a], since |-> sentAt[a]]
  <2>1. Past(job[a], token[a], sentAt[a]) /\ report[a] \in {"succeed", "fail"}
    BY <1>0, <1>2 DEF AgentOK, AgentTypes
  <2>2. r \in LateRequests
    <3>1. job[a] \in Steps /\ token[a] \in 1..MaxAttempts /\ sentAt[a] \in 0..MaxClock
      BY <1>0, <2>1, FleetNumbers DEF Past, AgentTypes
    <3> QED
      BY <1>2, <2>1, <3>1 DEF LateRequests
  <2>3. Past(r.step, r.token, r.since)'
    BY <1>2, <2>1, PastStays DEF FInv
  <2>4. r.kind = "succeed" => <<r.step, r.token>> \in finished'
    BY <1>0, <1>2 DEF AgentOK
  <2> QED
    BY <2>2, <2>3, <2>4 DEF LateOK, LateRequests
<1> QED
  BY <1>1, <1>2 DEF Abandoned

LEMMA LateKept ==
  ASSUME FInv, [Next]_vars, FleetNext, finished \subseteq finished'
  PROVE  \A r \in late' : LateOK(r)'
<1>1. ASSUME NEW a \in Agents, AgentStep(a) PROVE late' \subseteq late \cup Abandoned(a)
  BY <1>1 DEF AgentStep, Crash, Restart, Stop, SendClaim, LoseClaim, StartJob, LeaseTimer,
     ServeBeat, BeatSucceeds, BeatFails, EndBeat, FinishHandler, ServeReport, LoseReport, Abandon
<1>2. ASSUME NEW r \in late, ServeLate(r) PROVE late' \subseteq late
  BY <1>2 DEF ServeLate
<1>3. ASSUME NEW h \in Handlers, ServerStep(h) PROVE late' \subseteq late
  BY <1>3 DEF ServerStep, ServeClaim, GrantClaim, RefuseClaim, agentVars
<1>4. \/ late' \subseteq late
      \/ \E a \in Agents : late' \subseteq late \cup Abandoned(a)
  BY <1>1, <1>2, <1>3 DEF FleetNext, FleetTick, FleetCreateRun, agentVars
<1> QED
  BY <1>4, LateStays, AbandonedIsOK

-------------------------------------------------------------------------------
(* Steps of the server.                                                    *)
LEMMA GrantOK ==
  ASSUME FInv, [Next]_vars, NEW h \in Handlers, NEW s \in Steps, GrantClaim(h, s),
         NEW b \in Agents
  PROVE  AgentOK(b)'
<1>0. AgentTypes /\ AgentOK(b) /\ h # NoHandler
  BY TimerAssumption DEF FInv
<1>1. CASE waitsFor[b] # h
  <2>1. UNCHANGED <<mode[b], waitsFor[b], sentAt[b], job[b], token[b], beat[b],
                    beatAt[b], report[b], finished>>
    BY <1>0, <1>1 DEF GrantClaim, AgentTypes
  <2> QED
    BY <1>0, <2>1, OthersStay
<1>2. CASE waitsFor[b] = h
  <2>1. mode[b] = "claiming" /\ beat[b] = "none" /\ report[b] = "none"
    BY <1>0, <1>2 DEF AgentOK
  <2>2. /\ mode'[b] = "granted" /\ job'[b] = s /\ token'[b] = claimToken'[s]
        /\ waitsFor'[b] = NoHandler /\ beat'[b] = "none" /\ report'[b] = "none"
    BY <1>2, <2>1 DEF GrantClaim
  <2>3. claimToken'[s] \in 1..attemptCount'[s]
    <3>1. /\ claimToken'[s] = attemptCount[s] + 1 /\ attemptCount'[s] = attemptCount[s] + 1
          /\ attemptCount[s] \in Nat
      BY BoundAssumption DEF GrantClaim, ClaimCandidate, FInv, IInv, TypeOK
    <3> QED
      BY <3>1
  <2> QED
    BY <2>2, <2>3 DEF AgentOK
<1> QED
  BY <1>1, <1>2

LEMMA RefuseKeeps ==
  ASSUME FInv, [Next]_vars, NEW h \in Handlers, RefuseClaim(h)
  PROVE  AgentTypes' /\ \A b \in Agents : AgentOK(b)'
<1>0. AgentTypes /\ finished' = finished
  BY DEF FInv, RefuseClaim, agentVars
<1>1. CASE UNCHANGED agentVars
  <2>1. AgentTypes'
    BY <1>0, <1>1 DEF agentVars, AgentTypes
  <2> QED
    BY <1>1, <2>1, OthersStay DEF agentVars, FInv
<1>2. ASSUME NEW a \in Agents, BackToLoop(a) PROVE AgentTypes' /\ \A b \in Agents : AgentOK(b)'
  <2>1. AgentTypes'
    BY <1>0, <1>2, BackTypes
  <2>2. Forget(a) /\ mode'[a] \in {"down", "idle"}
    BY <1>0, <1>2 DEF BackToLoop, AgentTypes
  <2>3. ASSUME NEW b \in Agents, b # a PROVE AgentOK(b)'
    <3>1. UNCHANGED <<mode[b], waitsFor[b], sentAt[b], job[b], token[b], beat[b],
                      beatAt[b], report[b]>>
      BY <1>0, <1>2, <2>3 DEF BackToLoop, Forget, AgentTypes
    <3> QED
      BY <1>0, <3>1, OthersStay DEF FInv
  <2> QED
    BY <1>0, <2>1, <2>2, <2>3, ForgetfulIsOK
<1> QED
  BY <1>1, <1>2 DEF RefuseClaim

-------------------------------------------------------------------------------
(* Success                                                                 *)
LEMMA SuccessStays ==
  ASSUME FInv, [Next]_vars, finished \subseteq finished',
         \A s \in Steps : stepStatus'[s] = "SUCCEEDED" =>
            stepStatus[s] = "SUCCEEDED" \/ <<s, attemptCount'[s]>> \in finished'
  PROVE  SuccessIsEarned'
<1>1. QueueMoves
  BY StepsAreMoves DEF FInv
<1> QED
  BY <1>1 DEF FInv, SuccessIsEarned, QueueMoves

LEMMA OutcomeIsEarned ==
  ASSUME FInv, NEW kind, NEW a \in Agents, NEW s, NEW n, NEW t, NEW now \in t..clock,
         Past(s, n, t), Outcome(kind, a, s, n, now),
         kind = "succeed" => <<s, n>> \in finished
  PROVE  \A u \in Steps : stepStatus'[u] = "SUCCEEDED" =>
            stepStatus[u] = "SUCCEEDED" \/ <<u, attemptCount'[u]>> \in finished
<1>0. TypeOK
  BY DEF FInv, IInv
<1>1. CASE kind = "succeed" /\ Succeed(a, s, n, now)
  <2>1. n = attemptCount[s] /\ attemptCount' = attemptCount
    BY <1>1, AcceptedIsExpected DEF FInv, Succeed, EndStep
  <2>2. \A u \in Steps : u # s => stepStatus'[u] = stepStatus[u]
    BY <1>0, <1>1 DEF Succeed, EndStep, TypeOK
  <2> QED
    BY <1>1, <2>1, <2>2
<1>2. CASE Fail(a, s, n, now)
  BY <1>0, <1>2 DEF Fail, EndStep, TypeOK
<1>3. CASE UNCHANGED stepStatus
  BY <1>3
<1> QED
  BY <1>1, <1>2, <1>3 DEF Outcome, Heartbeat, vars, stepVars

LEMMA SuccessKept ==
  ASSUME FInv, [Next]_vars, FleetNext, finished \subseteq finished'
  PROVE  SuccessIsEarned'
<1> DEFINE Earned == \A s \in Steps : stepStatus'[s] = "SUCCEEDED" =>
                        stepStatus[s] = "SUCCEEDED" \/ <<s, attemptCount'[s]>> \in finished'
<1>0. TypeOK
  BY DEF FInv, IInv
<1>1. CASE UNCHANGED stepStatus
  <2>1. Earned
    BY <1>1
  <2> QED
    BY <2>1, SuccessStays
<1>2. ASSUME NEW r \in Runs, CreateRun(r) PROVE SuccessIsEarned'
  <2>1. Earned
    BY <1>0, <1>2 DEF CreateRun, TypeOK
  <2> QED
    BY <2>1, SuccessStays
<1>3. ASSUME NEW h \in Handlers, ServerStep(h) PROVE SuccessIsEarned'
  <2>1. ASSUME NEW s \in Steps, ClaimCandidate(h, s) PROVE SuccessIsEarned'
    <3>1. stepStatus' = [stepStatus EXCEPT ![s] = "RUNNING"]
      BY <2>1 DEF ClaimCandidate
    <3>2. Earned
      BY <1>0, <3>1 DEF TypeOK
    <3> QED
      BY <3>2, SuccessStays
  <2>2. CASE RequeueExpiredJobs(h)
    <3>1. \A s \in Steps : stepStatus'[s] \in {"PENDING", stepStatus[s]}
      BY <2>2 DEF RequeueExpiredJobs
    <3>2. Earned
      BY <3>1
    <3> QED
      BY <3>2, SuccessStays
  <2>3. CASE UNCHANGED stepStatus
    BY <1>1, <2>3
  <2> QED
    BY <1>3, <2>1, <2>2, <2>3 DEF ServerStep, ServeClaim, GrantClaim, RefuseClaim,
         FindCandidates, SkipCandidate, NoJob, DropClaim, stepVars
<1>4. ASSUME NEW a \in Agents, AgentStep(a) PROVE SuccessIsEarned'
  <2>1. CASE ServeReport(a)
    <3>1. PICK now \in sentAt[a]..clock : Outcome(report[a], a, job[a], token[a], now)
      BY <2>1 DEF ServeReport, Arrival
    <3>2. /\ Past(job[a], token[a], sentAt[a])
          /\ report[a] = "succeed" => <<job[a], token[a]>> \in finished
      BY <2>1 DEF ServeReport, FInv, AgentOK
    <3>3. Earned
      BY <3>1, <3>2, OutcomeIsEarned
    <3> QED
      BY <3>3, SuccessStays
  <2>2. CASE UNCHANGED stepStatus
    BY <1>1, <2>2
  <2> QED
    BY <1>4, <2>1, <2>2
       DEF AgentStep, Crash, Restart, Stop, SendClaim, ReceiveClaim, LoseClaim, StartJob,
           LeaseTimer, ServeBeat, Heartbeat, BeatSucceeds, BeatFails, EndBeat, FinishHandler,
           LoseReport, vars, stepVars
<1>5. ASSUME NEW r \in late, ServeLate(r) PROVE SuccessIsEarned'
  <2>1. CASE UNCHANGED vars
    BY <1>1, <2>1 DEF vars, stepVars
  <2>2. ASSUME NEW now \in r.since..clock, Outcome(r.kind, r.agent, r.step, r.token, now)
        PROVE SuccessIsEarned'
    <3>1. /\ Past(r.step, r.token, r.since) /\ r.agent \in Agents
          /\ r.kind = "succeed" => <<r.step, r.token>> \in finished
      BY DEF FInv, LateOK, LateRequests
    <3>2. Earned
      BY <2>2, <3>1, OutcomeIsEarned
    <3> QED
      BY <3>2, SuccessStays
  <2> QED
    BY <1>5, <2>1, <2>2 DEF ServeLate, Arrival
<1> QED
  BY <1>1, <1>2, <1>3, <1>4, <1>5 DEF FleetNext, FleetTick, FleetCreateRun, Tick, stepVars

-------------------------------------------------------------------------------
LEMMA FleetNextInv == FInv /\ [FleetNext]_fleetVars => FInv'
<1> SUFFICES ASSUME FInv, [FleetNext]_fleetVars PROVE FInv'
  OBVIOUS
<1>1. [Next]_vars
  BY FleetStepsAreQueueSteps
<1>2. IInv' /\ TypeOK'
  BY <1>1, NextInv DEF FInv, IInv
<1> DEFINE Kept == AgentTypes' /\ finished \subseteq finished' /\ \A b \in Agents : AgentOK(b)'
<1>3. Kept
  <2>1. CASE UNCHANGED agentVars
    <3>1. AgentTypes'
      BY <2>1 DEF FInv, AgentTypes, agentVars
    <3> QED
      BY <1>1, <2>1, <3>1, OthersStay DEF agentVars, FInv
  <2>2. ASSUME NEW a \in Agents, AgentStep(a) PROVE Kept
    BY <1>1, <2>2, AgentStepTypes, AgentStepKeeps
  <2>3. ASSUME NEW h \in Handlers, NEW s \in Steps, GrantClaim(h, s) PROVE Kept
    BY <1>1, <1>2, <2>3, GrantTypes, GrantOK DEF GrantClaim
  <2>4. ASSUME NEW h \in Handlers, RefuseClaim(h) PROVE Kept
    BY <1>1, <2>4, RefuseKeeps DEF RefuseClaim, agentVars
  <2>5. ASSUME NEW r \in late, ServeLate(r) PROVE Kept
    <3>1. UNCHANGED <<mode, stopping, waitsFor, sentAt, job, token, aborted, lost,
                      nextBeat, beat, beatAt, report, finished>>
      BY <2>5 DEF ServeLate
    <3>2. AgentTypes'
      BY <3>1 DEF FInv, AgentTypes
    <3> QED
      BY <1>1, <3>1, <3>2, OthersStay DEF FInv
  <2> QED
    BY <2>1, <2>2, <2>3, <2>4, <2>5
       DEF FleetNext, FleetTick, FleetCreateRun, ServerStep, ServeClaim, fleetVars
<1>4. CASE FleetNext
  BY <1>1, <1>2, <1>3, <1>4, LateKept, SuccessKept DEF FInv
<1>5. CASE UNCHANGED fleetVars
  <2>1. late' = late /\ SuccessIsEarned'
    BY <1>5 DEF fleetVars, agentVars, vars, stepVars, FInv, SuccessIsEarned
  <2> QED
    BY <1>1, <1>2, <1>3, <2>1, LateStays DEF FInv
<1> QED
  BY <1>4, <1>5

LEMMA FleetInvariance == FleetSpec => []FInv
BY FleetInitInv, FleetNextInv, PTL DEF FleetSpec

(* Every variable of queue and agents keeps its type.                      *)
THEOREM FleetTypeCorrect == FleetSpec => []FleetTypeOK
<1>1. FInv => FleetTypeOK
  BY DEF FInv, IInv, AgentTypes, LateOK, FleetTypeOK
<1> QED
  BY <1>1, FleetInvariance, PTL

(* Whatever the agents do, and whatever becomes of their requests, the     *)
(* queue behaves as it is specified alone: each of its theorems holds for  *)
(* the fleet.                                                              *)
THEOREM FleetImplementsQueue == FleetSpec => Spec
<1>1. FleetInit => Init
  BY DEF FleetInit
<1>2. FInv /\ [FleetNext]_fleetVars => [Next]_vars
  BY FleetStepsAreQueueSteps
<1> QED
  BY <1>1, <1>2, FleetInvariance, PTL DEF FleetSpec, Spec

(* With late reports, lost leases and agents that crash: no step is        *)
(* SUCCEEDED but by a handler that completed under the step's last claim.  *)
THEOREM SuccessesAreEarned == FleetSpec => []SuccessIsEarned
<1>1. FInv => SuccessIsEarned
  BY DEF FInv
<1> QED
  BY <1>1, FleetInvariance, PTL

-------------------------------------------------------------------------------
(* Punctual agents keep their claim.  The lease of a job is long enough    *)
(* from the last time it was renewed: at most two request timeouts and one *)
(* heartbeat interval pass before the next renewal is decided.             *)

Timely == Punctual /\ LeaseTime > HeartbeatInterval + 2 * RequestTimeout

(* A handler of the API that somebody waits for works for that agent.      *)
Awaited(a) == mode[a] = "claiming" =>
    /\ waitsFor[a] \in Handlers /\ phase[waitsFor[a]] # "idle"
    /\ caller[waitsFor[a]] = a /\ calledAt[waitsFor[a]] = sentAt[a]

Working(a) == mode[a] \in {"granted", "running"} /\ ~aborted[a]

Holds(a) ==
    /\ stepStatus[job[a]] = "RUNNING"
    /\ claimedBy[job[a]] = a
    /\ claimToken[job[a]] = token[a]

(* The lease left, in each state of the heartbeat.                         *)
LeaseOf(a) == leaseExpiresAt[job[a]]
Renewing(a) ==
    /\ nextBeat[a] <= clock + HeartbeatInterval
    /\ beat[a] = "none" =>
          nextBeat[a] + LeaseTime <= LeaseOf(a) + RequestTimeout + HeartbeatInterval
    /\ beat[a] = "sent" =>
          beatAt[a] + LeaseTime <= LeaseOf(a) + RequestTimeout + HeartbeatInterval
    /\ beat[a] = "ok" => beatAt[a] + LeaseTime <= LeaseOf(a)
    /\ beat[a] # "rejected"

WorkOK(a) == Working(a) =>
    /\ Holds(a)
    /\ mode[a] = "granted" => sentAt[a] + LeaseTime <= LeaseOf(a)
    /\ mode[a] = "running" => Renewing(a)
    /\ \A r \in late : ~(r.agent = a /\ r.step = job[a] /\ r.token = token[a])

TimelyInv ==
    /\ FInv
    /\ OnTime(clock)
    /\ \A a \in Agents : Awaited(a) /\ WorkOK(a)

(* The numbers an agent works with.                                        *)
LEMMA WorkTypes ==
  ASSUME FInv, NEW a \in Agents
  PROVE  /\ clock \in Nat /\ sentAt[a] \in Nat /\ nextBeat[a] \in Nat /\ beatAt[a] \in Nat
         /\ LeaseTime \in Nat /\ RequestTimeout \in Nat /\ HeartbeatInterval \in Nat
         /\ mode[a] \in {"granted", "running", "reporting"} =>
               job[a] \in Steps /\ LeaseOf(a) \in Nat
         /\ beat[a] \in {"none", "sent", "ok", "rejected"}
<1>1. mode[a] \in {"granted", "running", "reporting"} => job[a] \in Steps
  BY DEF FInv, AgentOK
<1>2. \A s \in Steps : leaseExpiresAt[s] \in Nat
  BY FleetNumbers, BoundAssumption DEF FInv, IInv, TypeOK
<1> QED
  BY <1>1, <1>2, FleetNumbers, BoundAssumption, TimerAssumption
     DEF FInv, IInv, TypeOK, AgentTypes, LeaseOf

LEMMA LeaseCovers ==
  ASSUME Timely, TimelyInv, NEW a \in Agents, Working(a)
  PROVE  Holds(a) /\ LeaseOf(a) > clock
<1>1. FInv /\ WorkOK(a)
  BY DEF TimelyInv
<1>2. /\ clock \in Nat /\ sentAt[a] \in Nat /\ nextBeat[a] \in Nat /\ beatAt[a] \in Nat
      /\ LeaseTime \in Nat /\ RequestTimeout \in Nat /\ HeartbeatInterval \in Nat
      /\ LeaseOf(a) \in Nat /\ beat[a] \in {"none", "sent", "ok", "rejected"}
  BY <1>1, WorkTypes DEF Working
<1>3. /\ mode[a] = "granted" => clock <= sentAt[a] + RequestTimeout
      /\ beat[a] # "none" => clock <= beatAt[a] + RequestTimeout
      /\ mode[a] = "running" => clock <= nextBeat[a]
  BY DEF TimelyInv, OnTime, Working
<1>4. /\ mode[a] = "granted" => sentAt[a] + LeaseTime <= LeaseOf(a)
      /\ mode[a] = "running" => Renewing(a)
  BY <1>1 DEF WorkOK
<1>5. LeaseTime > HeartbeatInterval + 2 * RequestTimeout
  BY DEF Timely
<1>6. ASSUME mode[a] = "granted" PROVE LeaseOf(a) > clock
  BY <1>2, <1>3, <1>4, <1>5, <1>6
<1>7. ASSUME mode[a] = "running" PROVE LeaseOf(a) > clock
  BY <1>2, <1>3, <1>4, <1>5, <1>7 DEF Renewing
<1> QED
  BY <1>1, <1>6, <1>7 DEF WorkOK, Working

(* What an agent has not been told leaves it as it is.                     *)
SameAgent(b) ==
    UNCHANGED <<mode[b], aborted[b], waitsFor[b], sentAt[b], job[b], token[b], nextBeat[b],
                beat[b], beatAt[b]>>
SameRow(s) ==
    /\ stepStatus'[s] = stepStatus[s] /\ claimedBy'[s] = claimedBy[s]
    /\ claimToken'[s] = claimToken[s] /\ leaseExpiresAt'[s] = leaseExpiresAt[s]

LEMMA WorkStays ==
  ASSUME TimelyInv, NEW b \in Agents, SameAgent(b), clock' \in Nat, clock' >= clock,
         Working(b) => SameRow(job[b]),
         \A r \in late' : r \in late \/ r.agent # b
  PROVE  WorkOK(b)'
<1> SUFFICES ASSUME Working(b)
             PROVE  /\ Holds(b)'
                    /\ mode'[b] = "granted" => sentAt'[b] + LeaseTime <= LeaseOf(b)'
                    /\ mode'[b] = "running" => Renewing(b)'
                    /\ \A r \in late' :
                          ~(r.agent = b /\ r.step = job'[b] /\ r.token = token'[b])
  BY DEF WorkOK, Working, SameAgent
<1>1. WorkOK(b) /\ FInv /\ SameRow(job[b])
  BY DEF TimelyInv
<1>2. Holds(b)' /\ LeaseOf(b)' = LeaseOf(b)
  BY <1>1 DEF WorkOK, Holds, LeaseOf, SameRow, SameAgent
<1>3. mode[b] = "running" => Renewing(b)'
  BY <1>1, <1>2, WorkTypes DEF WorkOK, Renewing, SameAgent
<1>4. \A r \in late' : ~(r.agent = b /\ r.step = job'[b] /\ r.token = token'[b])
  BY <1>1 DEF WorkOK, SameAgent
<1> QED
  BY <1>1, <1>2, <1>3, <1>4 DEF WorkOK, SameAgent

-------------------------------------------------------------------------------
(* What the API does to a claim that is held and has lease left.           *)
LEMMA ReportKeepsRow ==
  ASSUME TimelyInv, NEW b \in Agents, Working(b), NEW kind, NEW a, NEW s, NEW n, NEW now,
         Outcome(kind, a, s, n, now), a # b \/ s # job[b] \/ n # token[b]
  PROVE  SameRow(job[b])
<1>1. Holds(b) /\ job[b] \in Steps /\ TypeOK
  BY WorkTypes DEF TimelyInv, FInv, IInv, WorkOK, Working
<1>2. CASE UNCHANGED vars
  BY <1>2 DEF vars, stepVars, SameRow
<1>3. CASE HoldsClaim(a, s, n, now) /\ Report(a, s, n, now)
  <2>1. s # job[b]
    BY <1>1, <1>3 DEF Holds, HoldsClaim
  <2> QED
    BY <1>1, <1>3, <2>1 DEF Report, Heartbeat, Succeed, Fail, EndStep, SameRow, TypeOK
<1> QED
  BY <1>2, <1>3 DEF Outcome, Report

LEMMA ServerKeepsRow ==
  ASSUME Timely, TimelyInv, NEW b \in Agents, Working(b), NEW h \in Handlers, ClaimStep(h)
  PROVE  SameRow(job[b])
<1>1. Holds(b) /\ LeaseOf(b) > clock /\ job[b] \in Steps /\ TypeOK
  BY LeaseCovers, WorkTypes DEF TimelyInv, FInv, IInv, Working
<1>2. CASE UNCHANGED stepVars
  BY <1>2 DEF stepVars, SameRow
<1>3. CASE RequeueExpiredJobs(h)
  <2>1. calledAt[h] <= clock /\ calledAt[h] \in Nat /\ clock \in Nat /\ LeaseOf(b) \in Nat
    BY <1>1, FleetNumbers, BoundAssumption
       DEF TimelyInv, FInv, IInv, CandidatesReady, TypeOK, LeaseOf
  <2>2. ~Expired(job[b], calledAt[h])
    BY <1>1, <2>1 DEF Expired, LeaseOf
  <2> QED
    BY <1>1, <1>3, <2>2 DEF RequeueExpiredJobs, SameRow
<1>4. ASSUME NEW s \in Steps, ClaimCandidate(h, s) PROVE SameRow(job[b])
  <2>1. s # job[b]
    BY <1>1, <1>4 DEF ClaimCandidate, Claimable, Holds
  <2> QED
    BY <1>1, <1>4, <2>1 DEF ClaimCandidate, SameRow, TypeOK
<1> QED
  BY <1>2, <1>3, <1>4 DEF ClaimStep, ReceiveClaim, FindCandidates, SkipCandidate, NoJob, DropClaim

LEMMA CreateKeepsRow ==
  ASSUME TimelyInv, NEW b \in Agents, Working(b), NEW r \in Runs, CreateRun(r)
  PROVE  SameRow(job[b])
<1>1. Holds(b) /\ job[b] \in Steps
  BY WorkTypes DEF TimelyInv, WorkOK, Working
<1>2. RunOf[job[b]] # r
  BY <1>1 DEF CreateRun, Holds, TimelyInv, FInv, IInv, StepsExistWithRun
<1> QED
  BY <1>1, <1>2 DEF CreateRun, SameRow

LEMMA NextClock ==
  ASSUME FInv, [Next]_vars PROVE clock \in Nat /\ clock' \in Nat /\ clock' >= clock
<1>1. TypeOK /\ TypeOK' /\ QueueMoves
  BY NextType, StepsAreMoves DEF FInv, IInv
<1> QED
  BY <1>1, FleetNumbers DEF TypeOK, QueueMoves

-------------------------------------------------------------------------------
(* One agent acts: the others.                                             *)
LEMMA OthersAreSame ==
  ASSUME FInv, NEW a \in Agents, AgentStep(a), NEW b \in Agents, b # a
  PROVE  SameAgent(b)
<1>0. AgentTypes
  BY DEF FInv
<1> USE DEF SameAgent
<1>1. CASE Crash(a)
  BY <1>0, <1>1 DEF Crash, Forget, AgentTypes
<1>2. CASE Restart(a) \/ Stop(a) \/ StartJob(a) \/ LeaseTimer(a)
  BY <1>0, <1>2 DEF Restart, Stop, StartJob, LeaseTimer, AgentTypes
<1>3. ASSUME NEW h \in Handlers, SendClaim(a, h) PROVE SameAgent(b)
  BY <1>0, <1>3 DEF SendClaim, AgentTypes
<1>4. CASE BackToLoop(a)
  BY <1>0, <1>4 DEF BackToLoop, Forget, AgentTypes
<1>5. CASE ServeBeat(a)
  BY <1>0, <1>5 DEF ServeBeat, AgentTypes
<1>6. CASE BeatSucceeds(a) \/ BeatFails(a)
  BY <1>0, <1>6 DEF BeatSucceeds, BeatFails, EndBeat, AgentTypes
<1>7. ASSUME NEW outcome \in {"succeed", "fail"}, FinishHandler(a, outcome), ~BackToLoop(a)
      PROVE SameAgent(b)
  BY <1>0, <1>7 DEF FinishHandler, AgentTypes
<1> QED
  BY <1>1, <1>2, <1>3, <1>4, <1>5, <1>6, <1>7 DEF AgentStep, LoseClaim, ServeReport, LoseReport

(* What one agent sends leaves the claims of the others alone.             *)
LEMMA AgentKeepsRows ==
  ASSUME TimelyInv, NEW a \in Agents, AgentStep(a), NEW b \in Agents, b # a, Working(b)
  PROVE  SameRow(job[b])
<1>1. CASE UNCHANGED stepVars
  BY <1>1 DEF stepVars, SameRow
<1>2. CASE ServeBeat(a)
  <2>1. ASSUME NEW now, Heartbeat(a, job[a], token[a], now) PROVE SameRow(job[b])
    <3>1. Outcome("heartbeat", a, job[a], token[a], now)
      BY <2>1 DEF Outcome, Heartbeat
    <3> QED
      BY <3>1, ReportKeepsRow
  <2> QED
    BY <1>1, <1>2, <2>1 DEF ServeBeat, vars
<1>3. CASE ServeReport(a)
  BY <1>3, ReportKeepsRow DEF ServeReport
<1> QED
  BY <1>1, <1>2, <1>3
     DEF AgentStep, Crash, Restart, Stop, SendClaim, ReceiveClaim, LoseClaim, StartJob,
         LeaseTimer, BeatSucceeds, BeatFails, EndBeat, FinishHandler, LoseReport, vars

LEMMA LateOfOthers ==
  ASSUME NEW a \in Agents, AgentStep(a)
  PROVE  \A r \in late' : r \in late \/ r.agent = a
<1>1. late' \subseteq late \cup Abandoned(a)
  BY DEF AgentStep, Crash, Restart, Stop, SendClaim, LoseClaim, StartJob, LeaseTimer,
     ServeBeat, BeatSucceeds, BeatFails, EndBeat, FinishHandler, ServeReport, LoseReport, Abandon
<1> QED
  BY <1>1 DEF Abandoned

(* ... and the one that acts.                                              *)
LEMMA ActorWorks ==
  ASSUME Timely, TimelyInv, [Next]_vars, NEW a \in Agents, AgentStep(a)
  PROVE  WorkOK(a)'
<1>0. FInv /\ AgentTypes /\ AgentOK(a) /\ WorkOK(a)
  BY DEF TimelyInv, FInv
<1>n. /\ clock \in Nat /\ sentAt[a] \in Nat /\ nextBeat[a] \in Nat /\ beatAt[a] \in Nat
      /\ LeaseTime \in Nat /\ RequestTimeout \in Nat /\ HeartbeatInterval \in Nat
      /\ Working(a) => job[a] \in Steps /\ LeaseOf(a) \in Nat
      /\ beat[a] \in {"none", "sent", "ok", "rejected"}
  BY <1>0, WorkTypes DEF Working
<1>t. /\ mode[a] = "granted" => clock <= sentAt[a] + RequestTimeout
      /\ beat[a] # "none" => clock <= beatAt[a] + RequestTimeout
      /\ mode[a] = "running" /\ ~aborted[a] => clock <= nextBeat[a]
  BY DEF TimelyInv, OnTime
<1>1. CASE ~Working(a)'
  BY <1>1 DEF WorkOK
<1>2. CASE Crash(a) \/ BackToLoop(a) \/ Restart(a)
  <2>1. mode'[a] \in {"down", "idle"}
    BY <1>0, <1>2 DEF Crash, BackToLoop, Restart, AgentTypes
  <2> QED
    BY <1>1, <2>1 DEF Working
<1>3. CASE Stop(a)
  <2>1. CASE mode[a] \in {"running", "reporting", "idle", "claiming"}
    <3>1. mode'[a] \notin {"granted", "running"} \/ aborted'[a]
      BY <1>0, <1>3, <2>1 DEF Stop, AgentTypes
    <3> QED
      BY <1>1, <3>1 DEF Working
  <2>2. CASE mode[a] = "granted"
    <3>1. SameAgent(a) /\ late' = late /\ UNCHANGED <<clock, stepVars>>
      BY <1>0, <1>3, <2>2 DEF Stop, AgentTypes, SameAgent, vars
    <3>2. SameRow(job[a])
      BY <3>1 DEF SameRow, stepVars
    <3> QED
      BY <1>n, <3>1, <3>2, WorkStays
  <2> QED
    BY <1>0, <1>3, <2>1, <2>2 DEF Stop, AgentTypes
<1>4. ASSUME NEW h \in Handlers, SendClaim(a, h) PROVE WorkOK(a)'
  <2>1. mode'[a] = "claiming"
    BY <1>0, <1>4 DEF SendClaim, AgentTypes
  <2> QED
    BY <1>1, <2>1 DEF Working
<1>5. CASE StartJob(a) /\ Working(a)'
  <2>1. /\ mode[a] = "granted" /\ mode'[a] = "running" /\ beat[a] = "none"
        /\ nextBeat'[a] = clock + HeartbeatInterval
        /\ UNCHANGED <<clock, stepVars, job, token, aborted, beat, beatAt, late>>
    BY <1>0, <1>5 DEF StartJob, AgentTypes, AgentOK, vars
  <2>2. Working(a) /\ Holds(a)' /\ LeaseOf(a)' = LeaseOf(a)
    BY <1>0, <1>5, <2>1 DEF Working, WorkOK, Holds, LeaseOf, stepVars
  <2>3. Renewing(a)'
    BY <1>0, <1>n, <1>t, <2>1, <2>2 DEF WorkOK, Renewing
  <2> QED
    BY <1>0, <2>1, <2>2, <2>3 DEF WorkOK
<1>6. CASE LeaseTimer(a) /\ Working(a)'
  <2>1. /\ clock >= nextBeat[a]
        /\ nextBeat'[a] = clock + HeartbeatInterval
        /\ UNCHANGED <<clock, stepVars, mode, job, token, aborted, late>>
        /\ IF beat[a] = "none" THEN beat'[a] = "sent" /\ beatAt'[a] = clock
                               ELSE beat'[a] = beat[a] /\ beatAt'[a] = beatAt[a]
    BY <1>0, <1>6 DEF LeaseTimer, AgentTypes, vars
  <2>2. Working(a) /\ mode[a] = "running" /\ Holds(a)' /\ LeaseOf(a)' = LeaseOf(a)
    BY <1>0, <1>6, <2>1 DEF LeaseTimer, Working, WorkOK, Holds, LeaseOf, stepVars
  <2>3. Renewing(a)'
    BY <1>0, <1>n, <1>t, <2>1, <2>2 DEF WorkOK, Working, Renewing
  <2> QED
    BY <1>0, <2>1, <2>2, <2>3 DEF WorkOK
<1>7. CASE ServeBeat(a) /\ Working(a)'
  <2>1. /\ beat[a] = "sent"
        /\ UNCHANGED <<mode, job, token, aborted, nextBeat, beatAt, late>>
    BY <1>7 DEF ServeBeat
  <2>2. Working(a) /\ mode[a] = "running" /\ Holds(a) /\ LeaseOf(a) > clock
    BY <1>0, <1>7, <2>1, LeaseCovers DEF Working, AgentOK
  <2>3. PICK now \in beatAt[a]..clock :
          \/ /\ Heartbeat(a, job[a], token[a], now)
             /\ beat' = [beat EXCEPT ![a] = "ok"]
          \/ ~HoldsClaim(a, job[a], token[a], now)
    BY <1>7 DEF ServeBeat, Arrival
  <2>4. now \in Nat /\ beatAt[a] <= now /\ now <= clock
    BY <1>n, <2>3
  <2>5. HoldsClaim(a, job[a], token[a], now)
    <3>1. Serves(a, job[a])
      BY <1>n, <2>2 DEF Holds, TimelyInv, FInv, IInv, ClaimMatchesStatus
    <3> QED
      BY <1>n, <2>2, <2>4, <3>1 DEF Holds, HoldsClaim, LeaseOf
  <2>6. /\ Heartbeat(a, job[a], token[a], now) /\ beat'[a] = "ok"
    BY <1>0, <2>3, <2>5 DEF AgentTypes
  <2>7. /\ UNCHANGED <<clock, stepStatus, claimedBy, claimToken>>
        /\ leaseExpiresAt'[job[a]] = now + LeaseTime
    BY <1>n, <2>2, <2>6 DEF Heartbeat, FInv, IInv, TypeOK, TimelyInv
  <2>8. Holds(a)' /\ LeaseOf(a)' = now + LeaseTime
    BY <2>1, <2>2, <2>7 DEF Holds, LeaseOf
  <2>9. Renewing(a)'
    BY <1>0, <1>n, <2>1, <2>2, <2>4, <2>6, <2>7, <2>8 DEF WorkOK, Renewing
  <2> QED
    BY <1>0, <2>1, <2>2, <2>8, <2>9 DEF WorkOK
<1>8. CASE BeatSucceeds(a) /\ Working(a)'
  <2>1. /\ beat[a] = "ok" /\ beat'[a] = "none"
        /\ UNCHANGED <<clock, stepVars, mode, job, token, aborted, nextBeat, late>>
    BY <1>0, <1>8 DEF BeatSucceeds, EndBeat, AgentTypes, vars
  <2>2. Working(a) /\ mode[a] = "running" /\ Holds(a)' /\ LeaseOf(a)' = LeaseOf(a)
    BY <1>0, <1>8, <2>1 DEF Working, WorkOK, Holds, LeaseOf, stepVars, AgentOK
  <2>3. Renewing(a)'
    BY <1>0, <1>n, <1>t, <2>1, <2>2 DEF WorkOK, Working, Renewing
  <2> QED
    BY <1>0, <2>1, <2>2, <2>3 DEF WorkOK
<1>9. CASE BeatFails(a)
  <2>1. aborted'[a]
    BY <1>0, <1>9 DEF BeatFails, AgentTypes
  <2> QED
    BY <1>1, <2>1 DEF Working
<1>10. ASSUME NEW outcome \in {"succeed", "fail"}, FinishHandler(a, outcome), ~BackToLoop(a)
       PROVE WorkOK(a)'
  <2>1. mode'[a] = "reporting"
    BY <1>0, <1>10 DEF FinishHandler, AgentTypes
  <2> QED
    BY <1>1, <2>1 DEF Working
<1> QED
  BY <1>1, <1>2, <1>3, <1>4, <1>5, <1>6, <1>7, <1>8, <1>9, <1>10
     DEF AgentStep, LoseClaim, ServeReport, LoseReport

-------------------------------------------------------------------------------
(* Every step, for the agents that work.                                   *)
LEMMA GrantWorks ==
  ASSUME Timely, TimelyInv, [Next]_vars, NEW h \in Handlers, NEW s \in Steps,
         GrantClaim(h, s), NEW b \in Agents
  PROVE  WorkOK(b)'
<1>0. /\ FInv /\ AgentTypes /\ AgentOK(b) /\ Awaited(b) /\ h # NoHandler
      /\ ClaimCandidate(h, s) /\ late' = late
  BY TimerAssumption DEF TimelyInv, FInv, GrantClaim
<1>1. CASE waitsFor[b] # h
  <2>1. SameAgent(b)
    BY <1>0, <1>1 DEF GrantClaim, AgentTypes, SameAgent
  <2>2. ClaimStep(h)
    BY <1>0 DEF ClaimStep
  <2>3. Working(b) => SameRow(job[b])
    BY <2>2, ServerKeepsRow
  <2> QED
    BY <1>0, <2>1, <2>3, NextClock, WorkStays
<1>2. CASE waitsFor[b] = h
  <2>1. mode[b] = "claiming" /\ caller[h] = b /\ calledAt[h] = sentAt[b]
    BY <1>0, <1>2 DEF AgentOK, Awaited
  <2>2. /\ mode'[b] = "granted" /\ job'[b] = s /\ token'[b] = claimToken'[s]
        /\ sentAt'[b] = sentAt[b]
    BY <1>2, <2>1 DEF GrantClaim
  <2>3. /\ stepStatus'[s] = "RUNNING" /\ claimedBy'[s] = b
        /\ claimToken'[s] = attemptCount[s] + 1
        /\ leaseExpiresAt'[s] = sentAt[b] + LeaseTime
    BY <1>0, <2>1 DEF ClaimCandidate, FInv, IInv, TypeOK
  <2>4. \A r \in late : ~(r.agent = b /\ r.step = s /\ r.token = attemptCount[s] + 1)
    <3>1. attemptCount[s] \in Nat
      BY <1>0, BoundAssumption DEF FInv, IInv, TypeOK
    <3>2. \A r \in late : r.step = s => r.token \in 1..attemptCount[s]
      BY <1>0 DEF FInv, LateOK, Past
    <3> QED
      BY <3>1, <3>2
  <2>5. sentAt[b] + LeaseTime \in Nat
    BY <1>0, WorkTypes
  <2> QED
    BY <1>0, <2>2, <2>3, <2>4, <2>5 DEF WorkOK, Holds, LeaseOf
<1> QED
  BY <1>1, <1>2

LEMMA RefuseWorks ==
  ASSUME Timely, TimelyInv, [Next]_vars, NEW h \in Handlers, RefuseClaim(h), NEW b \in Agents
  PROVE  WorkOK(b)'
<1>0. FInv /\ AgentTypes /\ late' = late
  BY DEF TimelyInv, FInv, RefuseClaim, agentVars
<1>1. CASE SameAgent(b)
  <2>1. Working(b) => SameRow(job[b])
    BY ServerKeepsRow DEF RefuseClaim, ClaimStep
  <2> QED
    BY <1>0, <1>1, <2>1, NextClock, WorkStays
<1>2. CASE BackToLoop(b)
  <2>1. mode'[b] \in {"down", "idle"}
    BY <1>0, <1>2 DEF BackToLoop, AgentTypes
  <2> QED
    BY <2>1 DEF WorkOK, Working
<1>3. CASE UNCHANGED agentVars
  BY <1>1, <1>3 DEF agentVars, SameAgent
<1>4. ASSUME NEW a \in Agents, BackToLoop(a), a # b PROVE SameAgent(b)
  BY <1>0, <1>4 DEF BackToLoop, Forget, AgentTypes, SameAgent
<1> QED
  BY <1>1, <1>2, <1>3, <1>4 DEF RefuseClaim

LEMMA WorkKept ==
  ASSUME Timely, TimelyInv, [FleetNext]_fleetVars, NEW b \in Agents
  PROVE  WorkOK(b)'
<1>0. FInv /\ [Next]_vars /\ clock' \in Nat /\ clock' >= clock
  BY FleetStepsAreQueueSteps, NextClock DEF TimelyInv
<1>1. ASSUME UNCHANGED agentVars, Working(b) => SameRow(job[b]) PROVE WorkOK(b)'
  BY <1>0, <1>1, WorkStays DEF agentVars, SameAgent
<1>2. ASSUME UNCHANGED stepVars PROVE SameRow(job[b])
  BY <1>2 DEF stepVars, SameRow
<1>3. CASE FleetTick \/ UNCHANGED fleetVars
  BY <1>1, <1>2, <1>3 DEF FleetTick, Tick, fleetVars, vars
<1>4. ASSUME NEW r \in Runs, FleetCreateRun(r) PROVE WorkOK(b)'
  BY <1>1, <1>4, CreateKeepsRow DEF FleetCreateRun
<1>5. ASSUME NEW h \in Handlers, ServeClaim(h) PROVE WorkOK(b)'
  <2>1. ClaimStep(h)
    BY <1>5 DEF ServeClaim, ClaimStep
  <2> QED
    BY <1>1, <1>5, <2>1, ServerKeepsRow DEF ServeClaim
<1>6. ASSUME NEW a \in Agents, AgentStep(a) PROVE WorkOK(b)'
  <2>1. CASE a = b
    BY <1>0, <1>6, <2>1, ActorWorks
  <2>2. CASE a # b
    <3>1. SameAgent(b) /\ (Working(b) => SameRow(job[b]))
      BY <1>0, <1>6, <2>2, OthersAreSame, AgentKeepsRows
    <3>2. \A r \in late' : r \in late \/ r.agent # b
      BY <1>6, <2>2, LateOfOthers
    <3> QED
      BY <1>0, <3>1, <3>2, WorkStays
  <2> QED
    BY <2>1, <2>2
<1>7. ASSUME NEW r \in late, ServeLate(r) PROVE WorkOK(b)'
  <2>1. SameAgent(b) /\ late' \subseteq late
    BY <1>7 DEF ServeLate, SameAgent
  <2>2. ASSUME Working(b) PROVE SameRow(job[b])
    <3>1. r.agent # b \/ r.step # job[b] \/ r.token # token[b]
      BY <2>2 DEF TimelyInv, WorkOK
    <3>2. ASSUME NEW now \in Arrival(r.since),
                 Outcome(r.kind, r.agent, r.step, r.token, now)
          PROVE SameRow(job[b])
      BY <2>2, <3>1, <3>2, ReportKeepsRow
    <3>3. CASE UNCHANGED vars
      BY <1>2, <3>3 DEF vars
    <3> QED
      BY <1>7, <3>2, <3>3 DEF ServeLate
  <2> QED
    BY <1>0, <2>1, <2>2, WorkStays
<1> QED
  BY <1>0, <1>3, <1>4, <1>5, <1>6, <1>7, GrantWorks, RefuseWorks DEF FleetNext, ServerStep

-------------------------------------------------------------------------------
(* ... for those that wait for a claim.                                    *)
SameWait(b) == UNCHANGED <<mode[b], waitsFor[b], sentAt[b]>>

LEMMA AwaitedStays ==
  ASSUME NEW b \in Agents, Awaited(b), mode'[b] = "claiming" => SameWait(b),
         mode[b] = "claiming" /\ mode'[b] = "claiming" =>
            /\ phase'[waitsFor[b]] # "idle"
            /\ caller'[waitsFor[b]] = caller[waitsFor[b]]
            /\ calledAt'[waitsFor[b]] = calledAt[waitsFor[b]]
  PROVE  Awaited(b)'
<1> SUFFICES ASSUME mode'[b] = "claiming"
             PROVE  /\ waitsFor'[b] \in Handlers /\ phase'[waitsFor'[b]] # "idle"
                    /\ caller'[waitsFor'[b]] = b /\ calledAt'[waitsFor'[b]] = sentAt'[b]
  BY DEF Awaited
<1>1. mode[b] = "claiming" /\ waitsFor'[b] = waitsFor[b] /\ sentAt'[b] = sentAt[b]
  BY DEF SameWait
<1> QED
  BY <1>1 DEF Awaited

LEMMA ActorAwaits ==
  ASSUME TimelyInv, NEW a \in Agents, AgentStep(a)
  PROVE  \/ UNCHANGED claimVars /\ (mode'[a] = "claiming" => SameWait(a))
         \/ /\ \E h \in Handlers : SendClaim(a, h)
            /\ Awaited(a)'
<1>0. AgentTypes /\ AgentOK(a) /\ TypeOK
  BY DEF TimelyInv, FInv, IInv
<1>1. CASE Crash(a) \/ Restart(a) \/ StartJob(a) \/ LeaseTimer(a) \/ Stop(a)
  BY <1>0, <1>1 DEF Crash, Restart, StartJob, LeaseTimer, Stop, AgentTypes, SameWait, vars
<1>2. CASE LoseClaim(a) \/ LoseReport(a)
  BY <1>0, <1>2 DEF LoseClaim, LoseReport, BackToLoop, AgentTypes, vars
<1>3. CASE ServeBeat(a)
  BY <1>0, <1>3 DEF ServeBeat, Heartbeat, SameWait, vars
<1>4. CASE BeatSucceeds(a) \/ BeatFails(a)
  BY <1>0, <1>4 DEF BeatSucceeds, BeatFails, EndBeat, SameWait, vars
<1>5. ASSUME NEW outcome \in {"succeed", "fail"}, FinishHandler(a, outcome)
      PROVE UNCHANGED claimVars /\ (mode'[a] = "claiming" => SameWait(a))
  BY <1>0, <1>5 DEF FinishHandler, BackToLoop, AgentTypes, vars
<1>6. CASE ServeReport(a)
  <2>1. mode'[a] # "claiming"
    BY <1>0, <1>6 DEF ServeReport, BackToLoop, AgentTypes
  <2>2. UNCHANGED claimVars
    BY <1>6 DEF ServeReport, Outcome, Heartbeat, Succeed, Fail, EndStep, vars
  <2> QED
    BY <2>1, <2>2
<1>7. ASSUME NEW h \in Handlers, SendClaim(a, h) PROVE Awaited(a)'
  BY <1>0, <1>7 DEF SendClaim, ReceiveClaim, AgentTypes, TypeOK, Awaited
<1> QED
  BY <1>1, <1>2, <1>3, <1>4, <1>5, <1>6, <1>7 DEF AgentStep

LEMMA AwaitedKept ==
  ASSUME TimelyInv, [FleetNext]_fleetVars, NEW b \in Agents
  PROVE  Awaited(b)'
<1>0. FInv /\ AgentTypes /\ TypeOK /\ Awaited(b)
  BY DEF TimelyInv, FInv, IInv
<1>1. ASSUME UNCHANGED claimVars, mode'[b] = "claiming" => SameWait(b) PROVE Awaited(b)'
  BY <1>0, <1>1, AwaitedStays DEF claimVars, Awaited
<1>2. ASSUME UNCHANGED agentVars PROVE SameWait(b)
  BY <1>2 DEF agentVars, SameWait
<1>3. CASE FleetTick \/ UNCHANGED fleetVars
  BY <1>1, <1>2, <1>3 DEF FleetTick, Tick, fleetVars, vars
<1>4. ASSUME NEW r \in Runs, FleetCreateRun(r) PROVE Awaited(b)'
  BY <1>1, <1>2, <1>4 DEF FleetCreateRun, CreateRun
<1>5. ASSUME NEW h \in Handlers, ServeClaim(h) PROVE Awaited(b)'
  <2>1. SameWait(b) /\ UNCHANGED <<caller, calledAt>>
    BY <1>2, <1>5 DEF ServeClaim, RequeueExpiredJobs, FindCandidates, SkipCandidate
  <2>2. \A g \in Handlers : phase[g] # "idle" => phase'[g] # "idle"
    BY <1>0, <1>5 DEF ServeClaim, RequeueExpiredJobs, FindCandidates, SkipCandidate, TypeOK
  <2> QED
    BY <1>0, <2>1, <2>2, AwaitedStays DEF Awaited
<1>6. ASSUME NEW h \in Handlers, Answer(h), mode'[b] = "claiming" => SameWait(b),
             mode'[b] = "claiming" => waitsFor[b] # h
      PROVE Awaited(b)'
  <2>1. \A g \in Handlers : g # h => /\ phase'[g] = phase[g] /\ caller'[g] = caller[g]
                                     /\ calledAt'[g] = calledAt[g]
    BY <1>0, <1>6 DEF Answer, TypeOK
  <2> QED
    BY <1>0, <1>6, <2>1, AwaitedStays DEF Awaited
<1>7. ASSUME NEW h \in Handlers, NEW s \in Steps, GrantClaim(h, s) PROVE Awaited(b)'
  <2>1. waitsFor[b] = h => mode'[b] = "granted"
    BY <1>7 DEF GrantClaim
  <2>2. waitsFor[b] # h => SameWait(b)
    BY <1>0, <1>7 DEF GrantClaim, AgentTypes, SameWait
  <2> QED
    BY <1>6, <1>7, <2>1, <2>2 DEF GrantClaim, ClaimCandidate
<1>8. ASSUME NEW h \in Handlers, RefuseClaim(h) PROVE Awaited(b)'
  <2>1. Answer(h)
    BY <1>8 DEF RefuseClaim, NoJob, DropClaim
  <2>2. CASE UNCHANGED agentVars /\ \A a \in Agents : waitsFor[a] # h
    BY <1>2, <1>6, <2>1, <2>2
  <2>3. ASSUME NEW a \in Agents, waitsFor[a] = h, BackToLoop(a) PROVE Awaited(b)'
    <3>1. a = b => mode'[b] # "claiming"
      BY <1>0, <2>3 DEF BackToLoop, AgentTypes
    <3>2. a # b => SameWait(b)
      BY <1>0, <2>3 DEF BackToLoop, Forget, AgentTypes, SameWait
    <3>3. mode[a] = "claiming" /\ caller[h] = a
      BY <1>0, <2>3, TimerAssumption DEF FInv, AgentOK, TimelyInv, Awaited
    <3>4. a # b /\ mode'[b] = "claiming" => waitsFor[b] # h
      BY <1>0, <3>2, <3>3 DEF Awaited, SameWait
    <3> QED
      BY <1>6, <2>1, <3>1, <3>2, <3>4
  <2> QED
    BY <1>8, <2>2, <2>3 DEF RefuseClaim
<1>9. ASSUME NEW a \in Agents, AgentStep(a) PROVE Awaited(b)'
  <2>1. CASE a = b
    BY <1>1, <1>9, <2>1, ActorAwaits
  <2>2. CASE a # b
    <3>1. SameWait(b)
      BY <1>0, <1>9, <2>2, OthersAreSame DEF SameAgent, SameWait
    <3>2. ASSUME NEW h \in Handlers, SendClaim(a, h) PROVE Awaited(b)'
      <4>1. \A g \in Handlers : phase[g] # "idle" =>
                /\ phase'[g] = phase[g] /\ caller'[g] = caller[g]
                /\ calledAt'[g] = calledAt[g]
        BY <1>0, <3>2 DEF SendClaim, ReceiveClaim, TypeOK
      <4> QED
        BY <1>0, <3>1, <4>1, AwaitedStays DEF Awaited
    <3> QED
      BY <1>1, <1>9, <3>1, <3>2, ActorAwaits
  <2> QED
    BY <2>1, <2>2
<1>10. ASSUME NEW r \in late, ServeLate(r) PROVE Awaited(b)'
  <2>1. UNCHANGED claimVars
    BY <1>10 DEF ServeLate, Outcome, Heartbeat, Succeed, Fail, EndStep, vars
  <2> QED
    BY <1>1, <1>10, <2>1 DEF ServeLate, SameWait
<1> QED
  BY <1>3, <1>4, <1>5, <1>7, <1>8, <1>9, <1>10 DEF FleetNext, ServerStep

-------------------------------------------------------------------------------
(* ... and for the clock.                                                  *)
OnTimeOf(a) ==
    /\ mode[a] \in {"claiming", "granted", "reporting"} => clock <= sentAt[a] + RequestTimeout
    /\ beat[a] # "none" => clock <= beatAt[a] + RequestTimeout
    /\ mode[a] \in {"running", "reporting"} /\ ~aborted[a] => clock <= nextBeat[a]

LEMMA ActorIsOnTime ==
  ASSUME TimelyInv, NEW a \in Agents, AgentStep(a), clock' = clock
  PROVE  OnTimeOf(a)'
<1>0. AgentTypes /\ AgentOK(a) /\ OnTimeOf(a)
  BY DEF TimelyInv, FInv, OnTime, OnTimeOf
<1>n. /\ clock \in Nat /\ RequestTimeout \in Nat /\ HeartbeatInterval \in Nat
      /\ clock <= clock + RequestTimeout /\ clock <= clock + HeartbeatInterval
  BY WorkTypes DEF TimelyInv
<1> USE DEF OnTimeOf
<1>1. CASE BackToLoop(a) \/ Crash(a)
  <2>1. mode'[a] \in {"down", "idle"} /\ beat'[a] = "none"
    BY <1>0, <1>1 DEF BackToLoop, Crash, Forget, AgentTypes
  <2> QED
    BY <2>1
<1>2. CASE Restart(a)
  <2>1. mode'[a] = "idle" /\ beat'[a] = "none"
    BY <1>0, <1>2 DEF Restart, AgentTypes, AgentOK
  <2> QED
    BY <2>1
<1>3. CASE Stop(a)
  <2>1. /\ mode'[a] # mode[a] => mode'[a] = "down"
        /\ UNCHANGED <<sentAt, beat, beatAt, nextBeat>>
    BY <1>0, <1>3 DEF Stop, AgentTypes
  <2>2. aborted[a] => aborted'[a]
    BY <1>0, <1>3 DEF Stop, AgentTypes
  <2> QED
    BY <1>0, <2>1, <2>2
<1>4. ASSUME NEW h \in Handlers, SendClaim(a, h) PROVE OnTimeOf(a)'
  <2>1. mode'[a] = "claiming" /\ beat'[a] = "none" /\ sentAt'[a] = clock
    BY <1>0, <1>4 DEF SendClaim, AgentTypes, AgentOK
  <2> QED
    BY <1>n, <2>1
<1>5. CASE StartJob(a)
  <2>1. /\ mode'[a] = "running" /\ beat'[a] = "none"
        /\ nextBeat'[a] = clock + HeartbeatInterval
    BY <1>0, <1>5 DEF StartJob, AgentTypes, AgentOK
  <2> QED
    BY <1>n, <2>1
<1>6. CASE LeaseTimer(a)
  <2>1. /\ UNCHANGED <<mode, aborted, sentAt>>
        /\ nextBeat'[a] = clock + HeartbeatInterval
        /\ IF beat[a] = "none" THEN beatAt'[a] = clock
                               ELSE UNCHANGED <<beat, beatAt>>
    BY <1>0, <1>6 DEF LeaseTimer, AgentTypes
  <2> QED
    BY <1>0, <1>n, <2>1
<1>7. CASE ServeBeat(a)
  BY <1>0, <1>7 DEF ServeBeat
<1>8. CASE BeatSucceeds(a) \/ BeatFails(a)
  <2>1. /\ UNCHANGED <<mode, sentAt, nextBeat>> /\ beat'[a] = "none"
        /\ aborted[a] => aborted'[a]
    BY <1>0, <1>8 DEF BeatSucceeds, BeatFails, EndBeat, AgentTypes
  <2> QED
    BY <1>0, <2>1
<1>9. ASSUME NEW outcome \in {"succeed", "fail"}, FinishHandler(a, outcome), ~BackToLoop(a)
      PROVE OnTimeOf(a)'
  <2>1. /\ mode[a] = "running" /\ mode'[a] = "reporting" /\ sentAt'[a] = clock
        /\ UNCHANGED <<aborted, beat, beatAt, nextBeat>>
    BY <1>0, <1>9 DEF FinishHandler, AgentTypes
  <2> QED
    BY <1>0, <1>n, <2>1
<1> QED
  BY <1>1, <1>2, <1>3, <1>4, <1>5, <1>6, <1>7, <1>8, <1>9
     DEF AgentStep, LoseClaim, ServeReport, LoseReport

LEMMA OnTimeKept ==
  ASSUME Timely, TimelyInv, [FleetNext]_fleetVars
  PROVE  OnTime(clock)'
<1>0. FInv /\ AgentTypes /\ \A b \in Agents : OnTimeOf(b)
  BY DEF TimelyInv, FInv, OnTime, OnTimeOf
<1>1. CASE FleetTick
  BY <1>1 DEF FleetTick, Timely, OnTime, agentVars
<1>2. ASSUME NEW b \in Agents, SameAgent(b), clock' = clock PROVE OnTimeOf(b)'
  BY <1>0, <1>2 DEF OnTimeOf, SameAgent
<1>3. ASSUME ~FleetTick PROVE clock' = clock
  <2>1. ASSUME NEW r \in Runs, FleetCreateRun(r) PROVE clock' = clock
    BY <2>1 DEF FleetCreateRun, CreateRun
  <2>2. ASSUME NEW h \in Handlers, ServerStep(h) PROVE clock' = clock
    BY <2>2 DEF ServerStep, ServeClaim, RequeueExpiredJobs, FindCandidates, SkipCandidate,
       GrantClaim, ClaimCandidate, RefuseClaim, NoJob, DropClaim
  <2>3. ASSUME NEW kind, NEW a, NEW s, NEW n, NEW now, Outcome(kind, a, s, n, now)
        PROVE clock' = clock
    BY <2>3 DEF Outcome, Heartbeat, Succeed, Fail, EndStep, vars
  <2>4. ASSUME NEW a \in Agents, AgentStep(a) PROVE clock' = clock
    BY <2>3, <2>4 DEF AgentStep, Crash, Restart, Stop, SendClaim, ReceiveClaim, LoseClaim,
       StartJob, LeaseTimer, ServeBeat, Heartbeat, BeatSucceeds, BeatFails, EndBeat,
       FinishHandler, ServeReport, LoseReport, vars
  <2>5. ASSUME NEW r \in late, ServeLate(r) PROVE clock' = clock
    BY <2>3, <2>5 DEF ServeLate, vars
  <2> QED
    BY <1>3, <2>1, <2>2, <2>4, <2>5 DEF FleetNext, fleetVars, vars
<1>4. ASSUME ~FleetTick, NEW b \in Agents PROVE OnTimeOf(b)'
  <2>1. clock' = clock
    BY <1>3, <1>4
  <2>2. CASE SameAgent(b)
    BY <1>2, <2>1, <2>2
  <2>3. CASE UNCHANGED agentVars
    BY <2>2, <2>3 DEF agentVars, SameAgent
  <2>4. ASSUME NEW a \in Agents, AgentStep(a) PROVE OnTimeOf(b)'
    BY <1>0, <2>1, <2>2, <2>4, ActorIsOnTime, OthersAreSame
  <2>5. ASSUME NEW h \in Handlers, NEW s \in Steps, GrantClaim(h, s) PROVE OnTimeOf(b)'
    <3>1. CASE waitsFor[b] = h
      <4>1. mode[b] = "claiming" /\ beat[b] = "none"
        BY <1>0, <3>1, TimerAssumption DEF FInv, AgentOK
      <4>2. mode'[b] = "granted" /\ UNCHANGED <<sentAt, beat>>
        BY <2>5, <3>1 DEF GrantClaim
      <4> QED
        BY <1>0, <2>1, <4>1, <4>2 DEF OnTimeOf
    <3>2. CASE waitsFor[b] # h
      BY <1>0, <2>2, <2>5, <3>2 DEF GrantClaim, AgentTypes, SameAgent
    <3> QED
      BY <3>1, <3>2
  <2>6. ASSUME NEW a \in Agents, BackToLoop(a) PROVE OnTimeOf(b)'
    <3>1. CASE a = b
      <4>1. mode'[b] \in {"down", "idle"} /\ beat'[b] = "none"
        BY <1>0, <2>6, <3>1 DEF BackToLoop, Forget, AgentTypes
      <4> QED
        BY <4>1 DEF OnTimeOf
    <3>2. CASE a # b
      BY <1>0, <2>2, <2>6, <3>2 DEF BackToLoop, Forget, AgentTypes, SameAgent
    <3> QED
      BY <3>1, <3>2
  <2>7. ASSUME NEW r \in late, ServeLate(r) PROVE SameAgent(b)
    BY <2>7 DEF ServeLate, SameAgent
  <2> QED
    BY <1>4, <2>2, <2>3, <2>4, <2>5, <2>6, <2>7
       DEF FleetNext, FleetCreateRun, ServerStep, ServeClaim, RefuseClaim, fleetVars
<1> QED
  BY <1>1, <1>4 DEF OnTime, OnTimeOf

-------------------------------------------------------------------------------
LEMMA TimelyInit == FleetInit => TimelyInv
<1> SUFFICES ASSUME FleetInit PROVE TimelyInv
  OBVIOUS
<1>1. FInv
  BY FleetInitInv
<1>2. OnTime(clock)
  BY DEF FleetInit, OnTime
<1>3. \A a \in Agents : Awaited(a) /\ WorkOK(a)
  BY DEF FleetInit, Awaited, WorkOK, Working
<1> QED
  BY <1>1, <1>2, <1>3 DEF TimelyInv

LEMMA TimelyNext == ASSUME Timely, TimelyInv, [FleetNext]_fleetVars PROVE TimelyInv'
<1>1. FInv'
  BY FleetNextInv DEF TimelyInv
<1> QED
  BY <1>1, OnTimeKept, AwaitedKept, WorkKept DEF TimelyInv

(* An agent whose timers fire when they are due holds the lease of the     *)
(* step it works on, provided the lease outlasts a heartbeat interval and  *)
(* two request timeouts: for any number of agents, runs and requests on    *)
(* their way, as long as its handler has not been told to stop.  One that  *)
(* was told may still be at work when the step is given to another agent.  *)
THEOREM WorkersKeepTheirClaim == ASSUME Timely PROVE FleetSpec => []WorkersHoldTheirClaim
<1>1. TimelyInv => WorkersHoldTheirClaim
  BY LeaseCovers DEF WorkersHoldTheirClaim, Working, Holds, LeaseOf
<1>2. TimelyInv /\ [FleetNext]_fleetVars => TimelyInv'
  BY TimelyNext
<1> QED
  BY <1>1, <1>2, TimelyInit, PTL DEF FleetSpec

(* With such agents no two handlers are ever at work for one run: the next *)
(* step is not given out before the handler of the last is over or has     *)
(* been told to stop.                                                      *)
THEOREM RunsHaveOneWorker == ASSUME Timely PROVE FleetSpec => []OneWorkerPerRun
<1>1. ASSUME TimelyInv PROVE OneWorkerPerRun
  <2> SUFFICES ASSUME NEW a \in Agents, NEW b \in Agents,
                      mode[a] = "running", ~aborted[a], mode[b] = "running", ~aborted[b],
                      RunOf[job[a]] = RunOf[job[b]]
               PROVE  a = b
    BY DEF OneWorkerPerRun
  <2>1. Working(a) /\ Working(b)
    BY DEF Working
  <2>2. Holds(a) /\ Holds(b) /\ job[a] \in Steps /\ job[b] \in Steps
    BY <1>1, <2>1, WorkTypes DEF TimelyInv, WorkOK
  <2>3. job[a] = job[b]
    BY <1>1, <2>2, OneAtWork DEF TimelyInv, FInv, Holds
  <2> QED
    BY <2>2, <2>3 DEF Holds
<1>2. TimelyInv /\ [FleetNext]_fleetVars => TimelyInv'
  BY TimelyNext
<1> QED
  BY <1>1, <1>2, TimelyInit, PTL DEF FleetSpec

-------------------------------------------------------------------------------
(* The order of the work.  A handler that is still busy with a claim it    *)
(* lost long ago is not ahead of its run: when the step was granted the    *)
(* earlier ones had succeeded, and no success is ever taken back.          *)

Busy(a) == mode[a] \in {"granted", "running", "reporting"}

PredecessorsDone ==
    \A a \in Agents, t \in Steps :
        Busy(a) /\ Earlier(t, job[a]) => stepStatus[t] = "SUCCEEDED"

(* An agent has a step because it had it before, or because of a grant.    *)
LEMMA JobsComeFromGrants ==
  ASSUME FInv, [FleetNext]_fleetVars, NEW b \in Agents, Busy(b)'
  PROVE  \/ Busy(b) /\ job'[b] = job[b]
         \/ job'[b] \in Steps /\ stepStatus'[job'[b]] = "RUNNING"
<1>0. AgentTypes /\ TypeOK /\ AgentOK(b)
  BY DEF FInv, IInv
<1>1. CASE UNCHANGED <<mode, job>>
  BY <1>1 DEF Busy
<1>2. ASSUME NEW a \in Agents, AgentStep(a), a # b
      PROVE  Busy(b) /\ job'[b] = job[b]
  <2>1. SameAgent(b)
    BY <1>2, OthersAreSame
  <2> QED
    BY <2>1 DEF SameAgent, Busy
<1>3. CASE AgentStep(b)
  <2>1. CASE Crash(b)
    BY <1>0, <2>1 DEF Crash, AgentTypes, Busy
  <2>2. CASE BackToLoop(b)
    BY <1>0, <2>2 DEF BackToLoop, AgentTypes, Busy
  <2>3. CASE Restart(b) \/ Stop(b) \/ StartJob(b)
    BY <1>0, <2>3 DEF Restart, Stop, StartJob, AgentTypes, Busy
  <2>4. ASSUME NEW h \in Handlers, SendClaim(b, h) PROVE FALSE
    BY <1>0, <2>4 DEF SendClaim, AgentTypes, Busy
  <2>5. ASSUME NEW outcome \in {"succeed", "fail"}, FinishHandler(b, outcome), ~BackToLoop(b)
        PROVE  Busy(b) /\ job'[b] = job[b]
    BY <2>5 DEF FinishHandler, Busy
  <2>6. CASE UNCHANGED <<mode, job>>
    BY <2>6 DEF Busy
  <2> QED
    BY <1>3, <2>1, <2>2, <2>3, <2>4, <2>5, <2>6
       DEF AgentStep, LoseClaim, LeaseTimer, ServeBeat, BeatSucceeds, BeatFails, EndBeat,
           ServeReport, LoseReport
<1>4. ASSUME NEW h \in Handlers, NEW s \in Steps, GrantClaim(h, s)
      PROVE  \/ Busy(b) /\ job'[b] = job[b]
             \/ job'[b] \in Steps /\ stepStatus'[job'[b]] = "RUNNING"
  <2>1. CASE waitsFor[b] = h
    <3>1. job'[b] = s
      BY <2>1, <1>4 DEF GrantClaim
    <3>2. stepStatus'[s] = "RUNNING"
      BY <1>0, <1>4 DEF GrantClaim, ClaimCandidate, TypeOK
    <3> QED
      BY <3>1, <3>2
  <2>2. CASE waitsFor[b] # h
    BY <1>0, <1>4, <2>2 DEF GrantClaim, AgentTypes, Busy
  <2> QED
    BY <2>1, <2>2
<1>5. ASSUME NEW h \in Handlers, RefuseClaim(h)
      PROVE  Busy(b) /\ job'[b] = job[b]
  <2>1. ASSUME NEW a \in Agents, BackToLoop(a) PROVE Busy(b) /\ job'[b] = job[b]
    BY <1>0, <2>1 DEF BackToLoop, Forget, AgentTypes, Busy
  <2> QED
    BY <1>1, <1>5, <2>1 DEF RefuseClaim, agentVars, Busy
<1> QED
  BY <1>1, <1>2, <1>3, <1>4, <1>5
     DEF FleetNext, FleetTick, FleetCreateRun, ServerStep, ServeClaim, ServeLate,
         agentVars, fleetVars

LEMMA PredecessorsStayDone ==
  ASSUME FInv, PredecessorsDone, [FleetNext]_fleetVars PROVE PredecessorsDone'
<1> SUFFICES ASSUME NEW b \in Agents, NEW t \in Steps, Busy(b)', Earlier(t, job'[b])
             PROVE  stepStatus'[t] = "SUCCEEDED"
  BY DEF PredecessorsDone, Earlier
<1>1. [Next]_vars /\ IInv /\ IInv'
  BY FleetStepsAreQueueSteps, FleetNextInv DEF FInv
<1>2. CASE Busy(b) /\ job'[b] = job[b]
  <2>1. stepStatus[t] = "SUCCEEDED"
    BY <1>2 DEF PredecessorsDone
  <2>2. OutcomeIsFinal \/ UNCHANGED vars
    BY <1>1, StepKeepsOutcomes
  <2> QED
    BY <2>1, <2>2 DEF OutcomeIsFinal, vars, stepVars
<1>3. CASE job'[b] \in Steps /\ stepStatus'[job'[b]] = "RUNNING"
  BY <1>1, <1>3 DEF IInv, SequentialExecution, Earlier
<1> QED
  BY <1>2, <1>3, JobsComeFromGrants

(* Whatever is lost or late, and whether or not timers are punctual: while *)
(* an agent has a step, every earlier step of the run has been completed   *)
(* by a handler under its last claim, and stays so.                        *)
THEOREM WorkFollowsTheRun == FleetSpec => []WorkIsInOrder
<1>1. FleetInit => PredecessorsDone
  BY DEF FleetInit, PredecessorsDone, Busy
<1>2. FInv /\ PredecessorsDone /\ [FleetNext]_fleetVars => PredecessorsDone'
  BY PredecessorsStayDone
<1>3. FInv /\ PredecessorsDone => WorkIsInOrder
  BY DEF FInv, PredecessorsDone, SuccessIsEarned, WorkIsInOrder, Busy
<1> QED
  BY <1>1, <1>2, <1>3, FleetInvariance, PTL DEF FleetSpec

(* The fleet as a whole implements the abstract runs: a run is a sequence  *)
(* of steps with one holder at a time, whatever agents and network do.     *)
THEOREM FleetImplementsRuns == FleetSpec => ImplementsSequentialRuns
BY FleetImplementsQueue, QueueImplementsRuns, PTL

(* A run the panel shows as SUCCEEDED was really carried out: for each of  *)
(* its steps a handler completed, under the last claim of the step.        *)
RunsAreEarned ==
    \A r \in Runs : runStatus[r] = "SUCCEEDED" =>
        \A s \in StepsOf(r) : <<s, attemptCount[s]>> \in finished

THEOREM SucceededRunsWereDone == FleetSpec => []RunsAreEarned
<1>1. FInv => RunsAreEarned
  BY DEF FInv, IInv, RunMatchesSteps, SuccessIsEarned, RunsAreEarned, StepsOf
<1> QED
  BY <1>1, FleetInvariance, PTL
===============================================================================
