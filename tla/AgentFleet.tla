----------------------------- MODULE AgentFleet -----------------------------
(***************************************************************************)
(* The job queue together with the agents that call it: the job loop of    *)
(* AgentRuntime (apps/agent/src/runtime/agent-runtime.ts), one job at a    *)
(* time, with a timer that renews the lease while the handler works.       *)
(*                                                                         *)
(* Requests and answers may be lost or late.  An agent that gives up on a  *)
(* request (AgentApiClient's timeout, or any other error) does not stop    *)
(* the API from executing it: the request stays in `late` and may take     *)
(* effect at any later time, or never.  A claim given to an agent that no  *)
(* longer waits for it is held by nobody until its lease runs out.         *)
(*                                                                         *)
(* With Punctual, timers fire and requests end when they are due: what is  *)
(* expected of an agent whose event loop and clock are not held up.        *)
(* Without it, anything may take any time.                                 *)
(***************************************************************************)
EXTENDS JobQueue

CONSTANTS
    NoHandler,
    NoStep,
    HeartbeatInterval,  \* jobHeartbeatIntervalMs
    RequestTimeout,     \* requestTimeoutMs
    Punctual,
    MaxLate             \* bound: late requests on their way; further ones are lost

ASSUME TimerAssumption ==
    /\ NoHandler \notin Handlers
    /\ NoStep \notin Steps
    /\ HeartbeatInterval \in Nat \ {0}
    /\ RequestTimeout \in Nat
    /\ Punctual \in BOOLEAN
    /\ MaxLate \in Nat

VARIABLES
    mode,      \* where the job loop of each agent is
    stopping,  \* the runtime signal is aborted
    waitsFor,  \* the handler of the awaited claimNext
    sentAt,    \* when the awaited claim or report was sent
    job,       \* the step the agent was given
    token,     \* ... and the claim token it came with
    aborted,   \* jobController.signal.aborted
    lost,      \* leaseFailure is set
    nextBeat,  \* when the lease timer fires next
    beat,      \* the lease heartbeat under way
    beatAt,    \* ... and when it was sent
    report,    \* the outcome being reported
    late,      \* requests nobody waits for any more
    finished   \* history: the claims whose handler completed

agentVars == <<mode, stopping, waitsFor, sentAt, job, token, aborted, lost,
               nextBeat, beat, beatAt, report, late, finished>>
fleetVars == <<vars, agentVars>>

LateRequests == [kind : {"heartbeat", "succeed", "fail"}, agent : Agents,
                 step : Steps, token : 1..MaxAttempts, since : 0..MaxClock]

FleetTypeOK ==
    /\ TypeOK
    /\ mode \in [Agents -> {"down", "idle", "claiming", "granted", "running",
                            "reporting"}]
    /\ stopping \in [Agents -> BOOLEAN]
    /\ waitsFor \in [Agents -> Handlers \cup {NoHandler}]
    /\ sentAt \in [Agents -> 0..MaxClock]
    /\ job \in [Agents -> Steps \cup {NoStep}]
    /\ token \in [Agents -> 0..MaxAttempts]
    /\ aborted \in [Agents -> BOOLEAN]
    /\ lost \in [Agents -> BOOLEAN]
    /\ nextBeat \in [Agents -> 0..(MaxClock + HeartbeatInterval)]
    /\ beat \in [Agents -> {"none", "sent", "ok", "rejected"}]
    /\ beatAt \in [Agents -> 0..MaxClock]
    /\ report \in [Agents -> {"none", "succeed", "fail"}]
    /\ late \subseteq LateRequests
    /\ finished \subseteq (Steps \X (1..MaxAttempts))

FleetInit ==
    /\ Init
    /\ mode = [a \in Agents |-> "idle"]
    /\ stopping = [a \in Agents |-> FALSE]
    /\ waitsFor = [a \in Agents |-> NoHandler]
    /\ sentAt = [a \in Agents |-> 0]
    /\ job = [a \in Agents |-> NoStep]
    /\ token = [a \in Agents |-> 0]
    /\ aborted = [a \in Agents |-> FALSE]
    /\ lost = [a \in Agents |-> FALSE]
    /\ nextBeat = [a \in Agents |-> 0]
    /\ beat = [a \in Agents |-> "none"]
    /\ beatAt = [a \in Agents |-> 0]
    /\ report = [a \in Agents |-> "none"]
    /\ late = {}
    /\ finished = {}

-----------------------------------------------------------------------------
(* Time *)

(* Nothing an agent waits for is overdue at time t.                        *)
OnTime(t) ==
    \A a \in Agents :
        /\ mode[a] \in {"claiming", "granted", "reporting"} =>
              t <= sentAt[a] + RequestTimeout
        /\ beat[a] # "none" => t <= beatAt[a] + RequestTimeout
        /\ mode[a] \in {"running", "reporting"} /\ ~aborted[a] => t <= nextBeat[a]

FleetTick ==
    /\ Tick
    /\ Punctual => OnTime(clock')
    /\ UNCHANGED agentVars

FleetCreateRun(r) == CreateRun(r) /\ UNCHANGED agentVars

-----------------------------------------------------------------------------
(* The end of a job or of the process *)

(* What an agent abandons when it stops waiting.                           *)
Abandoned(a) ==
    (IF beat[a] = "sent"
       THEN {[kind |-> "heartbeat", agent |-> a, step |-> job[a],
              token |-> token[a], since |-> beatAt[a]]}
       ELSE {})
    \cup
    (IF report[a] # "none"
       THEN {[kind |-> report[a], agent |-> a, step |-> job[a],
              token |-> token[a], since |-> sentAt[a]]}
       ELSE {})

Abandon(requests) ==
    late' = IF Cardinality(late \cup requests) <= MaxLate THEN late \cup requests
                                                         ELSE late

(* The agent forgets its job, its timer and its answers.                   *)
Forget(a) ==
    /\ waitsFor' = [waitsFor EXCEPT ![a] = NoHandler]
    /\ sentAt' = [sentAt EXCEPT ![a] = 0]
    /\ job' = [job EXCEPT ![a] = NoStep]
    /\ token' = [token EXCEPT ![a] = 0]
    /\ aborted' = [aborted EXCEPT ![a] = FALSE]
    /\ lost' = [lost EXCEPT ![a] = FALSE]
    /\ nextBeat' = [nextBeat EXCEPT ![a] = 0]
    /\ beat' = [beat EXCEPT ![a] = "none"]
    /\ beatAt' = [beatAt EXCEPT ![a] = 0]
    /\ report' = [report EXCEPT ![a] = "none"]

(* Back to the head of jobLoop, which ends once the signal is aborted.     *)
BackToLoop(a) ==
    /\ Forget(a)
    /\ mode' = [mode EXCEPT ![a] = IF stopping[a] THEN "down" ELSE "idle"]
    /\ stopping' = [stopping EXCEPT ![a] = FALSE]

(* The process dies: what it sent is still on its way.                     *)
Crash(a) ==
    /\ mode[a] # "down"
    /\ Forget(a)
    /\ mode' = [mode EXCEPT ![a] = "down"]
    /\ stopping' = [stopping EXCEPT ![a] = FALSE]
    /\ Abandon(Abandoned(a))
    /\ UNCHANGED <<vars, finished>>

Restart(a) ==
    /\ mode[a] = "down"
    /\ mode' = [mode EXCEPT ![a] = "idle"]
    /\ UNCHANGED <<vars, stopping, waitsFor, sentAt, job, token, aborted, lost,
                   nextBeat, beat, beatAt, report, late, finished>>

(* SIGINT or SIGTERM.  A handler at work gets the abort; a claim already   *)
(* sent is awaited, and its job is run with a controller nobody aborts.    *)
Stop(a) ==
    /\ mode[a] # "down"
    /\ ~stopping[a]
    /\ IF mode[a] = "idle"
         THEN mode' = [mode EXCEPT ![a] = "down"] /\ UNCHANGED <<stopping, aborted>>
         ELSE /\ stopping' = [stopping EXCEPT ![a] = TRUE]
              /\ aborted' = [aborted EXCEPT
                               ![a] = @ \/ mode[a] \in {"running", "reporting"}]
              /\ UNCHANGED mode
    /\ UNCHANGED <<vars, waitsFor, sentAt, job, token, lost, nextBeat, beat,
                   beatAt, report, late, finished>>

-----------------------------------------------------------------------------
(* jobLoop: claim *)

SendClaim(a, h) ==
    /\ mode[a] = "idle"
    /\ ReceiveClaim(h, a)
    /\ mode' = [mode EXCEPT ![a] = "claiming"]
    /\ waitsFor' = [waitsFor EXCEPT ![a] = h]
    /\ sentAt' = [sentAt EXCEPT ![a] = clock]
    /\ UNCHANGED <<stopping, job, token, aborted, lost, nextBeat, beat, beatAt,
                   report, late, finished>>

(* The API works on a claim, whether or not somebody still waits for it.   *)
ServeClaim(h) ==
    /\ \/ RequeueExpiredJobs(h)
       \/ FindCandidates(h)
       \/ \E s \in Steps : SkipCandidate(h, s)
    /\ UNCHANGED agentVars

GrantClaim(h, s) ==
    LET waiting == {a \in Agents : waitsFor[a] = h}
    IN  /\ ClaimCandidate(h, s)
        /\ mode' = [a \in Agents |-> IF a \in waiting THEN "granted" ELSE mode[a]]
        /\ job' = [a \in Agents |-> IF a \in waiting THEN s ELSE job[a]]
        /\ token' = [a \in Agents |-> IF a \in waiting THEN claimToken'[s] ELSE token[a]]
        /\ waitsFor' = [a \in Agents |-> IF a \in waiting THEN NoHandler ELSE waitsFor[a]]
        /\ UNCHANGED <<stopping, sentAt, aborted, lost, nextBeat, beat, beatAt,
                       report, late, finished>>

(* No job, or an error: the loop pauses and polls again.  The pause has no *)
(* length here.                                                            *)
RefuseClaim(h) ==
    /\ NoJob(h) \/ DropClaim(h)
    /\ \/ /\ \A a \in Agents : waitsFor[a] # h
          /\ UNCHANGED agentVars
       \/ \E a \in Agents : /\ waitsFor[a] = h
                            /\ BackToLoop(a)
                            /\ UNCHANGED <<late, finished>>

(* The agent gives up on the claim, granted or not.                        *)
LoseClaim(a) ==
    /\ mode[a] \in {"claiming", "granted"}
    /\ BackToLoop(a)
    /\ UNCHANGED <<vars, late, finished>>

(* executeJob: the handler starts, and the lease timer with it.            *)
StartJob(a) ==
    /\ mode[a] = "granted"
    /\ mode' = [mode EXCEPT ![a] = "running"]
    /\ sentAt' = [sentAt EXCEPT ![a] = 0]
    /\ nextBeat' = [nextBeat EXCEPT ![a] = clock + HeartbeatInterval]
    /\ UNCHANGED <<vars, stopping, waitsFor, job, token, aborted, lost, beat,
                   beatAt, report, late, finished>>

-----------------------------------------------------------------------------
(* executeJob: the lease heartbeat *)

(* The timer fires: no second heartbeat while one is under way, none after *)
(* an abort.                                                               *)
LeaseTimer(a) ==
    /\ mode[a] \in {"running", "reporting"}
    /\ clock >= nextBeat[a]
    /\ ~aborted[a]
    /\ nextBeat' = [nextBeat EXCEPT ![a] = clock + HeartbeatInterval]
    /\ IF beat[a] = "none"
         THEN /\ beat' = [beat EXCEPT ![a] = "sent"]
              /\ beatAt' = [beatAt EXCEPT ![a] = clock]
         ELSE UNCHANGED <<beat, beatAt>>
    /\ UNCHANGED <<vars, mode, stopping, waitsFor, sentAt, job, token, aborted,
                   lost, report, late, finished>>

(* Times at which the API may have received a request sent at t.           *)
Arrival(t) == t..clock

ServeBeat(a) ==
    /\ beat[a] = "sent"
    /\ \E now \in Arrival(beatAt[a]) :
          \/ /\ Heartbeat(a, job[a], token[a], now)
             /\ beat' = [beat EXCEPT ![a] = "ok"]
          \/ /\ ~HoldsClaim(a, job[a], token[a], now)
             /\ beat' = [beat EXCEPT ![a] = "rejected"]
             /\ UNCHANGED vars
    /\ UNCHANGED <<mode, stopping, waitsFor, sentAt, job, token, aborted, lost,
                   nextBeat, beatAt, report, late, finished>>

EndBeat(a) ==
    /\ beat' = [beat EXCEPT ![a] = "none"]
    /\ beatAt' = [beatAt EXCEPT ![a] = 0]
    /\ UNCHANGED <<vars, mode, stopping, waitsFor, sentAt, job, token, nextBeat,
                   report, finished>>

BeatSucceeds(a) ==
    /\ beat[a] = "ok"
    /\ EndBeat(a)
    /\ UNCHANGED <<aborted, lost, late>>

(* Mutant: the handler goes on.                                            *)
BeatFailsUnnoticed(a) ==
    /\ beat[a] # "none"
    /\ EndBeat(a)
    /\ Abandon({r \in Abandoned(a) : r.kind = "heartbeat"})
    /\ UNCHANGED <<aborted, lost>>

(* A rejection, a timeout, a lost answer: any error is a lease failure.    *)
BeatFails(a) ==
    /\ beat[a] # "none"
    /\ EndBeat(a)
    /\ lost' = [lost EXCEPT ![a] = TRUE]
    /\ aborted' = [aborted EXCEPT ![a] = TRUE]
    /\ Abandon({r \in Abandoned(a) : r.kind = "heartbeat"})

-----------------------------------------------------------------------------
(* executeJob: the outcome *)

(* The handler is over; its outcome is dropped if the agent is stopping or *)
(* has failed to renew its lease.                                          *)
FinishHandler(a, outcome) ==
    /\ mode[a] = "running"
    /\ finished' = IF outcome = "succeed" THEN finished \cup {<<job[a], token[a]>>}
                                          ELSE finished
    /\ IF stopping[a] \/ lost[a]
         THEN /\ BackToLoop(a)
              /\ Abandon(Abandoned(a))
         ELSE /\ mode' = [mode EXCEPT ![a] = "reporting"]
              /\ report' = [report EXCEPT ![a] = outcome]
              /\ sentAt' = [sentAt EXCEPT ![a] = clock]
              /\ UNCHANGED <<stopping, waitsFor, job, token, aborted, lost,
                             nextBeat, beat, beatAt, late>>
    /\ UNCHANGED vars

(* The API executes a report of a finished job, or refuses it.             *)
Outcome(kind, a, s, n, now) ==
    IF HoldsClaim(a, s, n, now)
      THEN \/ kind = "heartbeat" /\ Heartbeat(a, s, n, now)
           \/ kind = "succeed" /\ Succeed(a, s, n, now)
           \/ kind = "fail" /\ Fail(a, s, n, now)
      ELSE UNCHANGED vars

(* Answered or refused, the loop goes on: nothing is sent twice.           *)
ServeReport(a) ==
    /\ mode[a] = "reporting"
    /\ \E now \in Arrival(sentAt[a]) : Outcome(report[a], a, job[a], token[a], now)
    /\ BackToLoop(a)
    /\ Abandon({r \in Abandoned(a) : r.kind = "heartbeat"})
    /\ UNCHANGED finished

LoseReport(a) ==
    /\ mode[a] = "reporting"
    /\ BackToLoop(a)
    /\ Abandon(Abandoned(a))
    /\ UNCHANGED <<vars, finished>>

(* A request nobody waits for is executed, once, or lost.                  *)
ServeLate(r) ==
    /\ r \in late
    /\ late' = late \ {r}
    /\ \/ \E now \in Arrival(r.since) : Outcome(r.kind, r.agent, r.step, r.token, now)
       \/ UNCHANGED vars
    /\ UNCHANGED <<mode, stopping, waitsFor, sentAt, job, token, aborted, lost,
                   nextBeat, beat, beatAt, report, finished>>

-----------------------------------------------------------------------------
AgentStep(a) ==
    \/ Crash(a)
    \/ Restart(a)
    \/ Stop(a)
    \/ \E h \in Handlers : SendClaim(a, h)
    \/ LoseClaim(a)
    \/ StartJob(a)
    \/ LeaseTimer(a)
    \/ ServeBeat(a)
    \/ BeatSucceeds(a)
    \/ BeatFails(a)
    \/ \E outcome \in {"succeed", "fail"} : FinishHandler(a, outcome)
    \/ ServeReport(a)
    \/ LoseReport(a)

ServerStep(h) ==
    \/ ServeClaim(h)
    \/ \E s \in Steps : GrantClaim(h, s)
    \/ RefuseClaim(h)

FleetNext ==
    \/ FleetTick
    \/ \E r \in Runs : FleetCreateRun(r)
    \/ \E a \in Agents : AgentStep(a)
    \/ \E h \in Handlers : ServerStep(h)
    \/ \E r \in late : ServeLate(r)

FleetSpec == FleetInit /\ [][FleetNext]_fleetVars

-----------------------------------------------------------------------------
(* Properties *)

(* An agent whose handler is at work and has not been told to stop holds   *)
(* the claim of its step, with time left on the lease: so the step is not  *)
(* given to another agent before this one is told.  A handler that was     *)
(* told to stop may still be at work when another agent has the step.      *)
(* It needs punctual timers, and a lease longer than a heartbeat interval  *)
(* plus two request timeouts.                                              *)
WorkersHoldTheirClaim ==
    \A a \in Agents :
        mode[a] = "running" /\ ~aborted[a] =>
            /\ stepStatus[job[a]] = "RUNNING"
            /\ claimedBy[job[a]] = a
            /\ claimToken[job[a]] = token[a]
            /\ leaseExpiresAt[job[a]] > clock

(* At any time at most one agent works for a run: the next step may be     *)
(* given out only when the handler of the one before is over or has been   *)
(* told to stop, although the API learns of neither but by a report or by  *)
(* the end of the lease.  It needs the same punctuality.                   *)
OneWorkerPerRun ==
    \A a, b \in Agents :
        /\ mode[a] = "running" /\ ~aborted[a]
        /\ mode[b] = "running" /\ ~aborted[b]
        /\ RunOf[job[a]] = RunOf[job[b]]
        => a = b

(* The agents do the steps of a run one after the other: while an agent    *)
(* has a step, whether or not it still holds the claim, the handlers of    *)
(* all earlier steps have completed, under the claim that succeeded.  An   *)
(* agent that lost its claim long ago is not ahead of its run either.      *)
WorkIsInOrder ==
    \A a \in Agents, t \in Steps :
        mode[a] \in {"granted", "running", "reporting"} /\ Earlier(t, job[a]) =>
            stepStatus[t] = "SUCCEEDED" /\ <<t, attemptCount[t]>> \in finished

(* A step is SUCCEEDED only by work done under the claim it was last       *)
(* given: neither a late report of an earlier claim, nor one of an agent   *)
(* that lost the step in between, may conclude the work of another.        *)
SuccessIsEarned ==
    \A s \in Steps :
        stepStatus[s] = "SUCCEEDED" => <<s, attemptCount[s]>> \in finished
=============================================================================
