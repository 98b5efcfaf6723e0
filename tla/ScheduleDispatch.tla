-------------------------- MODULE ScheduleDispatch --------------------------
(***************************************************************************)
(* Schedules and the runs made from them: the database-driven dispatcher   *)
(* of every API process (AutomationDispatcherService), the schedule        *)
(* requests of administrators (AutomationSchedulesService), the switch of  *)
(* the automation for the company (CompanyAutomationsService.update), and  *)
(* the creation of runs (AutomationRunsService).                           *)
(*                                                                         *)
(* One company with one instance and one automation code.  A cron          *)
(* expression is its period: its occurrences are the positive multiples.   *)
(*                                                                         *)
(* The dispatcher lists the due schedules, then runs one transaction per   *)
(* schedule: consistent reads of one snapshot, then an insert and a        *)
(* guarded update.  The inserted key and the updated row are locked until  *)
(* the commit, so the two writes are one action and the reads another.     *)
(* The administrator's requests are not transactions: a read, a check and  *)
(* a write are three actions.                                              *)
(***************************************************************************)
EXTENDS Integers, FiniteSets

CONSTANTS
    Processes,   \* API processes, each with its dispatcher
    Editors,     \* administrators' requests in progress
    EditKinds,   \* the requests they make
    Schedules,
    NoSchedule,
    Periods,     \* the cron expressions in use
    ListLimit,   \* schedules one tick takes on (100 in the code)
    Unstable,    \* the configuration and the instance may change
    MaxClock,    \* bound: the clock stops here
    MaxManual    \* bound: manual runs

AllEditKinds == {"create", "rename", "cron", "enable", "disable", "trigger"}

ASSUME DispatchAssumption ==
    /\ EditKinds \subseteq AllEditKinds
    /\ NoSchedule \notin Schedules
    /\ Periods \subseteq Nat \ {0}
    /\ \E p \in Periods : \A q \in Periods : q <= p
    /\ ListLimit \in Nat \ {0}
    /\ Unstable \in BOOLEAN
    /\ MaxClock \in Nat
    /\ MaxManual \in Nat

VARIABLES
    clock,
    exists,      \* the schedule has been created
    enabled,     \* AutomationSchedule.enabled
    period,      \* AutomationSchedule.cronExpression
    nextRunAt,   \* AutomationSchedule.nextRunAt
    lastRunAt,   \* AutomationSchedule.lastRunAt, 0 when null
    runs,        \* runs[s][t]: runs with key schedule:<s>:<t>
    manualRuns,  \* number of manual runs
    activated,   \* CompanyAutomation.enabled
    usable,      \* the instance and its company are active
    buildable,   \* the automation's configuration yields steps
    worker,      \* the dispatcher of each process
    request,     \* the request of each editor
    since        \* history: first occurrence of the cron in force

scheduleVars == <<exists, enabled, period, nextRunAt, lastRunAt, since>>
runVars      == <<runs, manualRuns>>
settingVars  == <<activated, usable, buildable>>
vars == <<clock, scheduleVars, runVars, settingVars, worker, request>>

MaxPeriod == CHOOSE p \in Periods : \A q \in Periods : q <= p
Times     == 0..(MaxClock + MaxPeriod)

(* CronScheduleService.next: the first occurrence after t.                 *)
CronNext(p, t) == p * ((t \div p) + 1)

IdleWorker == [pc |-> "idle", now |-> 0, todo |-> {}, schedule |-> NoSchedule,
               scheduledFor |-> 0, period |-> 1, refused |-> FALSE]
NoRequest  == [pc |-> "idle", kind |-> "rename", schedule |-> NoSchedule,
               period |-> 1, next |-> 0]

TypeOK ==
    /\ clock \in 0..MaxClock
    /\ exists \in [Schedules -> BOOLEAN]
    /\ enabled \in [Schedules -> BOOLEAN]
    /\ period \in [Schedules -> Periods]
    /\ nextRunAt \in [Schedules -> Times]
    /\ lastRunAt \in [Schedules -> Times]
    /\ runs \in [Schedules -> [Times -> 0..2]]
    /\ manualRuns \in 0..MaxManual
    /\ activated \in BOOLEAN
    /\ usable \in BOOLEAN
    /\ buildable \in BOOLEAN
    /\ worker \in [Processes ->
          [pc : {"idle", "listed", "read"}, now : 0..MaxClock,
           todo : SUBSET Schedules, schedule : Schedules \cup {NoSchedule},
           scheduledFor : Times, period : Periods \cup {1}, refused : BOOLEAN]]
    /\ request \in [Editors ->
          [pc : {"idle", "found", "allowed", "built"}, kind : AllEditKinds,
           schedule : Schedules \cup {NoSchedule}, period : Periods \cup {1},
           next : Times]]
    /\ since \in [Schedules -> Times]

(* The schedules have been created, with any cron, while the automation    *)
(* was active, unless the editors create them.                             *)
Init ==
    /\ clock = 0
    /\ exists = [s \in Schedules |-> "create" \notin EditKinds]
    /\ enabled = exists
    /\ period \in [Schedules -> Periods]
    /\ nextRunAt = [s \in Schedules |-> IF exists[s] THEN CronNext(period[s], 0) ELSE 0]
    /\ lastRunAt = [s \in Schedules |-> 0]
    /\ runs = [s \in Schedules |-> [t \in Times |-> 0]]
    /\ manualRuns = 0
    /\ activated = TRUE
    /\ usable = TRUE
    /\ buildable = TRUE
    /\ worker = [p \in Processes |-> IdleWorker]
    /\ request = [e \in Editors |-> NoRequest]
    /\ since = nextRunAt

Tick ==
    /\ clock < MaxClock
    /\ clock' = clock + 1
    /\ UNCHANGED <<scheduleVars, runVars, settingVars, worker, request>>

-----------------------------------------------------------------------------
(* The dispatcher *)

Due(s, now) == exists[s] /\ enabled[s] /\ nextRunAt[s] <= now /\ usable

(* orderBy nextRunAt, take: the lists findMany may return.                 *)
Lists ==
    LET due == {s \in Schedules : Due(s, clock)}
    IN  {L \in SUBSET due :
            /\ \A s \in L, t \in due \ L : nextRunAt[s] <= nextRunAt[t]
            /\ \/ L = due /\ Cardinality(L) <= ListLimit
               \/ Cardinality(L) = ListLimit}

(* tick, dispatchDueSchedules: `dispatching` keeps a process to one tick.  *)
(* An empty list ends the tick at once.  The loop takes the schedules of   *)
(* the list in any order.                                                  *)
ListDue(p) ==
    /\ worker[p].pc = "idle"
    /\ \E L \in Lists \ {{}} :
          worker' = [worker EXCEPT ![p] =
             [IdleWorker EXCEPT !.pc = "listed", !.now = clock, !.todo = L]]
    /\ UNCHANGED <<clock, scheduleVars, runVars, settingVars, request>>

(* buildStepsForRun: the automation is enabled and the settings are valid. *)
StepsCanBeBuilt == activated /\ buildable

(* The transaction's reads.  A schedule that is no longer due ends it.     *)
ReadSchedule(p, s) ==
    LET w == worker[p]
    IN  /\ w.pc = "listed"
        /\ s \in w.todo
        /\ worker' = [worker EXCEPT ![p] =
              IF Due(s, w.now)
                THEN [w EXCEPT !.pc = "read", !.todo = @ \ {s}, !.schedule = s,
                               !.scheduledFor = nextRunAt[s], !.period = period[s],
                               !.refused = ~StepsCanBeBuilt]
                ELSE [w EXCEPT !.todo = @ \ {s}]]
        /\ UNCHANGED <<clock, scheduleVars, runVars, settingVars, request>>

(* On with the next schedule, whatever became of this one.                 *)
NextSchedule(p) ==
    worker' = [worker EXCEPT ![p] =
        IF @.todo = {} THEN IdleWorker
        ELSE [IdleWorker EXCEPT !.pc = "listed", !.now = worker[p].now,
                                !.todo = worker[p].todo]]

(* @unique deduplicationKey                                                *)
DuplicateNever(s, t) == FALSE  \* mutant: no unique key
Duplicate(s, t) == runs[s][t] > 0

(* Mutants: from the time of the tick; the occurrence itself.              *)
NextOccurrenceFromNow(w)   == CronNext(w.period, w.now)
NextOccurrenceAtOrAfter(w) == CronNext(w.period, w.scheduledFor - 1)

(* cron.next from the occurrence that is dispatched, with the cron of the  *)
(* snapshot.                                                               *)
NextOccurrence(w)         == CronNext(w.period, w.scheduledFor)

StillScheduledDroppingEnabled(s, t) == nextRunAt[s] = t  \* mutant

(* The where clause of the update that advances the schedule.              *)
StillScheduled(s, t) == enabled[s] /\ nextRunAt[s] = t

Dispatch(p) ==
    LET s == worker[p].schedule
        t == worker[p].scheduledFor
    IN  /\ worker[p].pc = "read"
        /\ ~worker[p].refused
        /\ ~Duplicate(s, t)
        /\ StillScheduled(s, t)
        /\ runs' = [runs EXCEPT ![s][t] = @ + 1]
        /\ lastRunAt' = [lastRunAt EXCEPT ![s] = t]
        /\ nextRunAt' = [nextRunAt EXCEPT ![s] = NextOccurrence(worker[p])]
        /\ NextSchedule(p)
        /\ UNCHANGED <<clock, exists, enabled, period, since, manualRuns,
                       settingVars, request>>

(* Mutant: the schedule is advanced outside of the transaction.            *)
RollBackRunOnly(p) ==
    LET s == worker[p].schedule
        t == worker[p].scheduledFor
    IN  /\ worker[p].pc = "read"
        /\ worker[p].refused \/ Duplicate(s, t) \/ ~StillScheduled(s, t)
        /\ lastRunAt' = [lastRunAt EXCEPT ![s] = t]
        /\ nextRunAt' = [nextRunAt EXCEPT ![s] = NextOccurrence(worker[p])]
        /\ NextSchedule(p)
        /\ UNCHANGED <<clock, exists, enabled, period, since, runVars,
                       settingVars, request>>

(* No steps, a duplicate key, or the schedule moved on: rolled back.       *)
RollBack(p) ==
    LET s == worker[p].schedule
        t == worker[p].scheduledFor
    IN  /\ worker[p].pc = "read"
        /\ \/ worker[p].refused
           \/ Duplicate(s, t)
           \/ ~StillScheduled(s, t)
        /\ NextSchedule(p)
        /\ UNCHANGED <<clock, scheduleVars, runVars, settingVars, request>>

(* Every schedule of the list had moved on.                                *)
EndTick(p) ==
    /\ worker[p].pc = "listed"
    /\ worker[p].todo = {}
    /\ worker' = [worker EXCEPT ![p] = IdleWorker]
    /\ UNCHANGED <<clock, scheduleVars, runVars, settingVars, request>>

-----------------------------------------------------------------------------
(* AutomationSchedulesService *)

(* findOne; update keeps the nextRunAt it read, and asks for a new one     *)
(* when the cron changes or the schedule was disabled.                     *)
FindSchedule(e, s, kind, p) ==
    /\ request[e].pc = "idle"
    /\ kind \in EditKinds
    /\ IF kind = "create" THEN ~exists[s] /\ usable ELSE exists[s]
    /\ request' = [request EXCEPT ![e] =
          [pc |-> "found", kind |-> kind, schedule |-> s,
           period |-> IF kind \in {"create", "cron"} THEN p ELSE period[s],
           next |-> IF kind \in {"create", "cron"} \/ (kind = "enable" /\ ~enabled[s])
                      THEN 0 ELSE nextRunAt[s]]]
    /\ UNCHANGED <<clock, scheduleVars, runVars, settingVars, worker>>

(* assertEnabledForInstance, where the request calls it, then cron.next.   *)
CheckActivation(e) ==
    LET r == request[e]
    IN  /\ r.pc = "found"
        /\ request' = [request EXCEPT ![e] =
              IF r.kind \in {"create", "enable", "trigger"} /\ ~activated
                THEN NoRequest
                ELSE [r EXCEPT !.pc = "allowed",
                               !.next = IF @ = 0 THEN CronNext(r.period, clock) ELSE @]]
        /\ UNCHANGED <<clock, scheduleVars, runVars, settingVars, worker>>

WriteSchedule(e) ==
    LET r == request[e]
        s == r.schedule
        fresh == r.kind \in {"create", "cron", "enable"}
    IN  /\ r.pc = "allowed"
        /\ r.kind # "trigger"
        /\ r.kind = "create" => ~exists[s]
        /\ exists' = [exists EXCEPT ![s] = TRUE]
        /\ enabled' = [enabled EXCEPT ![s] =
                         CASE r.kind \in {"create", "enable"} -> TRUE
                           [] r.kind = "disable" -> FALSE
                           [] OTHER -> @]
        /\ period' = [period EXCEPT ![s] = IF r.kind \in {"create", "cron"}
                                             THEN r.period ELSE @]
        /\ nextRunAt' = [nextRunAt EXCEPT ![s] = r.next]
        /\ since' = [since EXCEPT ![s] = IF fresh THEN r.next ELSE @]
        /\ request' = [request EXCEPT ![e] = NoRequest]
        /\ UNCHANGED <<clock, lastRunAt, runVars, settingVars, worker>>

(* trigger, createManualRun: buildStepsForRun checks again, on its own     *)
(* reads, before the run is inserted.                                      *)
BuildManualRun(e) ==
    /\ request[e].pc = "allowed"
    /\ request[e].kind = "trigger"
    /\ request' = [request EXCEPT ![e] =
                     IF StepsCanBeBuilt THEN [@ EXCEPT !.pc = "built"] ELSE NoRequest]
    /\ UNCHANGED <<clock, scheduleVars, runVars, settingVars, worker>>

CreateManualRun(e) ==
    /\ request[e].pc = "built"
    /\ manualRuns < MaxManual
    /\ manualRuns' = manualRuns + 1
    /\ request' = [request EXCEPT ![e] = NoRequest]
    /\ UNCHANGED <<clock, scheduleVars, runs, settingVars, worker>>

-----------------------------------------------------------------------------
(* Settings *)

(* CompanyAutomationsService.update: one transaction.                      *)
SetActivation(b) ==
    /\ activated' = b
    /\ enabled' = [s \in Schedules |-> b /\ enabled[s]]
    /\ UNCHANGED <<clock, exists, period, nextRunAt, lastRunAt, since, runVars,
                   usable, buildable, worker, request>>

(* A company, an instance, a branch or a configuration is edited.          *)
SetUsable(b) ==
    /\ Unstable
    /\ usable' = b
    /\ UNCHANGED <<clock, scheduleVars, runVars, activated, buildable, worker, request>>

SetBuildable(b) ==
    /\ Unstable
    /\ buildable' = b
    /\ UNCHANGED <<clock, scheduleVars, runVars, activated, usable, worker, request>>

(* A database error: on with the next schedule.  The end of the process:   *)
(* the tick is given up.                                                   *)
Interrupt(p) ==
    /\ worker[p].pc # "idle"
    /\ Unstable
    /\ \/ worker[p].pc = "read" /\ NextSchedule(p)
       \/ worker' = [worker EXCEPT ![p] = IdleWorker]
    /\ UNCHANGED <<clock, scheduleVars, runVars, settingVars, request>>

-----------------------------------------------------------------------------
Work(p) ==
    \/ ListDue(p)
    \/ \E s \in Schedules : ReadSchedule(p, s)
    \/ Dispatch(p)
    \/ RollBack(p)
    \/ EndTick(p)

Edit(e) ==
    \/ \E s \in Schedules, kind \in EditKinds, p \in Periods : FindSchedule(e, s, kind, p)
    \/ CheckActivation(e)
    \/ WriteSchedule(e)
    \/ BuildManualRun(e)
    \/ CreateManualRun(e)

Next ==
    \/ Tick
    \/ \E p \in Processes : Work(p) \/ Interrupt(p)
    \/ \E e \in Editors : Edit(e)
    \/ \E b \in BOOLEAN : SetActivation(b) \/ SetUsable(b) \/ SetBuildable(b)

Spec == Init /\ [][Next]_vars

(* setInterval fires for ever and every transaction ends.                  *)
LiveSpec == Spec /\ \A p \in Processes : WF_vars(Work(p))

-----------------------------------------------------------------------------
(* Properties *)

(* An occurrence of a schedule makes at most one run, however many         *)
(* processes list it and even when an edit puts the schedule back on an    *)
(* occurrence that has already run.                                        *)
OneRunPerOccurrence ==
    \A s \in Schedules, t \in Times : runs[s][t] <= 1

(* No occurrence is passed over: whatever the schedule has left behind     *)
(* under its present cron has its run, also when the API was down or slow  *)
(* and several occurrences were due at once, when dispatchers race and     *)
(* when an edit writes back the nextRunAt it has read.  It fails when the  *)
(* cron is edited between the reads and the update of a dispatch, which    *)
(* compares nextRunAt and not the cron, and when three requests overlap of *)
(* which two enable the schedule: no run of this property makes these.     *)
NoOccurrenceSkipped ==
    \A s \in Schedules :
        \A t \in since[s]..(nextRunAt[s] - 1) :
            exists[s] /\ t % period[s] = 0 => runs[s][t] = 1

(* A schedule remembers as lastRunAt an occurrence whose run exists: the   *)
(* run and the advance of the schedule are one transaction.                *)
LastRunExists ==
    \A s \in Schedules : lastRunAt[s] # 0 => runs[s][lastRunAt[s]] = 1

(* The dispatcher starts nothing for an automation the company has         *)
(* switched off, also when it was switched off in the middle of the        *)
(* transaction: switching off disables the schedules, and the guarded      *)
(* update sees it.  A request that enables a schedule and has checked the  *)
(* activation before may write between the two and undo that: no run of    *)
(* this property makes one.                                                *)
DispatchedWhileActive == [][runs' # runs => activated]_vars

(* What the panel says of an inactive routine (company-automations-panel,  *)
(* lines 112-113): its schedules cannot be created or executed.            *)
InactiveMeansIdle ==
    [][~activated => /\ UNCHANGED runVars
                     /\ \A s \in Schedules : exists'[s] => exists[s]]_vars

Fallen(s, t) ==
    /\ enabled[s]
    /\ since[s] <= t /\ t <= clock
    /\ t % period[s] = 0

(* Every occurrence that falls due is run, unless the schedule is disabled *)
(* first: the dispatchers do not stop each other by rolling back for ever, *)
(* and no schedule waits for ever behind the others in the bounded list.   *)
(* It holds as long as nobody edits the schedule.  An edit that writes     *)
(* back the nextRunAt it read before a dispatch puts the schedule on an    *)
(* occurrence whose run exists: from then on every dispatch is refused as  *)
(* a duplicate and none advances the schedule.                             *)
OccurrencesAreRun ==
    \A s \in Schedules, t \in 1..MaxClock :
        Fallen(s, t) ~> runs[s][t] = 1 \/ ~enabled[s]
=============================================================================
