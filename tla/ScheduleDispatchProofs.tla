------------------------ MODULE ScheduleDispatchProofs ------------------------
(***************************************************************************)
(* The dispatcher for any number of processes, requests and schedules, any *)
(* cron periods and any configuration that comes and goes.  The key of a   *)
(* run is unique, and the insert of the run and the advance of its         *)
(* schedule are one transaction; what has to be kept beside the types is   *)
(* that a transaction and a request write about a schedule they have read, *)
(* at a time the clock has reached (Reading, Holding).                     *)
(*                                                                         *)
(* The last two parts add what a schedule remembers while requests do not  *)
(* enable it (ActiveInv) nor change its cron (CoveredInv).                 *)
(***************************************************************************)
EXTENDS ScheduleDispatch, TLAPS

WorkerRow == [pc : {"idle", "listed", "read"}, now : 0..MaxClock,
              todo : SUBSET Schedules, schedule : Schedules \cup {NoSchedule},
              scheduledFor : Times, period : Periods \cup {1}, refused : BOOLEAN]
RequestRow == [pc : {"idle", "found", "allowed", "built"}, kind : AllEditKinds,
               schedule : Schedules \cup {NoSchedule}, period : Periods \cup {1},
               next : Times]

(* What a dispatcher and a request hold when they come to write.           *)
Reading(w) == w.pc = "read" =>
    w.schedule \in Schedules /\ w.period \in Periods /\ w.scheduledFor \in 0..MaxClock
Holding(r) == r.pc # "idle" => r.schedule \in Schedules /\ r.period \in Periods

IInv ==
    /\ TypeOK
    /\ \A p \in Processes : Reading(worker[p])
    /\ \A e \in Editors : Holding(request[e])
    /\ OneRunPerOccurrence
    /\ LastRunExists

-------------------------------------------------------------------------------
LEMMA Numbers ==
    /\ MaxPeriod \in Periods /\ \A q \in Periods : q <= MaxPeriod
    /\ MaxPeriod \in Nat \ {0} /\ MaxClock \in Nat /\ Periods \subseteq Nat \ {0}
    /\ 0 \in 0..MaxClock /\ 0 \in Times /\ 0..MaxClock \subseteq Times
<1>1. MaxPeriod \in Periods /\ \A q \in Periods : q <= MaxPeriod
  BY DispatchAssumption DEF MaxPeriod
<1>2. MaxPeriod \in Nat \ {0} /\ MaxClock \in Nat /\ Periods \subseteq Nat \ {0}
  BY <1>1, DispatchAssumption
<1> QED
  BY <1>1, <1>2 DEF Times

(* The next occurrence is a later one, at most a period away.              *)
LEMMA NextIsLater ==
  ASSUME NEW p \in Nat \ {0}, NEW t \in Nat
  PROVE  CronNext(p, t) \in Nat /\ CronNext(p, t) > t /\ CronNext(p, t) <= t + p
<1> DEFINE k == t \div p
<1>1. k \in Nat /\ p * k <= t /\ t < p * k + p /\ p * k \in Nat
  OBVIOUS
<1>2. p * (k + 1) = p * k + p
  <2>1. k \in Int
    BY <1>1
  <2> HIDE DEF k
  <2> QED
    BY <2>1
<1> HIDE DEF k
<1>3. p * (k + 1) \in Nat /\ p * (k + 1) > t /\ p * (k + 1) <= t + p
  BY <1>1, <1>2
<1> QED
  BY <1>3 DEF CronNext, k

LEMMA NextIsATime ==
  ASSUME NEW p \in Periods, NEW t \in 0..MaxClock PROVE CronNext(p, t) \in Times
<1>1. p \in Nat \ {0} /\ p <= MaxPeriod /\ t \in Nat /\ t <= MaxClock
  BY Numbers
<1>2. CronNext(p, t) \in Nat /\ CronNext(p, t) <= t + p
  BY <1>1, NextIsLater
<1> HIDE DEF CronNext
<1> QED
  BY <1>1, <1>2, Numbers DEF Times

LEMMA RowDefaults ==
    /\ IdleWorker \in WorkerRow /\ Reading(IdleWorker)
    /\ NoRequest \in RequestRow /\ Holding(NoRequest)
BY Numbers DEF IdleWorker, WorkerRow, Reading, NoRequest, RequestRow, Holding, AllEditKinds

LEMMA InitIInv == Init => IInv
<1> SUFFICES ASSUME Init PROVE IInv
  OBVIOUS
<1>1. nextRunAt \in [Schedules -> Times]
  <2>1. \A s \in Schedules : CronNext(period[s], 0) \in Times
    BY NextIsATime, Numbers DEF Init
  <2> HIDE DEF CronNext
  <2> QED
    BY <2>1, Numbers DEF Init
<1>2. /\ exists \in [Schedules -> BOOLEAN] /\ enabled \in [Schedules -> BOOLEAN]
      /\ period \in [Schedules -> Periods]
  BY DEF Init
<1>3. /\ runs \in [Schedules -> [Times -> 0..2]]
      /\ OneRunPerOccurrence
  BY DEF Init, OneRunPerOccurrence
<1>4. lastRunAt \in [Schedules -> Times] /\ LastRunExists
  BY Numbers DEF Init, LastRunExists
<1>5. /\ worker \in [Processes -> WorkerRow] /\ \A p \in Processes : Reading(worker[p])
      /\ request \in [Editors -> RequestRow] /\ \A e \in Editors : Holding(request[e])
  BY RowDefaults DEF Init
<1>6. /\ clock \in 0..MaxClock /\ manualRuns \in 0..MaxManual /\ since \in [Schedules -> Times]
      /\ activated \in BOOLEAN /\ usable \in BOOLEAN /\ buildable \in BOOLEAN
  BY <1>1, Numbers, DispatchAssumption DEF Init
<1> QED
  BY <1>1, <1>2, <1>3, <1>4, <1>5, <1>6 DEF IInv, TypeOK, WorkerRow, RequestRow

(* A step that changes one dispatcher, and no schedule and no run.         *)
LEMMA WorkerStep ==
  ASSUME IInv, NEW p \in Processes, NEW row \in WorkerRow, Reading(row),
         worker' = [worker EXCEPT ![p] = row],
         UNCHANGED <<clock, scheduleVars, runVars, settingVars, request>>
  PROVE  IInv'
<1>1. /\ worker' \in [Processes -> WorkerRow]
      /\ \A q \in Processes : Reading(worker'[q])
  BY DEF IInv, TypeOK, WorkerRow
<1>2. TypeOK'
  BY <1>1 DEF IInv, TypeOK, WorkerRow, scheduleVars, runVars, settingVars
<1> QED
  BY <1>1, <1>2 DEF IInv, scheduleVars, runVars, OneRunPerOccurrence, LastRunExists

(* A step that changes one request, and no schedule and no run.            *)
LEMMA RequestStep ==
  ASSUME IInv, NEW e \in Editors, NEW row \in RequestRow, Holding(row),
         request' = [request EXCEPT ![e] = row],
         UNCHANGED <<clock, scheduleVars, runVars, settingVars, worker>>
  PROVE  IInv'
<1>1. /\ request' \in [Editors -> RequestRow]
      /\ \A q \in Editors : Holding(request'[q])
  BY DEF IInv, TypeOK, RequestRow
<1>2. TypeOK'
  BY <1>1 DEF IInv, TypeOK, RequestRow, scheduleVars, runVars, settingVars
<1> QED
  BY <1>1, <1>2 DEF IInv, scheduleVars, runVars, OneRunPerOccurrence, LastRunExists

(* Where a dispatcher goes on to: it has read nothing yet.                 *)
LEMMA GoingOn ==
  ASSUME IInv, NEW p \in Processes, NextSchedule(p)
  PROVE  \E row \in WorkerRow : Reading(row) /\ worker' = [worker EXCEPT ![p] = row]
<1> DEFINE row == [IdleWorker EXCEPT !.pc = "listed", !.now = worker[p].now,
                                     !.todo = worker[p].todo]
<1>1. worker[p] \in WorkerRow
  BY DEF IInv, TypeOK, WorkerRow
<1>2. row \in WorkerRow /\ Reading(row)
  BY <1>1, RowDefaults DEF IdleWorker, WorkerRow, Reading
<1>3. worker' = [worker EXCEPT ![p] = IF worker[p].todo = {} THEN IdleWorker ELSE row]
  BY DEF NextSchedule, IInv, TypeOK
<1> QED
  BY <1>2, <1>3, RowDefaults

-------------------------------------------------------------------------------
(* The dispatcher                                                          *)
LEMMA ListKeeps == ASSUME IInv, NEW p \in Processes, ListDue(p) PROVE IInv'
<1> PICK L \in Lists :
      worker' = [worker EXCEPT ![p] =
         [IdleWorker EXCEPT !.pc = "listed", !.now = clock, !.todo = L]]
  BY DEF ListDue
<1> DEFINE row == [IdleWorker EXCEPT !.pc = "listed", !.now = clock, !.todo = L]
<1>1. L \in SUBSET Schedules /\ clock \in 0..MaxClock
  BY DEF Lists, IInv, TypeOK
<1>2. row \in WorkerRow /\ Reading(row)
  BY <1>1, RowDefaults DEF IdleWorker, WorkerRow, Reading
<1>3. UNCHANGED <<clock, scheduleVars, runVars, settingVars, request>>
  BY DEF ListDue
<1> HIDE DEF row
<1> QED
  BY <1>2, <1>3, WorkerStep DEF row

LEMMA ReadKeeps ==
  ASSUME IInv, NEW p \in Processes, NEW s \in Schedules, ReadSchedule(p, s) PROVE IInv'
<1> DEFINE w == worker[p]
           read == [w EXCEPT !.pc = "read", !.todo = @ \ {s}, !.schedule = s,
                             !.scheduledFor = nextRunAt[s], !.period = period[s],
                             !.refused = ~StepsCanBeBuilt]
           skip == [w EXCEPT !.todo = @ \ {s}]
<1>1. w \in WorkerRow /\ w.pc = "listed"
  BY DEF ReadSchedule, IInv, TypeOK, WorkerRow
<1>2. skip \in WorkerRow /\ Reading(skip)
  BY <1>1 DEF WorkerRow, Reading
<1>3. ASSUME Due(s, w.now) PROVE read \in WorkerRow /\ Reading(read)
  <2>1. nextRunAt[s] \in Times /\ period[s] \in Periods
    BY DEF IInv, TypeOK
  <2>2. nextRunAt[s] \in 0..MaxClock
    BY <1>1, <1>3, <2>1, Numbers DEF Due, Times, WorkerRow
  <2>3. (~StepsCanBeBuilt) \in BOOLEAN
    BY Zenon DEF StepsCanBeBuilt
  <2>4. read \in WorkerRow
    BY <1>1, <2>1, <2>3 DEF WorkerRow
  <2>5. read.schedule = s /\ read.period = period[s] /\ read.scheduledFor = nextRunAt[s]
    BY <1>1 DEF WorkerRow
  <2> QED
    BY <2>1, <2>2, <2>4, <2>5 DEF Reading
<1>4. /\ UNCHANGED <<clock, scheduleVars, runVars, settingVars, request>>
      /\ worker' = [worker EXCEPT ![p] = IF Due(s, w.now) THEN read ELSE skip]
  BY DEF ReadSchedule
<1> HIDE DEF w, read, skip
<1>5. CASE Due(s, w.now)
  BY <1>3, <1>4, <1>5, WorkerStep
<1>6. CASE ~Due(s, w.now)
  BY <1>2, <1>4, <1>6, WorkerStep
<1> QED
  BY <1>5, <1>6

(* The key was free: its run is the first, and lastRunAt is this run's.    *)
LEMMA DispatchKeeps == ASSUME IInv, NEW p \in Processes, Dispatch(p) PROVE IInv'
<1> DEFINE s == worker[p].schedule  t == worker[p].scheduledFor
           next == NextOccurrence(worker[p])
<1>1. worker[p] \in WorkerRow /\ s \in Schedules /\ worker[p].period \in Periods /\ t \in 0..MaxClock
  BY DEF Dispatch, IInv, TypeOK, WorkerRow, Reading
<1>2. t \in Times /\ next \in Times
  BY <1>1, Numbers, NextIsATime DEF NextOccurrence
<1>3. /\ runs[s][t] = 0
      /\ runs' = [runs EXCEPT ![s][t] = runs[s][t] + 1]
      /\ lastRunAt' = [lastRunAt EXCEPT ![s] = t]
      /\ nextRunAt' = [nextRunAt EXCEPT ![s] = next]
      /\ NextSchedule(p)
      /\ UNCHANGED <<clock, exists, enabled, period, since, manualRuns, settingVars, request>>
  <2>1. runs[s][t] \in 0..2 /\ ~(runs[s][t] > 0)
    BY <1>1, <1>2 DEF Dispatch, Duplicate, IInv, TypeOK
  <2>2. runs[s][t] = 0
    BY <2>1
  <2> QED
    BY <2>2 DEF Dispatch, IInv, TypeOK
<1> HIDE DEF s, t, next
<1>4. /\ runs' \in [Schedules -> [Times -> 0..2]]
      /\ runs'[s][t] = 1
      /\ \A u \in Schedules, v \in Times : runs'[u][v] = runs[u][v] \/ runs'[u][v] = 1
  BY <1>1, <1>2, <1>3 DEF IInv, TypeOK
<1>5. \A u \in Schedules, v \in Times : <<u, v>> # <<s, t>> => runs'[u][v] = runs[u][v]
  BY <1>1, <1>2, <1>3 DEF IInv, TypeOK
<1>6. OneRunPerOccurrence'
  BY <1>4 DEF IInv, OneRunPerOccurrence
<1>7. lastRunAt' \in [Schedules -> Times] /\ nextRunAt' \in [Schedules -> Times]
  BY <1>1, <1>2, <1>3 DEF IInv, TypeOK
<1>8. LastRunExists'
  <2> SUFFICES ASSUME NEW u \in Schedules, lastRunAt'[u] # 0 PROVE runs'[u][lastRunAt'[u]] = 1
    BY DEF LastRunExists
  <2>1. CASE u = s
    BY <2>1, <1>1, <1>3, <1>4 DEF IInv, TypeOK
  <2>2. CASE u # s
    <3>1. lastRunAt'[u] = lastRunAt[u] /\ lastRunAt[u] \in Times
      BY <2>2, <1>3 DEF IInv, TypeOK
    <3>2. runs[u][lastRunAt[u]] = 1
      BY <3>1 DEF IInv, LastRunExists
    <3> QED
      BY <2>2, <3>1, <3>2, <1>5
  <2> QED
    BY <2>1, <2>2
<1>9. /\ worker' \in [Processes -> WorkerRow]
      /\ \A q \in Processes : Reading(worker'[q])
  <2>1. PICK row \in WorkerRow : Reading(row) /\ worker' = [worker EXCEPT ![p] = row]
    BY <1>3, GoingOn
  <2> QED
    BY <2>1 DEF IInv, TypeOK, WorkerRow
<1>10. TypeOK'
  BY <1>3, <1>4, <1>7, <1>9 DEF IInv, TypeOK, WorkerRow, settingVars
<1> QED
  BY <1>3, <1>6, <1>8, <1>9, <1>10 DEF IInv

LEMMA OtherWorkKeeps ==
  ASSUME IInv, NEW p \in Processes, RollBack(p) \/ EndTick(p) \/ Interrupt(p) PROVE IInv'
<1>1. UNCHANGED <<clock, scheduleVars, runVars, settingVars, request>>
  BY DEF RollBack, EndTick, Interrupt
<1>2. CASE worker' = [worker EXCEPT ![p] = IdleWorker]
  BY <1>1, <1>2, RowDefaults, WorkerStep
<1>3. CASE NextSchedule(p)
  BY <1>1, <1>3, GoingOn, WorkerStep
<1> QED
  BY <1>2, <1>3 DEF RollBack, EndTick, Interrupt

-------------------------------------------------------------------------------
(* Requests of administrators                                              *)
LEMMA FindKeeps ==
  ASSUME IInv, NEW e \in Editors, NEW s \in Schedules, NEW kind \in EditKinds,
         NEW p \in Periods, FindSchedule(e, s, kind, p)
  PROVE  IInv'
<1> DEFINE row == [pc |-> "found", kind |-> kind, schedule |-> s,
           period |-> IF kind \in {"create", "cron"} THEN p ELSE period[s],
           next |-> IF kind \in {"create", "cron"} \/ (kind = "enable" /\ ~enabled[s])
                      THEN 0 ELSE nextRunAt[s]]
<1>1. period[s] \in Periods /\ nextRunAt[s] \in Times /\ kind \in AllEditKinds
  BY DispatchAssumption DEF IInv, TypeOK
<1>2. row \in RequestRow /\ Holding(row)
  BY <1>1, Numbers DEF RequestRow, Holding
<1>3. /\ request' = [request EXCEPT ![e] = row]
      /\ UNCHANGED <<clock, scheduleVars, runVars, settingVars, worker>>
  BY DEF FindSchedule
<1> HIDE DEF row
<1> QED
  BY <1>2, <1>3, RequestStep

LEMMA CheckKeeps == ASSUME IInv, NEW e \in Editors, CheckActivation(e) PROVE IInv'
<1> DEFINE r == request[e]
           row == [r EXCEPT !.pc = "allowed",
                            !.next = IF @ = 0 THEN CronNext(r.period, clock) ELSE @]
<1>1. /\ r \in RequestRow /\ r.schedule \in Schedules /\ r.period \in Periods
      /\ clock \in 0..MaxClock
  BY DEF CheckActivation, IInv, TypeOK, RequestRow, Holding
<1>2. CronNext(r.period, clock) \in Times
  BY <1>1, NextIsATime
<1>3. row \in RequestRow /\ Holding(row)
  <2> HIDE DEF CronNext
  <2> QED
    BY <1>1, <1>2 DEF RequestRow, Holding
<1>4. /\ request' = [request EXCEPT ![e] = NoRequest] \/ request' = [request EXCEPT ![e] = row]
      /\ UNCHANGED <<clock, scheduleVars, runVars, settingVars, worker>>
  BY DEF CheckActivation
<1> HIDE DEF row
<1> QED
  BY <1>3, <1>4, RowDefaults, RequestStep

LEMMA WriteKeeps == ASSUME IInv, NEW e \in Editors, WriteSchedule(e) PROVE IInv'
<1> DEFINE r == request[e]  s == r.schedule
<1>1. r \in RequestRow /\ s \in Schedules /\ r.period \in Periods /\ r.next \in Times
  BY DEF WriteSchedule, IInv, TypeOK, RequestRow, Holding
<1>2. UNCHANGED <<clock, lastRunAt, runVars, settingVars, worker>>
  BY DEF WriteSchedule
<1>3. exists' \in [Schedules -> BOOLEAN]
  BY DEF WriteSchedule, IInv, TypeOK
<1>4. enabled' \in [Schedules -> BOOLEAN]
  <2>1. \E b \in BOOLEAN : enabled' = [enabled EXCEPT ![s] = b]
    BY <1>1 DEF WriteSchedule, IInv, TypeOK
  <2> QED
    BY <2>1 DEF IInv, TypeOK
<1>5. period' \in [Schedules -> Periods]
  BY <1>1 DEF WriteSchedule, IInv, TypeOK
<1>6. nextRunAt' \in [Schedules -> Times] /\ since' \in [Schedules -> Times]
  BY <1>1 DEF WriteSchedule, IInv, TypeOK
<1>7. /\ request' \in [Editors -> RequestRow]
      /\ \A q \in Editors : Holding(request'[q])
  BY RowDefaults DEF WriteSchedule, IInv, TypeOK, RequestRow
<1>8. TypeOK'
  BY <1>2, <1>3, <1>4, <1>5, <1>6, <1>7 DEF IInv, TypeOK, RequestRow, runVars, settingVars
<1> QED
  BY <1>2, <1>7, <1>8 DEF IInv, runVars, OneRunPerOccurrence, LastRunExists

LEMMA BuildKeeps == ASSUME IInv, NEW e \in Editors, BuildManualRun(e) PROVE IInv'
<1> DEFINE row == [request[e] EXCEPT !.pc = "built"]
<1>1. request[e] \in RequestRow /\ Holding(request[e]) /\ request[e].pc = "allowed"
  BY DEF BuildManualRun, IInv, TypeOK, RequestRow
<1>2. row \in RequestRow /\ Holding(row)
  BY <1>1 DEF RequestRow, Holding
<1>3. /\ request' = [request EXCEPT ![e] = NoRequest] \/ request' = [request EXCEPT ![e] = row]
      /\ UNCHANGED <<clock, scheduleVars, runVars, settingVars, worker>>
  BY DEF BuildManualRun, IInv, TypeOK
<1> HIDE DEF row
<1> QED
  BY <1>2, <1>3, RowDefaults, RequestStep

LEMMA ManualKeeps == ASSUME IInv, NEW e \in Editors, CreateManualRun(e) PROVE IInv'
<1>1. manualRuns' \in 0..MaxManual
  BY DispatchAssumption DEF CreateManualRun, IInv, TypeOK
<1>2. /\ request' \in [Editors -> RequestRow]
      /\ \A q \in Editors : Holding(request'[q])
  BY RowDefaults DEF CreateManualRun, IInv, TypeOK, RequestRow
<1>3. UNCHANGED <<clock, scheduleVars, runs, settingVars, worker>>
  BY DEF CreateManualRun
<1>4. TypeOK'
  BY <1>1, <1>2, <1>3 DEF IInv, TypeOK, RequestRow, scheduleVars, settingVars
<1> QED
  BY <1>2, <1>3, <1>4 DEF IInv, scheduleVars, OneRunPerOccurrence, LastRunExists

-------------------------------------------------------------------------------
LEMMA SettingsKeep ==
  ASSUME IInv, NEW b \in BOOLEAN, SetActivation(b) \/ SetUsable(b) \/ SetBuildable(b)
  PROVE  IInv'
<1>1. /\ enabled' \in [Schedules -> BOOLEAN]
      /\ activated' \in BOOLEAN /\ usable' \in BOOLEAN /\ buildable' \in BOOLEAN
  BY DEF SetActivation, SetUsable, SetBuildable, IInv, TypeOK, scheduleVars
<1>2. UNCHANGED <<clock, exists, period, nextRunAt, lastRunAt, since, runVars, worker, request>>
  BY DEF SetActivation, SetUsable, SetBuildable, scheduleVars
<1>3. TypeOK'
  BY <1>1, <1>2 DEF IInv, TypeOK, runVars
<1> QED
  BY <1>2, <1>3 DEF IInv, runVars, OneRunPerOccurrence, LastRunExists

LEMMA TickKeeps == IInv /\ Tick => IInv'
<1> SUFFICES ASSUME IInv, Tick PROVE IInv'
  OBVIOUS
<1>1. clock' \in 0..MaxClock
  BY Numbers DEF Tick, IInv, TypeOK
<1>2. UNCHANGED <<scheduleVars, runVars, settingVars, worker, request>>
  BY DEF Tick
<1>3. TypeOK'
  BY <1>1, <1>2 DEF IInv, TypeOK, scheduleVars, runVars, settingVars
<1> QED
  BY <1>2, <1>3 DEF IInv, scheduleVars, runVars, OneRunPerOccurrence, LastRunExists

LEMMA NextIInv == IInv /\ [Next]_vars => IInv'
<1> SUFFICES ASSUME IInv, [Next]_vars PROVE IInv'
  OBVIOUS
<1>1. ASSUME NEW p \in Processes, Work(p) \/ Interrupt(p) PROVE IInv'
  BY <1>1, ListKeeps, ReadKeeps, DispatchKeeps, OtherWorkKeeps DEF Work
<1>2. ASSUME NEW e \in Editors, Edit(e) PROVE IInv'
  BY <1>2, FindKeeps, CheckKeeps, WriteKeeps, BuildKeeps, ManualKeeps DEF Edit
<1>3. CASE UNCHANGED vars
  <2>1. TypeOK'
    BY <1>3 DEF vars, scheduleVars, runVars, settingVars, IInv, TypeOK
  <2> QED
    BY <1>3, <2>1 DEF vars, scheduleVars, runVars, IInv, OneRunPerOccurrence, LastRunExists
<1> QED
  BY <1>1, <1>2, <1>3, TickKeeps, SettingsKeep DEF Next

LEMMA AlwaysIInv == Spec => []IInv
BY InitIInv, NextIInv, PTL DEF Spec

-------------------------------------------------------------------------------
(* Every variable keeps its type: no occurrence lies further ahead than a  *)
(* period of the longest cron.                                             *)
THEOREM TypeCorrect == Spec => []TypeOK
<1>1. IInv => TypeOK
  BY DEF IInv
<1> QED
  BY <1>1, AlwaysIInv, PTL

(* However many processes dispatch, and whatever the requests write back,  *)
(* an occurrence of a schedule has at most one run.                        *)
THEOREM OccurrencesRunOnce == Spec => []OneRunPerOccurrence
<1>1. IInv => OneRunPerOccurrence
  BY DEF IInv
<1> QED
  BY <1>1, AlwaysIInv, PTL

(* lastRunAt names an occurrence that has its run.                         *)
THEOREM LastRunIsReal == Spec => []LastRunExists
<1>1. IInv => LastRunExists
  BY DEF IInv
<1> QED
  BY <1>1, AlwaysIInv, PTL

-------------------------------------------------------------------------------
(* What a dispatcher has read of a schedule stays so, as long as no edit   *)
(* of a cron or enabling of a schedule comes between.  Activated: a        *)
(* schedule that was read while the automation was active is enabled only  *)
(* while it is active.  Covered: whatever the schedule, or a request that  *)
(* will write the nextRunAt it has read, leaves behind has its run.        *)
Covered(s, n) == \A t \in since[s]..(n - 1) : t % period[s] = 0 => runs[s][t] = 1

Known(w) == w.pc = "read" => exists[w.schedule]

Activated(w) == w.pc = "read" /\ ~w.refused /\ enabled[w.schedule] => activated

WritesBack(r) ==
    /\ r.pc \in {"found", "allowed"} /\ r.kind # "create" =>
          exists[r.schedule] /\ r.next > 0 /\ Covered(r.schedule, r.next)
    /\ r.pc = "allowed" => r.next > 0

ActiveInv == \A p \in Processes : Known(worker[p]) /\ Activated(worker[p])

CoveredInv ==
    /\ \A s \in Schedules : exists[s] => nextRunAt[s] > 0 /\ Covered(s, nextRunAt[s])
    /\ \A p \in Processes : worker[p].pc = "read" =>
          exists[worker[p].schedule] /\ worker[p].period = period[worker[p].schedule]
    /\ \A e \in Editors : WritesBack(request[e])

(* The dispatcher a step leaves: it has read nothing, or what it had read. *)
LEMMA WorkersAfter ==
  ASSUME IInv, NEW p \in Processes, Work(p) \/ Interrupt(p), NEW q \in Processes,
         worker'[q].pc = "read"
  PROVE  \/ worker'[q] = worker[q]
         \/ /\ Due(worker'[q].schedule, worker[q].now) /\ worker'[q].schedule \in Schedules
            /\ worker'[q].period = period[worker'[q].schedule]
            /\ worker'[q].refused = ~StepsCanBeBuilt
<1>1. worker \in [Processes -> WorkerRow]
  BY DEF IInv, TypeOK, WorkerRow
<1>2. CASE NextSchedule(p) \/ worker' = [worker EXCEPT ![p] = IdleWorker] \/ ListDue(p)
  <2>1. PICK row : row.pc # "read" /\ worker' = [worker EXCEPT ![p] = row]
    <3>1. CASE NextSchedule(p)
      <4> DEFINE row == IF worker[p].todo = {} THEN IdleWorker
                        ELSE [IdleWorker EXCEPT !.pc = "listed", !.now = worker[p].now,
                                                !.todo = worker[p].todo]
      <4>1. row.pc # "read"
        BY DEF IdleWorker
      <4>2. worker' = [worker EXCEPT ![p] = row]
        BY <1>1, <3>1 DEF NextSchedule
      <4> HIDE DEF row
      <4> QED
        BY <4>1, <4>2
    <3>2. CASE worker' = [worker EXCEPT ![p] = IdleWorker]
      BY <3>2 DEF IdleWorker
    <3>3. CASE ListDue(p)
      BY <3>3 DEF ListDue, IdleWorker
    <3> QED
      BY <1>2, <3>1, <3>2, <3>3
  <2> QED
    BY <1>1, <2>1
<1>3. ASSUME NEW s \in Schedules, ReadSchedule(p, s)
      PROVE  \/ worker'[q] = worker[q]
             \/ /\ Due(worker'[q].schedule, worker[q].now) /\ worker'[q].schedule \in Schedules
                /\ worker'[q].period = period[worker'[q].schedule]
                /\ worker'[q].refused = ~StepsCanBeBuilt
  <2>1. CASE q # p \/ ~Due(s, worker[p].now)
    BY <1>1, <1>3, <2>1 DEF ReadSchedule, WorkerRow
  <2>2. CASE q = p /\ Due(s, worker[p].now)
    BY <1>1, <1>3, <2>2 DEF ReadSchedule, WorkerRow
  <2> QED
    BY <2>1, <2>2
<1> QED
  BY <1>2, <1>3 DEF Work, Dispatch, RollBack, EndTick, Interrupt

LEMMA WorkLeaves ==
  ASSUME NEW p \in Processes, Work(p) \/ Interrupt(p)
  PROVE  UNCHANGED <<clock, exists, enabled, period, since, manualRuns, settingVars, request>>
BY DEF Work, Interrupt, ListDue, ReadSchedule, Dispatch, RollBack, EndTick, scheduleVars,
   runVars

(* A schedule that exists goes on existing, and without "enable" no        *)
(* request enables it.                                                     *)
LEMMA EditsLeave ==
  ASSUME IInv, NEW e \in Editors, Edit(e)
  PROVE  /\ UNCHANGED <<clock, settingVars, worker, runs, lastRunAt>>
         /\ \A s \in Schedules : exists[s] => exists'[s]
<1>1. UNCHANGED <<clock, settingVars, worker, runs, lastRunAt>>
  BY DEF Edit, FindSchedule, CheckActivation, WriteSchedule, BuildManualRun, CreateManualRun,
     scheduleVars, runVars
<1>2. exists' = exists \/ WriteSchedule(e)
  BY DEF Edit, FindSchedule, CheckActivation, BuildManualRun, CreateManualRun, scheduleVars
<1>3. ASSUME WriteSchedule(e) PROVE \A s \in Schedules : exists[s] => exists'[s]
  BY <1>3 DEF WriteSchedule, IInv, TypeOK
<1> QED
  BY <1>1, <1>2, <1>3

-------------------------------------------------------------------------------
(* Requests are of the kinds there are; one at rest counts as a rename.    *)
Asked(kind) == kind \in EditKinds \cup {"rename"}

LEMMA KindsAre == Spec => [](\A e \in Editors : Asked(request[e].kind))
<1> USE DEF Asked
<1> DEFINE K == \A e \in Editors : Asked(request[e].kind)
<1>1. Init => K
  BY DEF Init, NoRequest
<1>2. IInv /\ K /\ [Next]_vars => K'
  <2> SUFFICES ASSUME IInv, K, [Next]_vars PROVE K'
    OBVIOUS
  <2>1. request \in [Editors -> RequestRow]
    BY DEF IInv, TypeOK, RequestRow
  <2>2. ASSUME NEW e \in Editors, Edit(e) PROVE K'
    <3>1. ASSUME NEW s \in Schedules, NEW kind \in EditKinds, NEW p \in Periods,
                 FindSchedule(e, s, kind, p)
          PROVE  K'
      BY <2>1, <3>1 DEF FindSchedule
    <3>2. CASE CheckActivation(e)
      <4> HIDE DEF CronNext
      <4> QED
        BY <2>1, <3>2 DEF CheckActivation, NoRequest, RequestRow
    <3>3. CASE WriteSchedule(e) \/ CreateManualRun(e)
      <4>1. request' = [request EXCEPT ![e] = NoRequest]
        BY <3>3 DEF WriteSchedule, CreateManualRun
      <4> QED
        BY <2>1, <4>1 DEF NoRequest
    <3>4. CASE BuildManualRun(e)
      BY <2>1, <3>4 DEF BuildManualRun, NoRequest, RequestRow
    <3> QED
      BY <2>2, <3>1, <3>2, <3>3, <3>4 DEF Edit
  <2>3. CASE UNCHANGED request
    BY <2>3
  <2> QED
    BY <2>2, <2>3, WorkLeaves DEF Next, Tick, SetActivation, SetUsable, SetBuildable, vars
<1> QED
  BY <1>1, <1>2, AlwaysIInv, PTL DEF Spec

LEMMA EditsKeepActive ==
  ASSUME IInv, ActiveInv, NEW e \in Editors, Edit(e), request[e].kind # "enable"
  PROVE  ActiveInv'
<1>1. UNCHANGED <<settingVars, worker>> /\ \A s \in Schedules : exists[s] => exists'[s]
  BY EditsLeave
<1>2. \A s \in Schedules : exists[s] /\ enabled'[s] => enabled[s]
  <2>1. enabled' = enabled \/ WriteSchedule(e)
    BY DEF Edit, FindSchedule, CheckActivation, BuildManualRun, CreateManualRun, scheduleVars
  <2>2. ASSUME WriteSchedule(e) PROVE \A s \in Schedules : exists[s] /\ enabled'[s] => enabled[s]
    BY <2>2 DEF WriteSchedule, IInv, TypeOK
  <2> QED
    BY <2>1, <2>2
<1>3. \A p \in Processes : worker[p].pc = "read" => worker[p].schedule \in Schedules
  BY DEF IInv, Reading
<1> QED
  BY <1>1, <1>2, <1>3 DEF ActiveInv, Known, Activated, settingVars

LEMMA StepKeepsActive ==
  ASSUME IInv, ActiveInv, "enable" \notin EditKinds,
         \A e \in Editors : Asked(request[e].kind), [Next]_vars
  PROVE  ActiveInv'
<1>1. \A p \in Processes : worker[p].pc = "read" => worker[p].schedule \in Schedules
  BY DEF IInv, Reading
<1>2. ASSUME NEW p \in Processes, Work(p) \/ Interrupt(p) PROVE ActiveInv'
  <2>1. UNCHANGED <<exists, enabled, settingVars>>
    BY <1>2, WorkLeaves
  <2> SUFFICES ASSUME NEW q \in Processes, worker'[q].pc = "read"
               PROVE  (Known(worker[q]) /\ Activated(worker[q]))'
    BY DEF ActiveInv, Known, Activated
  <2>2. CASE worker'[q] = worker[q]
    BY <2>1, <2>2 DEF ActiveInv, Known, Activated, settingVars
  <2>3. CASE worker'[q] # worker[q]
    <3>1. /\ exists[worker'[q].schedule]
          /\ worker'[q].refused = ~StepsCanBeBuilt
      BY <1>2, <2>3, WorkersAfter DEF Due
    <3> QED
      BY <2>1, <3>1 DEF Known, Activated, StepsCanBeBuilt, settingVars
  <2> QED
    BY <2>2, <2>3
<1>3. ASSUME NEW e \in Editors, Edit(e) PROVE ActiveInv'
  BY <1>3, EditsKeepActive DEF Asked
<1>4. ASSUME NEW b \in BOOLEAN, SetActivation(b) PROVE ActiveInv'
  BY <1>1, <1>4 DEF SetActivation, ActiveInv, Known, Activated
<1>5. CASE Tick \/ (\E b \in BOOLEAN : SetUsable(b) \/ SetBuildable(b)) \/ UNCHANGED vars
  BY <1>5 DEF Tick, SetUsable, SetBuildable, vars, scheduleVars, settingVars, ActiveInv,
     Known, Activated
<1> QED
  BY <1>2, <1>3, <1>4, <1>5 DEF Next

(* Where no request enables schedules, the dispatcher starts nothing for   *)
(* an automation that was switched off, at whatever point of the           *)
(* transaction.  The assumption is needed: an enabling that has found the  *)
(* automation active may write after it was switched off, and the          *)
(* transaction of a dispatcher that read the schedule before finds it as   *)
(* it was.                                                                 *)
THEOREM NothingStartsWhenOff ==
  ASSUME "enable" \notin EditKinds PROVE Spec => DispatchedWhileActive
<1>1. Init => ActiveInv
  BY DEF Init, ActiveInv, Known, Activated, IdleWorker
<1>2. Spec => []ActiveInv
  BY <1>1, KindsAre, AlwaysIInv, StepKeepsActive, PTL DEF Spec
<1>3. IInv /\ ActiveInv /\ [Next]_vars => [runs' # runs => activated]_vars
  <2> SUFFICES ASSUME IInv, ActiveInv, Next, runs' # runs PROVE activated
    OBVIOUS
  <2>1. PICK p \in Processes : Dispatch(p)
    <3>1. ASSUME NEW e \in Editors, Edit(e) PROVE FALSE
      BY <3>1, EditsLeave
    <3> QED
      BY <3>1 DEF Next, Tick, SetActivation, SetUsable, SetBuildable, Work, Interrupt, ListDue,
         ReadSchedule, RollBack, EndTick, runVars
  <2> QED
    BY <2>1 DEF Dispatch, StillScheduled, ActiveInv, Activated
<1> QED
  BY <1>2, <1>3, AlwaysIInv, PTL DEF Spec, DispatchedWhileActive

-------------------------------------------------------------------------------
(* Between an occurrence and the next there is none.                       *)
LEMMA NoneBetween ==
  ASSUME NEW p \in Nat \ {0}, NEW t \in Nat, NEW u \in Nat, u % p = 0, u > t
  PROVE  u >= CronNext(p, t)
<1> DEFINE k == t \div p  j == u \div p
<1>1. k \in Nat /\ p * k <= t /\ j \in Nat /\ u = p * j
  OBVIOUS
<1> HIDE DEF k, j
<1>2. j >= k + 1
  <2> SUFFICES ASSUME j <= k PROVE FALSE
    BY <1>1
  <2>1. p * j <= p * k
    BY <1>1
  <2> QED
    BY <1>1, <2>1
<1>3. PICK d \in Nat : j = (k + 1) + d
  <2>1. j - (k + 1) \in Nat /\ j = (k + 1) + (j - (k + 1))
    BY <1>1, <1>2
  <2> QED
    BY <2>1
<1>4. p * j = p * (k + 1) + p * d /\ p * d >= 0
  BY <1>1, <1>3
<1> QED
  BY <1>1, <1>4 DEF CronNext, k

(* What has run under an unchanged cron stays covered.                     *)
LEMMA StaysCovered ==
  ASSUME NEW s \in Schedules, NEW n, Covered(s, n), since'[s] = since[s], period'[s] = period[s],
         \A t \in Int : runs[s][t] = 1 => runs'[s][t] = 1
  PROVE  Covered(s, n)'
BY DEF Covered

LEMMA WritesBackStays ==
  ASSUME NEW r \in RequestRow, Holding(r), WritesBack(r),
         \A s \in Schedules : exists[s] =>
             /\ exists'[s] /\ since'[s] = since[s] /\ period'[s] = period[s]
             /\ \A t \in Int : runs[s][t] = 1 => runs'[s][t] = 1
  PROVE  WritesBack(r)'
BY StaysCovered DEF WritesBack, Holding

LEMMA InitCovered == IInv /\ Init => CoveredInv
<1> SUFFICES ASSUME IInv, Init PROVE CoveredInv
  OBVIOUS
<1>1. ASSUME NEW s \in Schedules, exists[s]
      PROVE  nextRunAt[s] > 0 /\ Covered(s, nextRunAt[s])
  <2>1. period[s] \in Nat \ {0} /\ nextRunAt[s] = CronNext(period[s], 0) /\ since[s] = nextRunAt[s]
    BY <1>1, Numbers DEF Init
  <2>2. nextRunAt[s] \in Nat /\ nextRunAt[s] > 0
    BY <2>1, NextIsLater
  <2> HIDE DEF CronNext
  <2> QED
    BY <2>1, <2>2 DEF Covered
<1>2. \A e \in Editors : WritesBack(request[e])
  BY DEF Init, WritesBack, NoRequest
<1> QED
  BY <1>1, <1>2 DEF CoveredInv, Init, IdleWorker

(* The steps of a dispatcher: the occurrence that it dispatches gets its   *)
(* run, and there is none before the one the schedule is put on.           *)
LEMMA WorkCovers ==
  ASSUME IInv, CoveredInv, NEW p \in Processes, Work(p) \/ Interrupt(p)
  PROVE  CoveredInv'
<1>1. UNCHANGED <<clock, exists, enabled, period, since, request>>
  BY WorkLeaves
<1>2. \A q \in Processes : worker'[q].pc = "read" =>
          exists'[worker'[q].schedule] /\ worker'[q].period = period'[worker'[q].schedule]
  <2> SUFFICES ASSUME NEW q \in Processes, worker'[q].pc = "read"
               PROVE  exists[worker'[q].schedule]
                      /\ worker'[q].period = period[worker'[q].schedule]
    BY <1>1
  <2>1. CASE worker'[q] = worker[q]
    BY <2>1 DEF CoveredInv
  <2>2. CASE worker'[q] # worker[q]
    BY <2>2, WorkersAfter DEF Due
  <2> QED
    BY <2>1, <2>2
<1>3. CASE Dispatch(p)
  <2> DEFINE s == worker[p].schedule  t == worker[p].scheduledFor
  <2>1. /\ s \in Schedules /\ t \in 0..MaxClock /\ nextRunAt[s] = t /\ exists[s]
        /\ worker[p].period = period[s] /\ period[s] \in Nat \ {0} /\ t \in Nat /\ t \in Times
    <3>1. /\ s \in Schedules /\ t \in 0..MaxClock /\ nextRunAt[s] = t
      BY <1>3 DEF Dispatch, StillScheduled, IInv, Reading
    <3>2. exists[s] /\ worker[p].period = period[s] /\ period[s] \in Periods
      BY <1>3, <3>1 DEF Dispatch, CoveredInv, IInv, TypeOK
    <3>3. t \in Nat /\ t \in Times /\ period[s] \in Nat \ {0}
      <4>1. t \in Nat
        BY <3>1, DispatchAssumption
      <4>2. t \in Times
        BY <3>1, Numbers
      <4>3. period[s] \in Nat \ {0}
        BY <3>2, DispatchAssumption
      <4> QED
        BY <4>1, <4>2, <4>3
    <3> QED
      BY <3>1, <3>2, <3>3
  <2>2. /\ runs' = [runs EXCEPT ![s][t] = runs[s][t] + 1]
        /\ nextRunAt' = [nextRunAt EXCEPT ![s] = CronNext(period[s], t)]
        /\ runs[s][t] = 0
    <3>1. runs[s][t] \in 0..2 /\ ~(runs[s][t] > 0)
      BY <1>3, <2>1 DEF Dispatch, Duplicate, IInv, TypeOK
    <3>2. runs[s][t] = 0
      BY <3>1
    <3> QED
      BY <1>3, <2>1, <3>2 DEF Dispatch, NextOccurrence, IInv, TypeOK
  <2> HIDE DEF s, t, CronNext
  <2>3. runs'[s][t] = 1
    BY <2>1, <2>2 DEF IInv, TypeOK
  <2>4. \A u \in Schedules, v \in Int : runs[u][v] = 1 => runs'[u][v] = 1
    <3> SUFFICES ASSUME NEW u \in Schedules, NEW v \in Int, runs[u][v] = 1
                 PROVE  runs'[u][v] = 1
      OBVIOUS
    <3>1. CASE u = s
      BY <2>1, <2>2, <2>3, <3>1 DEF IInv, TypeOK
    <3>2. CASE u # s
      BY <2>1, <2>2, <3>2 DEF IInv, TypeOK
    <3> QED
      BY <3>1, <3>2
  <2>5. ASSUME NEW u \in Schedules, exists[u]
        PROVE  nextRunAt'[u] > 0 /\ Covered(u, nextRunAt[u])'
    <3>1. Covered(u, nextRunAt[u]) /\ nextRunAt[u] > 0
      BY <2>5 DEF CoveredInv
    <3>2. CASE u # s
      <4>1. nextRunAt'[u] = nextRunAt[u]
        BY <2>2, <3>2 DEF IInv, TypeOK
      <4> QED
        BY <1>1, <2>4, <3>1, <4>1 DEF Covered
    <3>3. CASE u = s
      <4>1. /\ nextRunAt'[s] = CronNext(period[s], t)
            /\ nextRunAt'[s] \in Nat /\ nextRunAt'[s] > t
        BY <2>1, <2>2, NextIsLater DEF IInv, TypeOK
      <4>2. ASSUME NEW v \in since[s]..(nextRunAt'[s] - 1), v % period[s] = 0
            PROVE  runs'[s][v] = 1
        <5>1. since[s] \in Nat /\ v \in Nat /\ v < nextRunAt'[s]
          BY <2>1, <4>1, Numbers DEF IInv, TypeOK, Times
        <5>2. v <= t
          BY <2>1, <4>1, <4>2, <5>1, NoneBetween
        <5>3. CASE v = t
          BY <2>3, <5>3
        <5>4. CASE v < t
          <6>1. v \in since[s]..(nextRunAt[s] - 1)
            BY <2>1, <5>1, <5>4
          <6>2. runs[s][v] = 1
            BY <3>1, <3>3, <4>2, <6>1 DEF Covered
          <6> QED
            BY <2>1, <2>4, <5>1, <6>2
        <5> QED
          BY <2>1, <5>1, <5>2, <5>3, <5>4
      <4> QED
        BY <1>1, <2>1, <3>3, <4>1, <4>2 DEF Covered
    <3> QED
      BY <3>2, <3>3
  <2>6. \A e \in Editors : WritesBack(request[e])'
    <3> SUFFICES ASSUME NEW e \in Editors PROVE WritesBack(request[e])'
      OBVIOUS
    <3>1. PICK r \in RequestRow : r = request[e] /\ Holding(r) /\ WritesBack(r)
      BY DEF IInv, TypeOK, RequestRow, CoveredInv
    <3>2. WritesBack(r)'
      BY <1>1, <2>4, <3>1, WritesBackStays
    <3> QED
      BY <1>1, <3>1, <3>2 DEF WritesBack, Covered
  <2> QED
    BY <1>1, <1>2, <2>5, <2>6 DEF CoveredInv
<1>4. CASE ~Dispatch(p)
  <2>1. UNCHANGED <<runs, nextRunAt>>
    BY <1>4 DEF Work, Interrupt, ListDue, ReadSchedule, RollBack, EndTick, scheduleVars, runVars
  <2> QED
    BY <1>1, <1>2, <2>1 DEF CoveredInv, WritesBack, Covered
<1> QED
  BY <1>3, <1>4

(* A request that writes back writes a nextRunAt up to which all has run.  *)
LEMMA EditsCover ==
  ASSUME IInv, CoveredInv, NEW e \in Editors, Edit(e),
         EditKinds \cap {"cron", "enable"} = {}, Asked(request[e].kind)
  PROVE  CoveredInv'
<1>1. /\ UNCHANGED <<clock, settingVars, worker, runs, lastRunAt>>
      /\ \A s \in Schedules : exists[s] => exists'[s]
  BY EditsLeave
<1>2. request \in [Editors -> RequestRow] /\ \A f \in Editors : Holding(request[f])
  BY DEF IInv, TypeOK, RequestRow
<1>3. \A p \in Processes : worker[p].pc = "read" => worker[p].schedule \in Schedules
  BY DEF IInv, Reading
<1>4. ASSUME NEW row, request' = [request EXCEPT ![e] = row], UNCHANGED scheduleVars,
             WritesBack(row)
      PROVE  CoveredInv'
  <2>1. \A f \in Editors : WritesBack(request'[f])
    BY <1>2, <1>4 DEF CoveredInv
  <2> QED
    BY <1>1, <1>4, <2>1 DEF CoveredInv, WritesBack, Covered, scheduleVars
<1>5. WritesBack(NoRequest)
  BY DEF WritesBack, NoRequest
<1>6. ASSUME NEW s \in Schedules, NEW kind \in EditKinds, NEW p \in Periods,
             FindSchedule(e, s, kind, p)
      PROVE  CoveredInv'
  <2> DEFINE row == [pc |-> "found", kind |-> kind, schedule |-> s,
           period |-> IF kind \in {"create", "cron"} THEN p ELSE period[s],
           next |-> IF kind \in {"create", "cron"} \/ (kind = "enable" /\ ~enabled[s])
                      THEN 0 ELSE nextRunAt[s]]
  <2>1. kind \notin {"cron", "enable"} /\ (kind # "create" => exists[s])
    BY <1>6 DEF FindSchedule
  <2>2. WritesBack(row)
    BY <2>1 DEF WritesBack, CoveredInv
  <2>3. request' = [request EXCEPT ![e] = row] /\ UNCHANGED scheduleVars
    BY <1>6 DEF FindSchedule
  <2> HIDE DEF row
  <2> QED
    BY <1>4, <2>2, <2>3
<1>7. CASE CheckActivation(e)
  <2> DEFINE r == request[e]
             row == [r EXCEPT !.pc = "allowed",
                              !.next = IF @ = 0 THEN CronNext(r.period, clock) ELSE @]
  <2>1. /\ r \in RequestRow /\ r.period \in Nat \ {0} /\ clock \in Nat /\ r.pc = "found"
        /\ r.next \in Nat /\ WritesBack(r)
    BY <1>2, <1>7, Numbers DEF CheckActivation, IInv, TypeOK, Holding, RequestRow, CoveredInv,
       Times
  <2>2. CronNext(r.period, clock) \in Nat /\ CronNext(r.period, clock) > 0
    BY <2>1, NextIsLater
  <2> HIDE DEF CronNext
  <2>3. /\ row.pc = "allowed" /\ row.kind = r.kind /\ row.schedule = r.schedule
        /\ row.next > 0 /\ (r.next > 0 => row.next = r.next)
    BY <2>1, <2>2 DEF RequestRow
  <2>4. WritesBack(row)
    <3> HIDE DEF row, r
    <3> QED
      BY <2>1, <2>3 DEF WritesBack
  <2>5. /\ request' = [request EXCEPT ![e] = NoRequest] \/ request' = [request EXCEPT ![e] = row]
        /\ UNCHANGED scheduleVars
    BY <1>7 DEF CheckActivation
  <2> HIDE DEF row
  <2> QED
    BY <1>4, <1>5, <2>4, <2>5
<1>8. CASE WriteSchedule(e)
  <2> DEFINE r == request[e]  s == r.schedule
  <2>1. /\ r \in RequestRow /\ s \in Schedules /\ r.pc = "allowed" /\ r.kind # "trigger"
        /\ r.kind \notin {"cron", "enable"} /\ WritesBack(r) /\ r.next \in Nat /\ r.next > 0
    BY <1>2, <1>8, Numbers DEF WriteSchedule, Holding, RequestRow, CoveredInv, Asked, Times,
       WritesBack
  <2>2. /\ request' = [request EXCEPT ![e] = NoRequest]
        /\ nextRunAt' = [nextRunAt EXCEPT ![s] = r.next]
        /\ exists' = [exists EXCEPT ![s] = TRUE]
        /\ r.kind = "create" => ~exists[s]
    BY <1>8 DEF WriteSchedule
  <2>3. \A u \in Schedules : u # s \/ r.kind # "create" =>
            since'[u] = since[u] /\ period'[u] = period[u]
    BY <1>8, <2>1 DEF WriteSchedule, IInv, TypeOK
  <2>4. r.kind = "create" => since'[s] = r.next
    BY <1>8, <2>1 DEF WriteSchedule, IInv, TypeOK
  <2> HIDE DEF r, s
  <2>5. \A u \in Schedules : exists[u] => since'[u] = since[u] /\ period'[u] = period[u]
    BY <2>2, <2>3
  <2>6. ASSUME NEW u \in Schedules, exists'[u]
        PROVE  nextRunAt'[u] > 0 /\ Covered(u, nextRunAt[u])'
    <3>1. CASE u # s
      <4>1. exists[u] /\ nextRunAt'[u] = nextRunAt[u]
        BY <2>1, <2>2, <2>6, <3>1 DEF IInv, TypeOK
      <4> QED
        BY <1>1, <2>5, <4>1 DEF CoveredInv, Covered
    <3>2. CASE u = s /\ r.kind # "create"
      <4>1. nextRunAt'[s] = r.next /\ Covered(s, r.next)
        BY <2>1, <2>2, <3>2 DEF IInv, TypeOK, WritesBack, s
      <4> QED
        BY <1>1, <2>1, <2>3, <3>2, <4>1 DEF Covered
    <3>3. CASE u = s /\ r.kind = "create"
      <4>1. nextRunAt'[s] = r.next /\ since'[s] = r.next
        BY <2>1, <2>2, <2>4, <3>3 DEF IInv, TypeOK
      <4> QED
        BY <2>1, <3>3, <4>1 DEF Covered
    <3> QED
      BY <3>1, <3>2, <3>3
  <2>7. ASSUME NEW f \in Editors PROVE WritesBack(request[f])'
    <3>1. CASE f = e
      BY <1>2, <1>5, <2>2, <3>1 DEF WritesBack, NoRequest
    <3>2. CASE f # e
      <4>1. PICK row \in RequestRow : row = request[f] /\ request'[f] = row /\ Holding(row)
                                      /\ WritesBack(row)
        BY <1>2, <2>2, <3>2 DEF CoveredInv
      <4>2. WritesBack(row)'
        BY <1>1, <2>5, <4>1, WritesBackStays
      <4> QED
        BY <4>1, <4>2 DEF WritesBack, Covered
    <3> QED
      BY <3>1, <3>2
  <2>8. \A p \in Processes : worker'[p].pc = "read" =>
            exists'[worker'[p].schedule] /\ worker'[p].period = period'[worker'[p].schedule]
    BY <1>1, <1>3, <2>5 DEF CoveredInv
  <2> QED
    BY <2>6, <2>7, <2>8 DEF CoveredInv
<1>9. CASE BuildManualRun(e)
  <2> DEFINE row == [request[e] EXCEPT !.pc = "built"]
  <2>1. WritesBack(row)
    BY <1>2 DEF WritesBack, RequestRow
  <2>2. /\ request' = [request EXCEPT ![e] = NoRequest] \/ request' = [request EXCEPT ![e] = row]
        /\ UNCHANGED scheduleVars
    BY <1>2, <1>9 DEF BuildManualRun
  <2> HIDE DEF row
  <2> QED
    BY <1>4, <1>5, <2>1, <2>2
<1>10. CASE CreateManualRun(e)
  BY <1>4, <1>5, <1>10 DEF CreateManualRun
<1> QED
  BY <1>6, <1>7, <1>8, <1>9, <1>10 DEF Edit

LEMMA StepCovers ==
  ASSUME IInv, CoveredInv, EditKinds \cap {"cron", "enable"} = {},
         \A e \in Editors : Asked(request[e].kind), [Next]_vars
  PROVE  CoveredInv'
<1>1. CASE UNCHANGED <<exists, period, nextRunAt, since, runs, worker, request>>
  BY <1>1 DEF CoveredInv, WritesBack, Covered
<1> QED
  BY <1>1, WorkCovers, EditsCover DEF Next, Tick, SetActivation, SetUsable, SetBuildable, vars,
     scheduleVars, runVars

(* Where requests neither change a cron nor enable a schedule, no          *)
(* occurrence is passed over, however many dispatchers race, however late  *)
(* they come and whatever nextRunAt the requests write back.               *)
THEOREM NothingIsSkipped ==
  ASSUME EditKinds \cap {"cron", "enable"} = {} PROVE Spec => []NoOccurrenceSkipped
<1>1. CoveredInv => NoOccurrenceSkipped
  BY DEF CoveredInv, Covered, NoOccurrenceSkipped
<1> QED
  BY <1>1, InitIInv, InitCovered, AlwaysIInv, KindsAre, StepCovers, PTL DEF Spec
===============================================================================
