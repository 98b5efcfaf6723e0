# A TLA+ model of winaut

winaut (Orquestra) runs WinThor routines on Windows machines. An API keeps companies,
WinThor instances, schedules and runs in MySQL; agents on the machines poll the API for
automation steps, drive WinThor for them and report the outcome; a web panel shows and
edits all of it. This directory specifies the parts whose correctness depends on the order
of things, checks them with TLC and proves the most important properties with TLAPS.

## The system

| Component | State | Operations | What makes it correct |
|---|---|---|---|
| Job queue (`apps/api/src/agent-jobs`) | per step: status, claiming agent, claim token, lease, attempts; per run: status | claimNext (with the requeue of expired leases), heartbeat, succeed, fail | steps of a run in sequence; one holder per step; run status agrees with steps; outcomes final; every run ends |
| Automation runs (`automation-runs`) | runs and steps, unique deduplication key | createScheduledRun, createManualRun | one run per occurrence |
| Agent runtime (`apps/agent/src/runtime/agent-runtime.ts`, `communication`) | current job, abort signal, lease timer, request under way | start, jobLoop, executeJob, lease heartbeat, reports, stop | no work without a claim; no report for work not done |
| Dispatcher (`automation-scheduler`) | `dispatching` flag; nextRunAt and lastRunAt in the database | tick, dispatchSchedule | no occurrence lost or repeated, none for ever pending |
| Schedules (`automation-schedules`) | enabled, cron, nextRunAt | create, update, trigger | edits do not disturb dispatches |
| Company automations (`company-automations`) | enabled per company and routine | update, assertEnabledForInstance | an inactive routine does nothing |
| Configuration and branches (`automation-configurations`, `winthor-branches`) | settings of routine 507, branches | load, save, preview, reset, create and update a branch | the saved selection names active branches only |
| Definitions (`automation-definitions`) | none | buildStepsForRun | steps numbered, their codes unique |
| Agents, enrollment, credentials (`agents`, `apps/agent/src/enrollment`, `configuration`) | agent status, activation codes, credentials, the encrypted file of the machine | register, issue, enroll, save and load, guard, heartbeat, update, revoke | a code buys one credential; one linked machine; an enabled agent gets in |
| Single-instance lock (`agent-single-instance-lock.ts`) | a lock file with a PID | acquire, release | one agent process per machine; a stale lock is reclaimed |
| Sessions, job handler, drivers (`apps/agent/src/winthor`, `jobs`, `diagnostics`) | what a session owns and how far it is; windows and processes of the desktop | connect, ensureAuthenticated, openRoutine, disconnect | nothing left open, nothing else closed, passwords and codes typed where they belong |
| Administrator authentication (`apps/api/src/auth`, login and shell of the panel) | users, sessions; cookie and cached user of each tab | bootstrap, login, guard, logout, validation | one first administrator; a logout is final and ends nothing else |
| Database connection (`apps/api/src/database`, `health`) | the client, the replacement under way | ping, replaceClient | one replacement at a time, no leak, a usable client throughout |
| Web panel of routine 507 (`apps/web/src/features/automation-configurations`) | query cache, draft, preview, mutations in flight | load, edit, save, preview, reset | the page shows what is saved |
| Other pages, contracts, api-client, installer | forms and types | - | - |

Components interact through the database and over HTTP: an agent or a page calls the API
(request, answer, timeout), the dispatchers of all API processes and the administrators'
requests share rows, the dispatcher hands work to the queue by inserting a run, and a
session shares the desktop with the people who use it. What is hard: requests interleave
between their reads and their writes; `now` is captured before waiting for the database;
agents crash, hang and restart; requests and answers are lost or late; leases expire while
work goes on; windows come and go. `PROJECT.json` lists the hazards line by line, with the
properties that cover each or the reason why none does.

## Modules

| Module | Models | Composes |
|---|---|---|
| `JobQueue` | the steps, the claims and the four endpoints, against any agents | implements `SequentialRuns` |
| `SequentialRuns` | what the queue promises: a run, its progress and its holder | - |
| `AgentFleet` | the agents' job loop, lease timer, lost and late requests, crashes and stops | extends `JobQueue`, calls its actions |
| `RunProgress` | the queue and its agents without time, for liveness | - |
| `ScheduleDispatch` | dispatchers, schedule requests, the company's switch, creation of runs | - |
| `InstanceLock` | the lock file of the agent | - |
| `AgentAccess` | registration, codes, enrollment, credentials, guard, agent start and heartbeat | implements `AgentLinks` |
| `AgentLinks` | what enrollment promises: one code that counts, its exchange, the link of an agent | - |
| `DesktopSession` | job handler and diagnostic, both session kinds, drivers and desktop | - |
| `Routine507` | branch selection, validation and steps of routine 507, as operators | - |
| `BranchConfiguration` | the API handlers and the pages that edit routine 507 | extends `Routine507` |
| `DatabaseConnection` | health checks and the replacement of the Prisma client | - |
| `AdminAccess` | bootstrap, sessions, guard, tabs of a browser | - |
| `*Proofs` | theorems, see *Proofs* | extend the module of their name |
| `JobQueueProofs` | theorems of the queue, of its refinement and of the fleet | extends `AgentFleet` |
| `MC*` | instances for TLC | extend the module of their name |

**JobQueue.** A claimNext is four actions, because other requests run between its
pieces: `ReceiveClaim` captures `now`, `RequeueExpiredJobs` is the statement that
commits on its own, `FindCandidates` is the snapshot the transaction reads (candidates
in order, `take`, and the blocking-step check of each), `ClaimCandidate` /
`SkipCandidate` are the guarded updates of the loop. `DropClaim` abandons it anywhere.
heartbeat, succeed and fail are one transaction each and one action each, executed with
any `now` since the claim (`RequestTimes`). Agents here are the most general: they
present any token ever issued. A token is the number of its claim; 0 is null. Times are
numbers; `claimedAt`, kept after the end of a step, is part of the state. The result and
error texts of a step are left out. `createdAt` is kept per run: the steps of a run are
inserted with it.

**AgentFleet** conjoins each queue action with the agent that causes it. A claim is
granted to whoever still waits for that request, or to nobody; a lost request stays in
`late` and may be executed at any later time. `Punctual` limits time to what timers and
timeouts allow. The pause between two polls has no length.

**RunProgress** exists because a bounded clock expires no lease at the end of a
behaviour. It repeats the queue's rules with `leaseOver` for the clock and one step per
claimNext; its interleavings are JobQueue's subject.

**ScheduleDispatch.** A dispatch is a list of due schedules, then per schedule the
reads of a transaction (`ReadSchedule`) and its writes (`Dispatch`, `RollBack`), which
the unique key and the row lock keep together. The administrators' requests are not
transactions: their read, check and write are separate. A cron expression is its period
and its occurrences are multiples of it. The list's order matters for which schedules
are in it; the loop may take them in any order (the code's order is one of them).

**InstanceLock.** Every file operation is an action. A process is a PID that runs once.
A write goes to the inode that was created, so it may be lost when the name has been
removed. A failed file operation is a `Crash`: in both cases the file stays.

**AgentAccess.** All agents belong to one WinThor instance (`usable`: it is active) of a
company that is active, because no code changes that. `issuing` counts the code requests of
an agent that have passed their check. A transaction is one action; a
request that reads, awaits and then writes outside of one is several (`BeginIssue` /
`IssueCode`, `ReadEnrollment` / `ConsumeCode`, the guard and the handler of a heartbeat,
the read and the write of an update). The enrollment program, its encrypted file (`disk`:
absent, a token, or damaged by a write cut short) and the start of the agent with its
retries are on the machine's side. Codes and tokens are numbered; their hashes are unique,
so a number stands for both. Time is reduced to a code that expires.

**AgentLinks** is enrollment without requests, machines and transactions: a code is issued
and replaces the one before it, it is exchanged once for a new credential, which replaces the
link of the agent, and a link is removed. In `AgentAccess` the code that counts is the open
one (`OpenCode`), what a code has bought is the credential that names it (`BoughtWith`), and
the link is the unrevoked credential that came from a code (`LinkOf`); credentials issued by
hand are no links. An expired code stays the one that counts, and nobody can exchange it.

**DesktopSession.** A driver command is one action that looks at the desktop and changes it;
its time limit may kill it before or after its effect. The controls, titles and sizes the
drivers look for are reduced to the screen a client shows and to whether its controls can be
read; the largest window is the one of a client that has signed in, and a login whose
controls cannot be read may carry its title or not. People open, sign in to and close
clients of their own. The execution mode is part of `profile`, so one run has both session
kinds. A window that shows after the deadline counts as a fault. `Quiet` (nobody starts
anything while a session runs) is an assumption some properties need.

**BranchConfiguration.** `call[p][s]` is the call of page `p` in slot `s`, one slot per
query and mutation, and its `step` says how far the handler is. The reads of one view are
merged into one; a handler that validates and then writes is two. Pages start with their
queries loaded; the retry of a failed query is not modelled. Leaving the environment and
coming back is one action: the components are mounted anew, calls under way lose them.
`inTurn` says whether the API happens to serve its calls one at a time, which nothing in the
code ensures; only `SelectionStaysRunnable` is stated for it. Names and labels are left out;
what a step code keeps of a branch code is the constant `CodePart`, not one-to-one.
`Routine507` has the operators both sides share. Its lists are put in order by `Ordered`,
which chooses the ordered list, because nothing can be proved of `SortSeq`; `At` is
`filter`. A call that is over is `NoCall` again: its answer is at the page.

**DatabaseConnection.** `replacement` is the promise that checks share, `check` where each
of them is. A replacement connects and probes the new client, makes it current and only
then disconnects the previous one. `Graceful` says that the driver lets the queries of a
disconnected client end. `met` is history: whether an outage was met on the way.

**AdminAccess.** `Start` is `onModuleInit`: it refuses a variable without the other and a
short password; the check for administrators and the insert are apart, and the process that
loses on the unique e-mail does not start. Tabs share the cookie of one browser and not
their caches. Each has its page (`leaving` is the panel while its logout is pending), its
cached user and its query of `/me`, which may be in flight beside a logout. `posts` are the
logins and logouts in flight, with the tab that waits; a page can be loaded at any time, and
then, or when the fetch fails in the browser, `Nobody` waits while the API may still handle
the request and the browser still take its cookie. A login is right or wrong.

Operators named in a comment as *mutant* are never used by a specification. Each is a
definition with a plausible bug; `PROJECT.json` says which definition it stands in for
and which property finds it.

## Runs

| Run | What it shows | Bounds |
|---|---|---|
| `queue` | steps in sequence, runs that match their steps and can go on, claims kept, outcomes final, and the refinement, for racing agents and requests | 3 agents of 2 instances, 2 requests, 1 run of 2 steps, 2 claims per step, clock 0..2, lease 1 |
| `fleet` | until it is told to stop, a handler works under its claim and alone on its run, and successes are earned | 2 agents, 1 run of 2 steps, 2 claims per step, clock 0..4, lease 4, heartbeat 1, timeout 1, 1 late request |
| `run_progress` | every run ends, orphaned claims are taken back (liveness) | 2 agents, runs of 2 and 1 steps, window 1, 2 faults |
| `schedules` | one run per occurrence under all requests | 2 dispatchers, 1 editor (all kinds), settings that change, failures, periods 1 and 2, clock 0..2, 1 manual run |
| `schedules_due` | every occurrence is run (liveness), none skipped, nothing dispatched while inactive | 2 dispatchers, 2 schedules, lists of 1, clock 0..3, no edits |
| `schedule_rewound` | expects a violation: see *Disagreements found* | 1 schedule, a rename, clock 0..2 |
| `lock` | a settled lock is respected, a stale one reclaimed (liveness) | 3 processes |
| `access` | the refinement of `AgentLinks`, one use per code, one linked machine, an enabled agent gets in, the agent is online at last (liveness) | 1 agent, 2 machines, 2 enrollments, 1 editor, 2 codes, 2 tokens, 1 fault |
| `desktop` | nothing left open, nothing else closed, passwords and codes where they belong, every session ends (liveness) | both modes, job and diagnostic, 2 processes, 1 fault, `Quiet` |
| `branches` | a settled page shows the database, every active branch runs, a saved selection stays runnable | 1 page, 2 branches, 2 codes, 1 edit, 2 requests, 1 lost answer or departure of the panels |
| `database` | "down" has a cause, no leak, a connected client, an answer to every check (liveness) | 3 checks at once, 4 in all, 2 outages, `Graceful` |
| `admin` | one first administrator, sessions end for a cause, a logout is final, validation ends (liveness) | 2 processes, 2 tabs; 3 starts with 2 spellings of one address, or 2 sessions, or 1 session with 1 fault and 2 starts |

Why these are enough: a race needs two requests, agents or processes, and a third adds no
new kind of overlap (three are used where the second may lose to the first and meet a third:
the lock, the health checks); a stale claim needs a second claim of the same step; sequence
needs two steps, and the separation of instances an agent of another one. A window of 1 or 2
is full with the runs there are. A code used twice needs two enrollments, and the recovery
from a fault a second code and token. A desktop needs the client of the session and one of
somebody else. A page has a save, a reset, a preview and its queries in flight with two
requests. In `admin` each deployment of `MCDeployments` has bounds of its own: two processes
race to create the administrator without anybody logged in; with two tabs and two sessions
the logout of one session is handled after the other tab has logged in again, and a `/me` of
either tab is in flight while the other, or the tab itself, logs out; with one session a
request fails, is given up by a reload, or the session expires. The type invariants (but for
that of `RunProgress`) and `ClaimMatchesStatus`, `OneOpenCode` and `WorkIsInOrder` are
proved, and are not among the properties of the runs.

In `fleet` the lease of 4 is the smallest that works for interval 1 and timeout 1: with 3
TLC finds an agent that is still waiting for its heartbeat when the lease is over. The
theorem `WorkersKeepTheirClaim` says the same for all values: the lease must exceed the
interval plus two timeouts. In the product it is 120 s against 30 s and 10 s, unless
configured otherwise; nothing checks that a configuration keeps the relation.
The clock of `fleet` ends with the first lease, so that two steps can be explored with
everything that may be late. Two configurations look further with one of these cut down, pass,
and are not among the runs because theorems say the same for all values: `MCAgentFleetLong` has
one step and a clock that outlasts a renewed lease; `MCAgentFleetOrder` has agents that are not
punctual and lose their claim while they work on, for `WorkIsInOrder`. `SuccessesAreEarned` and
`WorkFollowsTheRun` are proved for such agents as well.

Some properties are stated under a condition that names what the code does not guard
against, so that the rest is checked in the same run:

- `SelectionStaysRunnable` for calls served in turn (`inTurn`).
- `SettledPageIsCurrent` without lost answers and with the panels kept on the page: when
  they leave it while a fetch is in flight, an invalidation only marks the cache, and the
  answer of the earlier fetch clears the mark. That rule is the query library's.
- `NothingLeftOpen`, `ClosesOnlyItsOwn` and `RoutineReachesWinThor` up to the first fault,
  the first for GO-Global and the last for local sessions.
- `OnlineAtLast` for an agent that stays enabled and machines without a token in their
  environment, which would be loaded instead of the enrolled one.

`Careful` in `access` lets the operator issue and use a code only when it is needed, which
bounds the codes. It keeps an issue from overlapping an enrollment or another issue of the
agent that is under way; for these interleavings too the theorems of `AgentAccessProofs`
hold, `EnrollmentImplementsLinks` among them, and only `OnlineAtLast` is left unchecked.
`CHECK_DEADLOCK FALSE` stands where a bound is used up or everybody has finished.

### Fairness

- `RunProgress`: the job loop polls as long as the process is up, every handler ends (its
  drivers have timeouts), a stopped agent is started again, and time passes (`LeaseEnds`).
  Faults have no fairness and are bounded: the code has no limit on attempts, and an agent
  that failed in every one would rightly never finish.
- `ScheduleDispatch`: the interval fires for ever and every transaction ends; requests and
  edits have no fairness, and the clock none.
- `InstanceLock`: a file operation that was started ends.
- `AgentAccess`: `Programs` says that requests are served and programs go on; `Operator`
  that somebody registers and activates, issues a code, runs the enrollment and starts the
  agent, the restart after an enrollment included, as the program's messages say.
- `DesktopSession`: a session's next step is taken (`SessionStep`): every wait and every
  command has a deadline. Nothing is assumed of people.
- `DatabaseConnection`: every await of a check and of a replacement ends.
- `AdminAccess`: a `/me` is handled while an API process runs (`Me`) and its answer arrives
  (`MeAnswered`). Nobody is obliged to start the API again, and nothing is assumed of logins
  and logouts. `ValidationEnds` excepts a page that somebody loads for ever.

The other runs assume nothing.

### Disagreements found

`schedule_rewound` is a run that expects a violation, and `PROJECT.json` quotes the statement
it refutes: `AutomationSchedulesService.update` writes back the `nextRunAt` it read. A rename
that overlaps a dispatch puts the schedule back on an occurrence whose run exists; every
later dispatch ends in the duplicate key and the schedule never runs again until its cron
changes or it is disabled and enabled.

The other disagreements are kept as configurations that are not among the runs. Each has
TLC find the counterexample (`tlc -config <name>.cfg <module>`).

| Configuration | Module, property | What the repository says | What the code does |
|---|---|---|---|
| `MCScheduleInactive` | `MCScheduleDispatch`, `InactiveMeansIdle` | schedules of an inactive routine can be neither created nor executed (`company-automations-panel.tsx:112`) | create and trigger check the activation and write later (`automation-schedules.service.ts:24`, `:101`) |
| `MCInstanceLockRace` | `MCInstanceLock`, `SingleOwner` | "prevents a second Agent process from acquiring the same live lock" (`agent-single-instance-lock.test.ts:13`) | the file exists before its PID is in it, and a file without a PID is removed (`agent-single-instance-lock.ts:32`) |
| `MCAgentAccessDisabled` | `MCAgentAccess`, `DisabledIsNotOnline` | calls of a disabled agent are refused immediately (`agent-lifecycle-actions.tsx:80`) | a heartbeat the guard admitted before is executed after (`agents.service.ts:71`) |
| `MCAgentAccessReinstalled` | `MCAgentAccess`, `SeenFromThisInstallation` | a recent heartbeat "desta instalação" (`agent-onboarding-section.tsx:21`) | so is one of the installation before it |
| `MCDesktopShared` | `MCDesktopSession`, `ClosesOnlyItsOwn` | "reuses an authenticated existing session without closing it" (`go-global-winthor.session.test.ts:254`) | a client a person opens while a job waits for its own is taken for the job's (`go-global-winthor.session.ts:104`) |
| `MCBranchCodes` | `MCBranchConfiguration`, `EveryActiveBranchRuns` | a new active branch is in the next runs (`routine-507-panel.tsx:246`) | codes that differ in punctuation only get one step code, and the steps are refused (`routine-507.definition.ts:30`) |
| `MCBranchEffective` | `MCBranchConfiguration`, `EffectiveSequenceIsShown` | "Esta é a sequência atualmente efetiva." (`routine-507-panel.tsx:361`) | the steps of the last save outlive a reset or a new branch (`:114`) |
| `MCBranchPreview` | `MCBranchConfiguration`, `PreviewIsOfTheDraft` | "Preview calculado para as alterações atuais." (`routine-507-panel.tsx:358`) | a save that ends replaces the draft and keeps the preview (`:56`) |
| `MCBranchMonth` | `MCBranchConfiguration`, `MonthClicksCount` | months are chosen by clicks (`routine-507-panel.tsx:256`) | on a freshly loaded panel the click is lost (`:136`) |
| `MCAdminAdvice` | `MCAdminAccess`, `AdviceKeepsApiStarting` | remove the bootstrap password afterwards (`.env.example:15`) | with the e-mail still set the API does not start (`auth-bootstrap.service.ts:34`) |

Three more show when the condition of a property is taken away: a deactivation and a save in
flight together leave an inactive branch selected (`inTurn` of `SelectionStaysRunnable`,
`winthor-branches.service.ts:111`); a client that shows its window after the deadline is never
closed (`faults = 0` of `NothingLeftOpen`, `go-global-winthor.session.ts:109`); after a refused
internal login of WinThor the routine code is typed on the login screen and the routine
reported as opened (the mode in `RoutineReachesWinThor`,
`powershell-go-global-desktop.driver.ts:1456`).

A related hazard has no statement in the repository to hold it to: a change of cron
between the reads and the update of a dispatch is overwritten by a `nextRunAt` computed
from the old cron, and occurrences of the new one are skipped. `NoOccurrenceSkipped` is
checked with edits that leave the cron alone. It is false as well for three requests that
overlap, two of which enable the schedule.

## Proofs

The theorems hold for all constants that satisfy the assumptions of the modules: any
number of agents, steps, requests, processes, and any bounds.

| Theorem | Module | Property |
|---|---|---|
| `TypeCorrect`, `StepsRunInSequence`, `RunsMatchTheirSteps`, `ClaimsMatchTheirSteps`, `ClaimsAreKept`, `OutcomesStay` | `JobQueueProofs` | `TypeOK`, `SequentialExecution`, `RunMatchesSteps`, `ClaimMatchesStatus`, `LiveClaimsAreKept`, `OutcomesAreFinal` |
| `QueueImplementsRuns`, `FleetImplementsRuns` | `JobQueueProofs` | `ImplementsSequentialRuns`, of `Spec` and of `FleetSpec` |
| `RunsNeverStick` | `JobQueueProofs` | `RunsCanProceed` |
| `FleetTypeCorrect`, `SuccessesAreEarned`, `WorkersKeepTheirClaim`, `RunsHaveOneWorker`, `WorkFollowsTheRun`, `SucceededRunsWereDone` | `JobQueueProofs` | `FleetTypeOK`, `SuccessIsEarned`, `WorkersHoldTheirClaim`, `OneWorkerPerRun`, `WorkIsInOrder`, `RunsAreEarned` |
| `FleetImplementsQueue` | `JobQueueProofs` | `FleetSpec => Spec` |
| `TypeCorrect`, `OccurrencesRunOnce`, `LastRunIsReal`, `NothingStartsWhenOff`, `NothingIsSkipped` | `ScheduleDispatchProofs` | `TypeOK`, `OneRunPerOccurrence`, `LastRunExists`, `DispatchedWhileActive`, `NoOccurrenceSkipped` |
| `TypeCorrect`, `SettledLockHolds` | `InstanceLockProofs` | `TypeOK`, `SettledLockIsRespected` |
| `TypeCorrect`, `CodesBuyOnce`, `OneCodeIsOpen`, `OneMachineIsLinked`, `EnabledAgentsMayCall` | `AgentAccessProofs` | `TypeOK`, `CodeUsedOnce`, `OneOpenCode`, `OneLinkedMachine`, `EnabledIsNotLockedOut` |
| `EnrollmentImplementsLinks`, `CredentialsMatchTheirCodes` | `AgentAccessProofs` | `ExchangesCodesForLinks`, `BoughtForOwner` |
| `TypeCorrect`, `NoClientLeaks`, `CurrentStaysConnected`, `DownIsCaused` | `DatabaseConnectionProofs` | `TypeOK`, `NothingLeaks`, `CurrentIsConnected`, `DownHasACause` |
| `TypeCorrect`, `SessionsEndOnlyForACause`, `SignedOutStaysOut`, `BootstrapCreatesOne` | `AdminAccessProofs` | `TypeOK`, `SessionsEndForACause`, `SignedOutIsRefused`, `OneFirstAdmin` |
| `TypeCorrect`, `SecretsAreTypedWhereTheyBelong`, `NothingIsLeftOpen`, `RoutinesReachWinThor`, `SessionsCloseOnlyTheirOwn` | `DesktopSessionProofs` | `TypeOK`, `SecretsReachTheirLogin`, `NothingLeftOpen`, `RoutineReachesWinThor`, `ClosesOnlyItsOwn` |
| `TypeCorrect`, `SettledPagesAreCurrent`, `ActiveBranchesAlwaysRun`, `SelectionsStayRunnable` | `BranchConfigurationProofs` | `TypeOK`, `SettledPageIsCurrent`, `EveryActiveBranchRuns`, `SelectionStaysRunnable` |

Some theorems have a hypothesis, because the statement is false without it:

| Theorem | Hypothesis | Without it |
|---|---|---|
| `WorkersKeepTheirClaim`, `RunsHaveOneWorker` | `Timely`; handlers that have not been told to stop | a short lease ends under an agent at work (*Runs*); an aborted handler may run on while its step is given to another |
| `SettledLockHolds` | nobody else was alive beside the owner (`Undisputed`) when the other process started | one that is about to remove the file lets the other in (`MCInstanceLockRace`) |
| `DownIsCaused` | `Graceful` | a driver that breaks off queries makes a check fail with no outage |
| `BootstrapCreatesOne` | one address in all environments | each address gets its administrator |
| `SettledPagesAreCurrent` | one page | another page changes the database, and nothing tells this one |
| `ActiveBranchesAlwaysRun`, `SelectionsStayRunnable` | `PartsDiffer`: no two codes have one `CodePart` | `MCBranchCodes` has the counterexample |
| `NothingStartsWhenOff`, `NothingIsSkipped`, and those of `DesktopSession` but for `TypeCorrect` | no request enables a schedule, nor changes a cron for the second; `Quiet` | see below and `MCDesktopShared` |

Few of these properties are inductive alone. What each proof adds:

- **JobQueue** (`IInv`). The steps of a run exist exactly as long as the run
  (`StepsExistWithRun`): otherwise creating a run could follow its conclusion. And the
  predecessors of a step in somebody's snapshot have succeeded (`CandidatesReady`), which
  makes the stale snapshot of claimNext harmless: a predecessor that has succeeded never
  changes again, so the check made at the snapshot still holds at the update. The three
  invariants are proved together because each needs the others: a run that is RUNNING has
  no failed step, a step that holds a token is RUNNING, and a RUNNING step has only
  succeeded predecessors. That a run never sticks (`RunsCanProceed`) follows from them: a
  RUNNING run has steps that have not succeeded, the one with the least number among them
  exists because `<` on the naturals is well-founded, nothing blocks it, and the claim's
  columns agree with its status. This is the part of liveness that needs no fairness: what a
  claim or a requeue asks for is there, in every state.
- **Refinement.** The holder of a run is the agent of its RUNNING step. That there is at
  most one such step (`OneAtWork`, `HoldersKnown`) makes the mapping a function. A run has
  finitely many steps (`LengthAssumption`), so its progress can be counted; a success adds
  one, and completes the run exactly when it reaches its length.
- **AgentFleet** (`FInv`). A request was sent after the claim it is about, and no later
  claim has its token (`Past`). So a step of the fleet is a step of the queue, and all that
  is proved of the queue holds with these agents. `TimelyInv` adds the lease left in each
  state of the heartbeat (`Renewing`), that no late request names a claim somebody is
  working under, and that a handler of claimNext works for whoever waits for it with the
  `now` of his request (`Awaited`). It needs `Timely`: punctual agents and a lease longer
  than the interval plus two timeouts. The last one is used up by a heartbeat that the API
  receives as late as its timeout allows, and the one before by the next. Two agents at work
  for one run hold the tokens of two RUNNING steps of it, and there is one at most
  (`OneAtWork`), hence `RunsHaveOneWorker`. The order of the work needs no punctuality: when a
  step was granted its predecessors had succeeded, successes are final, so the predecessors of
  whatever an agent has are done even when its claim is not its own any more
  (`PredecessorsDone`); each success was earned.
- **ScheduleDispatch.** What a dispatcher or a request has read of a schedule and holds when
  it comes to write is of the right types (`Reading`, `Holding`); `OneRunPerOccurrence` and
  `LastRunExists` are proved together with it. `NothingStartsWhenOff` follows a transaction
  from its read to its write (`ActiveInv`): the schedule it read was enabled then, switching
  the automation off disables it, and the write finds it changed. A request that found the
  automation active and enables the schedule later would undo that, hence the hypothesis.
  For `NothingIsSkipped`, every occurrence before `nextRunAt` has its run, and the same holds
  of whatever `nextRunAt` a request has read and will write back (`CoveredInv`): a stale
  write turns a schedule back, never forward. A new cron or an enabling counts from the
  present and passes over occurrences.
- **InstanceLock.** A lock whose owner is settled, and disputed by nobody, is one every
  later process sees (`SettledOwnersAreSeen`).
- **AgentAccess.** A code that bought a credential is closed (`UsedAreClosed`), an open one
  was issued (`OpenAreIssued`), an edit under way is about a registered agent
  (`EditsAreOfAgents`). For the refinement a credential that came from a code belongs to the
  agent of that code (`BoughtForOwner`), and an agent has one open code and one link at
  most, which makes the mapping functions (`KnownLinks`). An issue maps to `Issue`, the
  transaction of an enrollment to `Exchange`, the revocation of an enrolled credential to
  `Unlink`; everything else, the expiry of a code and a credential issued by hand included,
  is a stutter.
- **DatabaseConnection.** Which clients may be open at each step of a replacement
  (`RightsLeft`), that a check that failed asks for one replacement (`OneReplacement`), and
  that failures have met an outage (`OutagesAreMet`, for `Graceful` drivers).
- **DesktopSession** (`IInv`). While nobody else starts anything, one session is at work
  (`OneAtWork`), each is on a way its mode allows (`OnItsWay`), and a client whose window
  does not show yet was started by a session (`StartingInv`). With these the largest window
  of a session that has started its client is its own until the password is typed, whatever
  commands are killed; and a window of the size of a login is one, because every client on
  the desktop was started for a login and nobody has signed it in (`LoginsInv`). The other
  three follow that client from its start to its end and hold until the first fault
  (`OwnersInv`): the session at work owns it, and it is the only one that this program
  opened.
- **BranchConfiguration.** `TInv` is the type invariant with what each call is about
  (`CallTypes`), codes that differ (`CodesDiffer`) and lists that name branches with a row
  (`ListsKnown`); without it an edit could change a row that does not exist. `CacheInv` says
  of each page that its cache is the database, or a query in flight will read it, or a
  mutation that has written is still to end and invalidate it (`Tracks`). For the steps of a
  run, a list put in order loses no member (`OrderedExists`: the rank of a member is the
  number of those before it), the turns of months and branches are as many as the pairs, and
  so the steps are as many as the codes (`StepsOfRun`). With calls served in turn one handler
  is at work (`OneAtATime`), so what a save has validated and what a deactivation has found
  unused is still so when they write (`SelectionInv`).
- **AdminAccess.** A panel without a user is asking for one (`Paging`). What the cookie, the
  queries and the requests in flight name has been issued (`SessionTypes`), so a login makes
  a session that no logout on its way can name, and no session has ended (`EndedAreGone`);
  a process that is about to create the administrator has the one address
  (`Bootstrapping`). `BootstrapCreatesOne` assumes that all environments name one address.

Only model-checked: all liveness, which is out of the prover's reach (`EveryRunEnds`,
`OrphansAreReclaimed`, `OccurrencesAreRun`, `StaleLockIsReclaimed`, `OnlineAtLast`,
`SessionEnds`, `ChecksAreAnswered`, `ValidationEnds`), and the types of `RunProgress`, which
exists for its liveness. What `ScheduleDispatch` does where a cron changes or a schedule is
enabled is checked in `schedules` but for the two properties named above.

## Not modelled

- Schedules with a configuration each: a hundred schedules whose configuration stays
  invalid fill the dispatcher's list and starve the others.
- Companies, WinThor instances and access profiles, but for what other modules read of
  them (`usable`, `profile`): each operation is a validated write of one row.
- The pages of schedules, runs, companies and agents: forms, and lists that poll. Creating
  a schedule and triggering a run are not idempotent; a request sent twice is two.
- Routine 552: one constant step. The executors of steps are scaffolds that throw.
- PIDs that are used again, and the length of pauses and back-offs.
- `onModuleDestroy` of the database service, and the deactivation of administrators, which
  no code performs.
- The geometry of windows, native calls, DPAPI and the credential store itself; the
  contents of results and errors; the installer scripts.

What could come next: schedules with configurations of their own; the composition of
`AgentAccess` with `AgentFleet`, so that a disabled agent loses its jobs; several pages in
`BranchConfiguration`, and what two of them may do to each other.
