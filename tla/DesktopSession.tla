---------------------------- MODULE DesktopSession ----------------------------
(***************************************************************************)
(* One Windows desktop with the programs that drive WinThor on it: the job *)
(* handler of the agent and the diagnostic program.  Each runs a session   *)
(* (GoGlobalWinThorSession or LocalWinThorSession) over a PowerShell       *)
(* driver, among the windows of people who use the same desktop.           *)
(*                                                                         *)
(* A driver command is one action; it may be killed by its time limit      *)
(* before or after its effect.  Window titles, geometry and control trees  *)
(* are reduced to what the driver tells apart.  connected and              *)
(* authenticated of a session are read off its pc.                         *)
(***************************************************************************)
EXTENDS Integers

CONSTANTS
    Programs,   \* subset of {"job", "diagnostic"}
    Processes,  \* bound: client processes on the desktop at one time
    MaxFaults,  \* bound: killed commands, clients that vanish or sign out
    Titled,     \* the windows of WinThor within GO-Global carry its name
    Quiet       \* nobody else starts anything while a session runs

ASSUME DesktopAssumption ==
    /\ Programs \subseteq {"job", "diagnostic"}
    /\ Processes \subseteq Nat \ {0}
    /\ MaxFaults \in Nat \ {0}
    /\ Titled \in BOOLEAN /\ Quiet \in BOOLEAN

VARIABLES
    profile,   \* executionMode of the instance, and what its access profile defines
    vault,     \* entries of the Windows Credential Manager
    client,    \* the GO-Global or WinThor client processes
    session,   \* the session of each program
    typed,     \* history: what was typed last in a session, on which screen
    faults

Modes   == {"GO_GLOBAL", "LOCAL_WINDOWS"}
Profile == [mode : Modes, endpoint : BOOLEAN, reference : BOOLEAN]

vars == <<profile, vault, client, session, typed, faults>>

NoProcess == 0
Screens   == {"host", "connecting", "login", "entering", "catalog", "starting",
              "entry", "checking", "main"}
NoClient  == [up |-> "none", by |-> "person", opaque |-> FALSE,
              screen |-> "host"]
Nothing   == <<"nothing", "host">>
NoSession == [pc |-> "idle", owns |-> FALSE, pid |-> NoProcess, at |-> NoProcess,
              auto |-> FALSE, aborted |-> FALSE]

(* Before a step with one of these pcs connect() has not returned.         *)
Connecting == {"find", "launch", "await", "inspect", "connect", "settle"}

TypeOK ==
    /\ profile \in Profile
    /\ vault \subseteq {"GO_GLOBAL", "WINTHOR"}
    /\ client \in [Processes -> [up : {"none", "starting", "open"},
                                 by : Programs \cup {"person"},
                                 opaque : BOOLEAN, screen : Screens]]
    /\ session \in [Programs ->
          [pc : Connecting \cup {"idle", "begin", "secret", "login", "submitted",
                "verify", "secret2", "entry", "execute", "open", "catalog",
                "launched", "type", "closing"},
           owns : BOOLEAN, pid : Processes \cup {NoProcess},
           at : Processes \cup {NoProcess}, auto : BOOLEAN, aborted : BOOLEAN]]
    /\ typed \in ({"nothing", "goglobal", "winthor", "routine"} \X Screens)
    /\ faults \in 0..MaxFaults

Init ==
    /\ profile \in Profile
    /\ vault \in SUBSET {"GO_GLOBAL", "WINTHOR"}
    /\ client = [p \in Processes |-> NoClient]
    /\ session = [s \in Programs |-> NoSession]
    /\ typed = Nothing
    /\ faults = 0

Fault == faults < MaxFaults /\ faults' = faults + 1
Idle  == \A s \in Programs : session[s].pc = "idle"

-----------------------------------------------------------------------------
(* What the driver sees on the desktop.                                    *)

Open == {p \in Processes : client[p].up = "open"}
On(screens) == {p \in Open : client[p].screen \in screens}

(* The control tree of its window can be read.                             *)
ShowsControls(p) == ~client[p].opaque

Large == On({"catalog", "starting", "entry", "checking", "main"})

(* Get-ClientWindow: the largest GO-Global window.                         *)
ClientWindow == IF Large # {} THEN Large ELSE Open

LoginWindow == {p \in On({"login", "entering"}) : ShowsControls(p)}

(* A login that only its title can tell, which it may carry or not.        *)
OpaqueLogin == {p \in On({"login", "entering"}) : ~ShowsControls(p)}

(* IsExpectedOpaqueLoginWindow looks at the size only.                     *)
OpaqueLoginCandidate == Open \ Large

WinThorWindow == IF Titled THEN On({"entry", "checking", "main"}) ELSE {}

(* Mutant: any large window will do.                                       *)
IsThere(p) == p \in Processes

(* HasCentralVisualContent, of large windows.                              *)
HasContent(p) == client[p].screen \in {"catalog", "entry", "main"}

(* The answers inspectState may give; none when no window is found.        *)
Inspection ==
    IF LoginWindow # {} THEN {"LOGIN_REQUIRED"}
    ELSE {"LOGIN_REQUIRED" : p \in OpaqueLogin} \cup
         IF WinThorWindow # {} THEN {"WINTHOR_READY"}
         ELSE {IF client[p].screen = "host" /\ ShowsControls(p) THEN "CLIENT_READY"
               ELSE "APPLICATION_CATALOG" : p \in ClientWindow}

(* Get-Process lists processes in a fixed order.                           *)
FirstWindow == {p \in Open : \A q \in Open : p <= q}

(* Text goes to the window that has the focus, whatever it shows.          *)
Type(what, p) == typed' = <<what, client[p].screen>>

-----------------------------------------------------------------------------
(* How a session goes on.                                                  *)

Goto(s, pc) == session' = [session EXCEPT ![s].pc = pc]

(* Mutant: connected is set only once authenticated.                       *)
NeedsClosingLate(s) == session[s].pc \in {"execute", "open", "launched", "catalog", "type"}

(* The finally of the job handler disconnects only after connect() has     *)
(* returned; that of the diagnostic always.                                *)
NeedsClosing(s) == s = "diagnostic" \/ session[s].pc \notin Connecting

Throw(s) ==
    session' = [session EXCEPT ![s] =
        IF NeedsClosing(s) THEN [@ EXCEPT !.pc = "closing"] ELSE NoSession]

(* The answer of a command, or its kill after 60 (locally 15) seconds.     *)
Answer(s, next) ==
    \/ session' = [session EXCEPT ![s] = next] /\ UNCHANGED faults
    \/ Fault /\ Throw(s)

At(s, pc, mode) == session[s].pc = pc /\ profile.mode = mode
Same == UNCHANGED <<profile, vault>>
Quietly == UNCHANGED <<profile, vault, client, typed, faults>>

CommandFails(s) ==
    /\ session[s].pc \notin {"idle", "begin", "execute", "closing"}
    /\ Fault
    /\ Throw(s)
    /\ UNCHANGED <<profile, vault, client, typed>>

(* WinThorAgentJobHandler.execute up to connect; the diagnostic's main.    *)
(* A job of another instance or automation ends before it has a session.   *)
Start(s) ==
    /\ session[s].pc = "idle"
    /\ Quiet => Idle
    /\ profile.endpoint \/ profile.mode = "LOCAL_WINDOWS"
    /\ session' = [session EXCEPT ![s].pc = "find"]
    /\ Quietly

(* The lease of the job is lost, or the agent stops.                       *)
Abort ==
    /\ "job" \in Programs /\ session["job"].pc # "idle"
    /\ ~session["job"].aborted
    /\ session' = [session EXCEPT !["job"].aborted = TRUE]
    /\ Quietly

(* throwIfAborted, between connect, ensureAuthenticated and execute.       *)
GoOnUnlessAborted(s, pc) ==
    /\ IF session[s].aborted THEN Throw(s) ELSE Goto(s, pc)
    /\ Quietly

-----------------------------------------------------------------------------
(* connect()                                                               *)

FindClient(s) ==
    /\ At(s, "find", "GO_GLOBAL")
    /\ Goto(s, IF Open = {} THEN "launch" ELSE "inspect")
    /\ Quietly

FindLocalWindow(s) ==
    /\ At(s, "find", "LOCAL_WINDOWS")
    /\ \/ Open # {} /\ Goto(s, "begin")
       \/ Open = {} /\ profile.endpoint /\ Goto(s, "launch")
       \/ Open = {} /\ ~profile.endpoint /\ Throw(s)
    /\ Quietly

(* The client is started; its window shows later.  When the command is     *)
(* killed after that, the session does not know of the client.             *)
StartProcess(s, opacities, screen) == \E p \in Processes, opaque \in opacities :
    /\ client[p].up = "none"
    /\ client' = [client EXCEPT ![p] =
          [up |-> "starting", by |-> s, opaque |-> opaque, screen |-> screen]]

LaunchClient(s) ==
    /\ At(s, "launch", "GO_GLOBAL")
    /\ StartProcess(s, BOOLEAN, "login")
    /\ Answer(s, [session[s] EXCEPT !.pc = "await", !.owns = TRUE, !.auto = TRUE])
    /\ Same /\ UNCHANGED typed

LaunchEndpoint(s) ==
    /\ At(s, "launch", "LOCAL_WINDOWS")
    /\ StartProcess(s, {FALSE}, "entry")
    /\ Answer(s, [session[s] EXCEPT !.pc = "await"])
    /\ Same /\ UNCHANGED typed

(* No App Controller is installed, or the endpoint is not there.           *)
LaunchRefused(s) ==
    /\ session[s].pc = "launch"
    /\ \A p \in Processes : client[p].up # "none"
    /\ Throw(s)
    /\ Quietly

WindowFound(s) ==
    /\ session[s].pc = "await"
    /\ \E p \in IF profile.mode = "GO_GLOBAL" THEN ClientWindow ELSE FirstWindow :
          session' = [session EXCEPT ![s].pc = "begin",
                        ![s].pid = IF session[s].owns THEN p ELSE NoProcess]
    /\ Quietly

(* The window is later than the deadline, which is noted as a fault.       *)
WindowNotFound(s) ==
    /\ session[s].pc = "await"
    /\ Open = {}
    /\ Throw(s)
    /\ faults' = IF faults < MaxFaults THEN faults + 1 ELSE faults
    /\ UNCHANGED <<profile, vault, client, typed>>

InspectClient(s) ==
    /\ session[s].pc = "inspect"
    /\ \/ Inspection = {} /\ Throw(s)
       \/ \E seen \in Inspection :
             Goto(s, IF seen = "CLIENT_READY" THEN "connect" ELSE "begin")
    /\ Quietly

ConnectToHost(s) ==
    /\ session[s].pc = "connect"
    /\ \/ \E p \in ClientWindow :
             /\ client[p].screen = "host" /\ ShowsControls(p)
             /\ client' = [client EXCEPT ![p].screen = "connecting"]
             /\ Answer(s, [session[s] EXCEPT !.pc = "settle"])
       \/ /\ \/ ClientWindow = {}
             \/ \E p \in ClientWindow : client[p].screen # "host" \/ ~ShowsControls(p)
          /\ Throw(s) /\ UNCHANGED <<client, faults>>
    /\ Same /\ UNCHANGED typed

(* waitForState: polls, also while there is no window, until its deadline. *)
WaitForState(s, from, expected, next) ==
    /\ session[s].pc = from
    /\ \/ Inspection \cap expected # {} /\ Goto(s, next)
       \/ Throw(s)
    /\ Quietly

Settle(s) == WaitForState(s, "settle",
    {"LOGIN_REQUIRED", "APPLICATION_CATALOG", "WINTHOR_READY"}, "begin")

-----------------------------------------------------------------------------
(* ensureAuthenticated()                                                   *)

(* The state of the desktop decides, unless the session started the client.*)
BeginGoGlobal(s) ==
    /\ At(s, "begin", "GO_GLOBAL")
    /\ IF session[s].auto THEN GoOnUnlessAborted(s, "secret")
       ELSE \/ Inspection \cap {"LOGIN_REQUIRED"} # {} /\ GoOnUnlessAborted(s, "secret")
            \/ Inspection \cap {"APPLICATION_CATALOG", "WINTHOR_READY"} # {}
                  /\ GoOnUnlessAborted(s, "execute")
            \/ /\ Inspection = {} \/ "CLIENT_READY" \in Inspection
               /\ Throw(s) /\ Quietly

(* Mutant: takes any window of WinThor as a signed-in session.             *)
BeginAnywhere(s) ==
    /\ At(s, "begin", "LOCAL_WINDOWS")
    /\ IF Open = {} THEN Throw(s) /\ Quietly ELSE GoOnUnlessAborted(s, "execute")

(* A title with one of AUTHENTICATION_TITLE_MARKERS asks for a person.     *)
BeginLocal(s) ==
    /\ At(s, "begin", "LOCAL_WINDOWS")
    /\ \/ \E p \in FirstWindow : client[p].screen = "main"
             /\ GoOnUnlessAborted(s, "execute")
       \/ (\A p \in FirstWindow : client[p].screen # "main") /\ Throw(s) /\ Quietly

ResolveSecret(s, from, entry, next) ==
    /\ session[s].pc = from
    /\ IF profile.reference /\ entry \in vault THEN Goto(s, next) ELSE Throw(s)
    /\ Quietly

GoGlobalSecret(s) == ResolveSecret(s, "secret", "GO_GLOBAL", "login")

(* winThorApplicationCredentialReference: an entry of its own.             *)
WinThorSecret(s) == ResolveSecret(s, "secret2", "WINTHOR", "entry")

(* The UI Automation and Win32 paths need controls; the coordinates of the *)
(* opaque login are used only for a client that was started for the run:   *)
(* on the window with the title, or else on one of that size.              *)
LoginCandidates(s) == LoginWindow \cup
    (IF ~session[s].auto THEN {}
     ELSE IF LoginWindow = {} THEN OpaqueLoginCandidate ELSE OpaqueLogin)

SubmitLogin(p) ==
    /\ Type("goglobal", p)
    /\ client' = [client EXCEPT ![p].screen = "entering"]

Authenticate(s) ==
    /\ session[s].pc = "login"
    /\ \/ \E p \in LoginCandidates(s) :
             /\ SubmitLogin(p)
             /\ Answer(s, [session[s] EXCEPT !.pc = "submitted", !.at = p])
       \/ Throw(s) /\ UNCHANGED <<client, typed, faults>>
    /\ Same

(* Mutant: submits the credential again as long as it is refused.          *)
LoginRetried(s) ==
    /\ session[s].pc = "submitted"
    /\ IF session[s].at \in On({"login", "entering"}) THEN Goto(s, "login")
       ELSE Goto(s, IF session[s].auto THEN "secret2" ELSE "verify")
    /\ Quietly

(* Wait-Win32- and Wait-OpaqueGoGlobalLoginTransition.                     *)
LoginTransition(s) ==
    /\ session[s].pc = "submitted"
    /\ \/ ~(session[s].at \in On({"login", "entering"}))
             /\ Goto(s, IF session[s].auto THEN "secret2" ELSE "verify")
       \/ Throw(s)
    /\ Quietly

Verify(s) == WaitForState(s, "verify",
    {"APPLICATION_CATALOG", "WINTHOR_READY"}, "execute")

(* Types into the largest window once it has content; what comes of it is  *)
(* not looked at.                                                          *)
AuthenticateWinThor(s) ==
    /\ session[s].pc = "entry"
    /\ \/ \E p \in ClientWindow \cap Large :
             /\ HasContent(p)
             /\ Type("winthor", p)
             /\ client' = IF client[p].screen = "entry"
                          THEN [client EXCEPT ![p].screen = "checking"] ELSE client
             /\ Answer(s, [session[s] EXCEPT !.pc = "execute"])
       \/ Throw(s) /\ UNCHANGED <<client, typed, faults>>
    /\ Same

-----------------------------------------------------------------------------
(* The executor of a job, which is not implemented yet and throws; the     *)
(* diagnostics open a routine.                                             *)

ExecuteJob ==
    /\ "job" \in Programs /\ session["job"].pc = "execute"
    /\ Throw("job")
    /\ Quietly

Diagnose(mode) ==
    /\ "diagnostic" \in Programs
    /\ At("diagnostic", "execute", mode)
    /\ Goto("diagnostic", "open")
    /\ Quietly

DiagnoseGoGlobal == Diagnose("GO_GLOBAL")
DiagnoseLocal    == Diagnose("LOCAL_WINDOWS")

(* GoGlobalWinThorSession.openRoutine up to the typing of the code.        *)
OpenGoGlobal(s) ==
    /\ At(s, "open", "GO_GLOBAL")
    /\ IF session[s].auto THEN Goto(s, "type")
       ELSE \/ "APPLICATION_CATALOG" \in Inspection /\ Goto(s, "catalog")
            \/ "WINTHOR_READY" \in Inspection /\ Goto(s, "type")
            \/ /\ Inspection = {} \/ Inspection \cap {"LOGIN_REQUIRED", "CLIENT_READY"} # {}
               /\ Throw(s)
    /\ Quietly

(* The application is found by its name, in windows that show controls.    *)
LaunchApplication(s) ==
    /\ session[s].pc = "catalog"
    /\ \/ WinThorWindow # {} /\ Goto(s, "launched") /\ UNCHANGED <<client, faults>>
       \/ \E p \in On({"catalog"}) :
             /\ WinThorWindow = {} /\ ShowsControls(p)
             /\ client' = [client EXCEPT ![p].screen = "starting"]
             /\ Answer(s, [session[s] EXCEPT !.pc = "launched"])
       \/ /\ WinThorWindow = {}
          /\ \A p \in On({"catalog"}) : ~ShowsControls(p)
          /\ Throw(s) /\ UNCHANGED <<client, faults>>
    /\ Same /\ UNCHANGED typed

Launched(s) == WaitForState(s, "launched", {"WINTHOR_READY"}, "type")

OpenLocal(s) ==
    /\ At(s, "open", "LOCAL_WINDOWS")
    /\ IF Open = {} THEN Throw(s) ELSE Goto(s, "type")
    /\ Quietly

RoutineWindow(s) ==
    IF WinThorWindow = {} /\ session[s].auto THEN ClientWindow ELSE WinThorWindow

(* AppActivate and SendKeys.                                               *)
SendRoutine(s, windows) ==
    /\ \/ \E p \in windows :
             Type("routine", p) /\ Answer(s, [session[s] EXCEPT !.pc = "closing"])
       \/ windows = {} /\ Throw(s) /\ UNCHANGED <<typed, faults>>
    /\ Same /\ UNCHANGED client

TypeRoutine(s)      == At(s, "type", "GO_GLOBAL") /\ SendRoutine(s, RoutineWindow(s))
TypeRoutineLocal(s) == At(s, "type", "LOCAL_WINDOWS") /\ SendRoutine(s, FirstWindow)

-----------------------------------------------------------------------------
(* Mutant: does not ask who started the client.                            *)
ClosingAny(s) == Open

(* disconnect(): closeSession only for a client the session started.  With *)
(* a process it closes the windows of that process and ends it; without    *)
(* one, every window of GO-Global or WinThor.  An error is logged.         *)
Closing(s) ==
    IF ~session[s].owns THEN {}
    ELSE IF session[s].pid # NoProcess THEN {session[s].pid} \ {NoProcess} ELSE Open

Disconnect(s) ==
    /\ session[s].pc = "closing"
    /\ session' = [session EXCEPT ![s] = NoSession]
    /\ \/ /\ client' = [p \in Processes |->
                          IF p \in Closing(s) THEN NoClient ELSE client[p]]
          /\ UNCHANGED faults
       \/ session[s].owns /\ Fault /\ UNCHANGED client
    /\ typed' = Nothing
    /\ Same

-----------------------------------------------------------------------------
(* configure-go-global-credential and configure-winthor-credential.        *)

CanProvision == profile.reference /\ profile.mode = "GO_GLOBAL"

ProvisionGoGlobal ==
    /\ CanProvision
    /\ vault' = vault \cup {"GO_GLOBAL"}
    /\ UNCHANGED <<profile, client, session, typed, faults>>

ProvisionWinThor ==
    /\ CanProvision
    /\ vault' = vault \cup {"WINTHOR"}
    /\ UNCHANGED <<profile, client, session, typed, faults>>

-----------------------------------------------------------------------------
(* The clients, the servers behind them, and people.                       *)

WindowOpens(p) ==
    /\ client[p].up = "starting"
    /\ client' = [client EXCEPT ![p].up = "open"]
    /\ UNCHANGED <<profile, vault, session, typed, faults>>

(* The next screens of a client; the login of a session with -a leads to   *)
(* WinThor, any other to the catalog; a login may be refused.              *)
Following(p) ==
    CASE client[p].screen = "connecting" -> {"login", "catalog"}
      [] client[p].screen = "entering" ->
            {"login", IF client[p].by = "person" THEN "catalog" ELSE "starting"}
      [] client[p].screen = "starting" -> {"entry"}
      [] client[p].screen = "checking" -> {"main", "entry"}
      [] OTHER -> {}

ServerAnswers(p) ==
    /\ client[p].up = "open"
    /\ \E screen \in Following(p) :
          client' = [client EXCEPT ![p].screen = screen]
    /\ UNCHANGED <<profile, vault, session, typed, faults>>

PersonOpens(p) ==
    /\ client[p].up = "none"
    /\ Quiet => Idle
    /\ \E opaque \in BOOLEAN, screen \in {"host", "login", "catalog", "entry", "main"} :
          /\ profile.mode = "LOCAL_WINDOWS" => ~opaque /\ screen \in {"entry", "main"}
          /\ client' = [client EXCEPT ![p] =
                [up |-> "open", by |-> "person", opaque |-> opaque, screen |-> screen]]
    /\ UNCHANGED <<profile, vault, session, typed, faults>>

PersonCloses(p) ==
    /\ client[p].up = "open"
    /\ IF Idle THEN client[p].by = "person" /\ UNCHANGED faults ELSE Fault
    /\ client' = [client EXCEPT ![p] = NoClient]
    /\ UNCHANGED <<profile, vault, session, typed>>

PersonSignsIn(p) ==
    /\ client[p].up = "open" /\ client[p].screen = "entry"
    /\ profile.mode = "LOCAL_WINDOWS" \/ client[p].by = "person"
    /\ client' = [client EXCEPT ![p].screen = "main"]
    /\ UNCHANGED <<profile, vault, session, typed, faults>>

SignedOut(p) ==
    /\ client[p].up = "open" /\ client[p].screen = "main"
    /\ Fault
    /\ client' = [client EXCEPT ![p].screen = "entry"]
    /\ UNCHANGED <<profile, vault, session, typed>>

People(p) == PersonOpens(p) \/ PersonCloses(p) \/ PersonSignsIn(p) \/ SignedOut(p)

SessionStep(s) ==
    \/ FindClient(s) \/ FindLocalWindow(s) \/ LaunchClient(s) \/ LaunchEndpoint(s) \/ LaunchRefused(s) \/ WindowFound(s)
    \/ WindowNotFound(s) \/ InspectClient(s) \/ ConnectToHost(s) \/ Settle(s)
    \/ BeginGoGlobal(s) \/ BeginLocal(s) \/ GoGlobalSecret(s) \/ WinThorSecret(s)
    \/ Authenticate(s) \/ LoginTransition(s) \/ Verify(s) \/ AuthenticateWinThor(s)
    \/ OpenGoGlobal(s) \/ LaunchApplication(s) \/ Launched(s)
    \/ OpenLocal(s) \/ TypeRoutine(s) \/ TypeRoutineLocal(s) \/ Disconnect(s)
    \/ s = "job" /\ ExecuteJob
    \/ s = "diagnostic" /\ (DiagnoseGoGlobal \/ DiagnoseLocal)

Next ==
    \/ \E s \in Programs : Start(s) \/ SessionStep(s) \/ CommandFails(s)
    \/ Abort
    \/ ProvisionGoGlobal \/ ProvisionWinThor
    \/ \E p \in Processes : WindowOpens(p) \/ ServerAnswers(p) \/ People(p)

Spec == Init /\ [][Next]_vars

(* The programs go on: every wait of theirs has a deadline, and so has     *)
(* every command.                                                          *)
LiveSpec == Spec /\ \A s \in Programs : WF_vars(SessionStep(s))

-----------------------------------------------------------------------------
(* Up to the first fault, a client that a session started for its run is   *)
(* gone when that session has ended: it "owns the complete App Controller  *)
(* lifecycle", in the words of the tests of GoGlobalWinThorSession.  A     *)
(* local session leaves the WinThor it started to the next one.            *)
NothingLeftOpen ==
    profile.mode = "GO_GLOBAL" /\ faults = 0 =>
        \A s \in Programs, p \in Processes :
            session[s].pc = "idle" /\ client[p].by = s => client[p].up = "none"

(* Up to the first fault, a session closes no client but its own: it       *)
(* "reuses an authenticated existing session without closing it".          *)
ClosesOnlyItsOwn ==
    [][\A p \in Processes, s \in Programs :
          faults = 0 /\ Disconnect(s) /\ client[p].up = "open" /\ client'[p].up = "none"
              => client[p].by = s]_vars

(* The password of WinThor is typed on its own login screen, the one of    *)
(* GO-Global on that of GO-Global, also when commands are killed and       *)
(* windows close: authenticate may go by the size of a window and          *)
(* authenticateWinThor takes the largest.  With another person's client    *)
(* beside them neither would hold (Quiet).                                 *)
SecretsReachTheirLogin ==
    /\ typed[1] = "goglobal" => typed[2] \in {"login", "entering"}
    /\ typed[1] = "winthor" => typed[2] = "entry"

(* A routine is opened where WinThor waits for its code, never on a login  *)
(* screen, as long as nobody signs WinThor out.  Within GO-Global it does  *)
(* not hold: a session with -a does not look whether its login of WinThor  *)
(* was refused before it types the code.                                   *)
RoutineReachesWinThor ==
    profile.mode = "LOCAL_WINDOWS" /\ faults = 0 /\ typed[1] = "routine"
        => typed[2] = "main"

(* Whatever the desktop and the servers do, the job or the diagnostic ends *)
(* and disconnects: the agent can go on with its next job.                 *)
SessionEnds == \A s \in Programs : session[s].pc # "idle" ~> session[s].pc = "idle"
=============================================================================
