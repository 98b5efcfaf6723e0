------------------------ MODULE DesktopSessionProofs ------------------------
(***************************************************************************)
(* Theorems about the sessions on one desktop, for any set of programs and *)
(* of processes and any number of faults.                                  *)
(*                                                                         *)
(* The first part proves the types and, for a desktop on which nobody      *)
(* starts anything while a session runs (Quiet), that secrets reach their  *)
(* login.  The second follows the client a session has started until a     *)
(* first fault is noted.                                                   *)
(***************************************************************************)
EXTENDS DesktopSession, TLAPS

SessionRow == [pc : Connecting \cup {"idle", "begin", "secret", "login", "submitted",
                   "verify", "secret2", "entry", "execute", "open", "catalog",
                   "launched", "type", "closing"},
               owns : BOOLEAN, pid : Processes \cup {NoProcess},
               at : Processes \cup {NoProcess}, auto : BOOLEAN, aborted : BOOLEAN]
ClientRow == [up : {"none", "starting", "open"}, by : Programs \cup {"person"},
              opaque : BOOLEAN, screen : Screens]

(* As long as nobody starts anything while a session runs, one session     *)
(* runs at a time.                                                         *)
OneAtWork == Quiet => \A s, t \in Programs :
    session[s].pc # "idle" /\ session[t].pc # "idle" => s = t

(* The ways a session may take: only one that started its client logs in   *)
(* to WinThor, and a local one never logs in at all.                       *)
Searching == {"idle", "find", "launch", "inspect", "connect", "settle"}
LocalWay  == {"idle", "find", "launch", "await", "begin", "execute", "open", "type",
              "closing"}

OnItsWay(row) ==
    /\ row.owns = row.auto
    /\ row.auto => profile.mode = "GO_GLOBAL" /\ row.pc \notin Searching
    /\ row.pc \in {"secret2", "entry"} => row.auto
    /\ row.pc = "await" /\ profile.mode = "GO_GLOBAL" => row.auto
    /\ profile.mode = "LOCAL_WINDOWS" => row.pc \in LocalWay

(* A client whose window does not show yet was started by a session.       *)
StartingInv == \A p \in Processes : client[p].up = "starting" =>
    /\ client[p].by \in Programs
    /\ client[p].screen = IF profile.mode = "GO_GLOBAL" THEN "login" ELSE "entry"

(* From the start of its client until it has typed the password of WinThor *)
(* a session is alone with clients that no one has signed in to WinThor.   *)
LoggingIn == {"await", "begin", "secret", "login", "submitted", "secret2", "entry"}

LogsIn(row) ==
    /\ profile.mode = "GO_GLOBAL"
    /\ row.pc = "launch" \/ (row.auto /\ row.pc \in LoggingIn)

SignedInByNobody == \A p \in Processes : client[p].up # "none" =>
    /\ client[p].by \in Programs
    /\ client[p].screen \in {"login", "entering", "starting", "entry"}

LoginsInv == Quiet => \A s \in Programs : LogsIn(session[s]) => SignedInByNobody

IInv == /\ TypeOK
        /\ OneAtWork
        /\ \A s \in Programs : OnItsWay(session[s])
        /\ StartingInv
        /\ LoginsInv
        /\ Quiet => SecretsReachTheirLogin

-------------------------------------------------------------------------------
Steps == {"find", "launch", "inspect", "connect", "settle", "await", "begin", "secret",
          "login", "submitted", "verify", "secret2", "entry", "execute", "open",
          "catalog", "launched", "type", "closing"}

(* The assumption on the constants, in the form the steps use it.          *)
LEMMA Facts ==
    /\ "person" \notin Programs /\ NoProcess \notin Processes /\ Processes \subseteq Int
    /\ MaxFaults \in Nat /\ MaxFaults > 0
BY DesktopAssumption DEF NoProcess

(* The row of a session that has ended, and the client that is gone.       *)
LEMMA Rows ==
    /\ NoSession \in SessionRow /\ OnItsWay(NoSession) /\ ~LogsIn(NoSession)
    /\ NoClient \in ClientRow /\ NoClient.up = "none"
BY DEF NoSession, SessionRow, OnItsWay, Searching, LocalWay, LogsIn, NoClient, ClientRow,
       Connecting, Screens

(* The type invariant, by rows.                                            *)
LEMMA Types ==
    TypeOK <=> /\ profile \in Profile
               /\ vault \subseteq {"GO_GLOBAL", "WINTHOR"}
               /\ client \in [Processes -> ClientRow]
               /\ session \in [Programs -> SessionRow]
               /\ typed \in ({"nothing", "goglobal", "winthor", "routine"} \X Screens)
               /\ faults \in 0..MaxFaults
BY DEF TypeOK, ClientRow, SessionRow

LEMMA InitIInv == Init => IInv
<1> SUFFICES ASSUME Init PROVE IInv
  OBVIOUS
<1>1. TypeOK
  BY Rows, Types, Facts DEF Init, Nothing, Screens
<1>2. OneAtWork /\ StartingInv /\ LoginsInv
  BY Rows DEF Init, OneAtWork, StartingInv, LoginsInv, NoSession
<1>3. \A s \in Programs : OnItsWay(session[s])
  BY Rows DEF Init
<1>4. SecretsReachTheirLogin
  BY DEF Init, SecretsReachTheirLogin, Nothing
<1> QED
  BY <1>1, <1>2, <1>3, <1>4 DEF IInv

(* The number of faults stays within its bound.                            *)
LEMMA Counting ==
    ASSUME TypeOK PROVE (Fault \/ UNCHANGED faults) => faults' \in 0..MaxFaults
BY Facts DEF TypeOK, Fault

(* What a step of session s makes of its row, and of nothing else.         *)
BecomesRow(s, row) ==
    /\ row \in SessionRow /\ OnItsWay(row)
    /\ session' = [session EXCEPT ![s] = row]
    /\ UNCHANGED <<profile, vault>>
    /\ session[s].pc # "idle" \/ (Quiet => Idle)

(* The step keeps the invariant when it leaves clients that suit the row.  *)
LEMMA RowStep ==
  ASSUME IInv, NEW s \in Programs, NEW row, BecomesRow(s, row),
         client' \in [Processes -> ClientRow], StartingInv',
         Quiet /\ LogsIn(row) => SignedInByNobody',
         typed' \in ({"nothing", "goglobal", "winthor", "routine"} \X Screens),
         faults' \in 0..MaxFaults,
         Quiet => SecretsReachTheirLogin'
  PROVE  IInv'
<1>1. TypeOK'
  <2>1. session' \in [Programs -> SessionRow] /\ profile' \in Profile
        /\ vault' \subseteq {"GO_GLOBAL", "WINTHOR"}
    BY Types DEF IInv, BecomesRow
  <2> QED
    BY <2>1 DEF TypeOK, ClientRow, SessionRow
<1>2. \A t \in Programs : session'[t] = IF t = s THEN row ELSE session[t]
  BY Types DEF IInv, BecomesRow
<1>3. OneAtWork'
  BY <1>2 DEF IInv, OneAtWork, BecomesRow, Idle
<1>4. \A t \in Programs : OnItsWay(session[t])'
  BY <1>2 DEF IInv, OnItsWay, BecomesRow
<1>5. LoginsInv'
  <2>1. \A t \in Programs : Quiet /\ t # s => session[t].pc = "idle"
    BY DEF IInv, OneAtWork, BecomesRow, Idle
  <2>2. \A t \in Programs : t # s /\ session[t].pc = "idle" => ~LogsIn(session[t])'
    BY <1>2 DEF BecomesRow, LogsIn, IInv, OnItsWay, Searching
  <2>3. LogsIn(session[s])' => LogsIn(row)
    BY <1>2 DEF BecomesRow, LogsIn
  <2> QED
    BY <1>2, <2>1, <2>2, <2>3 DEF LoginsInv
<1> QED
  BY <1>1, <1>3, <1>4, <1>5 DEF IInv

(* Steps that touch no client and type nothing.                            *)
KeepsToItself(s) == \E row :
    BecomesRow(s, row) /\ (LogsIn(row) => LogsIn(session[s]) \/ Open = {})

(* Steps of a session that touch no client and type nothing.               *)
LEMMA OwnStep ==
  ASSUME IInv, NEW s \in Programs, KeepsToItself(s), UNCHANGED <<client, typed>>,
         Fault \/ UNCHANGED faults
  PROVE  IInv'
<1>1. PICK row : BecomesRow(s, row) /\ (LogsIn(row) => LogsIn(session[s]) \/ Open = {})
  BY DEF KeepsToItself
<1>2. client' \in [Processes -> ClientRow] /\ StartingInv'
  BY <1>1, Types DEF IInv, StartingInv, BecomesRow
<1>3. Quiet /\ LogsIn(row) => SignedInByNobody'
  <2>1. Open = {} /\ profile.mode = "GO_GLOBAL" => SignedInByNobody
    BY Types DEF IInv, Open, SignedInByNobody, StartingInv, ClientRow
  <2> QED
    BY <1>1, <2>1 DEF IInv, LoginsInv, SignedInByNobody, LogsIn
<1>4. typed' \in ({"nothing", "goglobal", "winthor", "routine"} \X Screens)
  BY Types DEF IInv
<1>5. faults' \in 0..MaxFaults
  BY Counting DEF IInv
<1>6. Quiet => SecretsReachTheirLogin'
  BY DEF IInv, SecretsReachTheirLogin
<1> QED
  BY <1>1, <1>2, <1>3, <1>4, <1>5, <1>6, RowStep

(* A step of connect() or of what comes after it fails.                    *)
LEMMA Throwing ==
  ASSUME IInv, NEW s \in Programs, Throw(s), UNCHANGED <<profile, vault>>,
         session[s].pc # "idle"
  PROVE  \E row : BecomesRow(s, row) /\ ~LogsIn(row)
<1>1. session[s] \in SessionRow /\ OnItsWay(session[s])
  BY Types DEF IInv
<1>2. CASE NeedsClosing(s)
  <2> DEFINE row == [session[s] EXCEPT !.pc = "closing"]
  <2>1. row \in SessionRow /\ OnItsWay(row) /\ ~LogsIn(row)
    BY <1>1 DEF SessionRow, OnItsWay, LogsIn, LoggingIn, Searching, LocalWay
  <2> QED
    BY <1>2, <2>1 DEF Throw, BecomesRow
<1>3. CASE ~NeedsClosing(s)
  BY <1>3, Rows DEF Throw, BecomesRow
<1> QED
  BY <1>2, <1>3

(* A session goes on to another step of its way.                           *)
LEMMA Going ==
  ASSUME IInv, NEW s \in Programs, NEW pc \in Steps, Goto(s, pc),
         UNCHANGED <<profile, vault>>,
         session[s].pc # "idle" \/ (Quiet => Idle),
         pc # "await",
         pc \in Searching => session[s].pc \in Searching,
         pc \in {"secret2", "entry"} => session[s].auto,
         profile.mode = "LOCAL_WINDOWS" => pc \in LocalWay,
         pc = "launch" => Open = {},
         session[s].auto /\ pc \in LoggingIn => session[s].pc \in LoggingIn
  PROVE  KeepsToItself(s)
<1> DEFINE row == [session[s] EXCEPT !.pc = pc]
<1>1. session[s] \in SessionRow /\ OnItsWay(session[s])
  BY Types DEF IInv
<1>2. row \in SessionRow /\ row.pc = pc /\ row.auto = session[s].auto /\ row.owns = session[s].owns
  BY <1>1 DEF SessionRow, Steps, Connecting
<1>3. OnItsWay(row) /\ (LogsIn(row) => LogsIn(session[s]) \/ Open = {})
  <2> HIDE DEF row
  <2> QED
    BY <1>1, <1>2 DEF OnItsWay, LogsIn
<1> QED
  BY <1>2, <1>3 DEF Goto, BecomesRow, KeepsToItself

LEMMA GoingOn ==
  ASSUME IInv, NEW s \in Programs, NEW pc \in Steps, GoOnUnlessAborted(s, pc),
         session[s].pc # "idle", pc # "await", pc \notin Searching,
         pc \in {"secret2", "entry"} => session[s].auto,
         profile.mode = "LOCAL_WINDOWS" => pc \in LocalWay,
         session[s].auto /\ pc \in LoggingIn => session[s].pc \in LoggingIn
  PROVE  KeepsToItself(s)
<1>1. CASE Throw(s)
  BY <1>1, Throwing DEF GoOnUnlessAborted, Quietly, KeepsToItself
<1>2. CASE Goto(s, pc)
  <2>1. pc # "launch" /\ UNCHANGED <<profile, vault>>
    BY DEF Searching, GoOnUnlessAborted, Quietly
  <2> QED
    BY <1>2, <2>1, Going
<1> QED
  BY <1>1, <1>2 DEF GoOnUnlessAborted

LEMMA Thrown ==
  ASSUME IInv, NEW s \in Programs, Throw(s), UNCHANGED <<profile, vault>>,
         session[s].pc # "idle"
  PROVE  KeepsToItself(s)
BY Throwing DEF KeepsToItself

(* Every step of a session that touches no client and types nothing.       *)
LEMMA OwnSteps ==
  ASSUME IInv, NEW s \in Programs,
         \/ Start(s) \/ FindClient(s) \/ FindLocalWindow(s) \/ LaunchRefused(s)
         \/ WindowFound(s) \/ WindowNotFound(s) \/ InspectClient(s) \/ Settle(s)
         \/ BeginGoGlobal(s) \/ BeginLocal(s) \/ GoGlobalSecret(s) \/ WinThorSecret(s)
         \/ LoginTransition(s) \/ Verify(s) \/ OpenGoGlobal(s) \/ Launched(s)
         \/ OpenLocal(s) \/ CommandFails(s)
         \/ s = "job" /\ ExecuteJob
         \/ s = "diagnostic" /\ (DiagnoseGoGlobal \/ DiagnoseLocal)
  PROVE  KeepsToItself(s)
<1>1. session[s] \in SessionRow /\ OnItsWay(session[s]) /\ profile.mode \in Modes
  BY Types DEF IInv, Profile
<1> USE DEF Steps, Searching, LocalWay, LoggingIn, Quietly, Same, At, OnItsWay, Modes
<1>2. CASE Start(s)
  BY <1>1, <1>2, Going DEF Start, Goto
<1>3. CASE FindClient(s)
  BY <1>1, <1>3, Going DEF FindClient
<1>4. CASE FindLocalWindow(s)
  BY <1>1, <1>4, Going, Thrown DEF FindLocalWindow
<1>5. CASE LaunchRefused(s)
  BY <1>1, <1>5, Thrown DEF LaunchRefused
<1>6. CASE WindowNotFound(s)
  BY <1>1, <1>6, Thrown DEF WindowNotFound
<1>7. CASE InspectClient(s)
  BY <1>1, <1>7, Going, Thrown DEF InspectClient
<1>8. CASE Settle(s)
  BY <1>1, <1>8, Going, Thrown DEF Settle, WaitForState
<1>9. CASE BeginGoGlobal(s)
  BY <1>1, <1>9, GoingOn, Thrown DEF BeginGoGlobal
<1>10. CASE BeginLocal(s)
  BY <1>1, <1>10, GoingOn, Thrown DEF BeginLocal
<1>11. CASE GoGlobalSecret(s)
  BY <1>1, <1>11, Going, Thrown DEF GoGlobalSecret, ResolveSecret
<1>12. CASE WinThorSecret(s)
  BY <1>1, <1>12, Going, Thrown DEF WinThorSecret, ResolveSecret
<1>13. CASE LoginTransition(s)
  BY <1>1, <1>13, Going, Thrown DEF LoginTransition
<1>14. CASE Verify(s)
  BY <1>1, <1>14, Going, Thrown DEF Verify, WaitForState
<1>15. CASE OpenGoGlobal(s)
  BY <1>1, <1>15, Going, Thrown DEF OpenGoGlobal
<1>16. CASE Launched(s)
  BY <1>1, <1>16, Going, Thrown DEF Launched, WaitForState
<1>17. CASE OpenLocal(s)
  BY <1>1, <1>17, Going, Thrown DEF OpenLocal
<1>18. CASE CommandFails(s)
  BY <1>1, <1>18, Thrown DEF CommandFails
<1>19. CASE s = "job" /\ ExecuteJob
  BY <1>1, <1>19, Thrown DEF ExecuteJob
<1>20. CASE s = "diagnostic" /\ (DiagnoseGoGlobal \/ DiagnoseLocal)
  BY <1>1, <1>20, Going DEF DiagnoseGoGlobal, DiagnoseLocal, Diagnose
<1>21. CASE WindowFound(s)
  <2>1. PICK p \in Processes : session' = [session EXCEPT ![s].pc = "begin",
                                 ![s].pid = IF session[s].owns THEN p ELSE NoProcess]
    BY <1>21 DEF WindowFound, ClientWindow, Large, On, Open, FirstWindow
  <2> DEFINE row == [session[s] EXCEPT !.pc = "begin",
                                       !.pid = IF session[s].owns THEN p ELSE NoProcess]
  <2>2. session' = [session EXCEPT ![s] = row]
    BY <2>1, Types DEF IInv
  <2>3. row \in SessionRow /\ OnItsWay(row) /\ session[s].pc = "await"
    BY <1>1, <1>21 DEF SessionRow, Connecting, WindowFound
  <2>4. LogsIn(row) => LogsIn(session[s])
    BY <1>1, <2>3 DEF SessionRow, LogsIn
  <2> QED
    BY <2>2, <2>3, <2>4, <1>21 DEF KeepsToItself, BecomesRow, WindowFound
<1> QED
  BY <1>2, <1>3, <1>4, <1>5, <1>6, <1>7, <1>8, <1>9, <1>10, <1>11, <1>12, <1>13,
     <1>14, <1>15, <1>16, <1>17, <1>18, <1>19, <1>20, <1>21

(* The outcome of a command: the next row, or the end of the session.      *)
LEMMA Answering ==
  ASSUME IInv, NEW s \in Programs, NEW next \in SessionRow, Answer(s, next),
         UNCHANGED <<profile, vault>>, session[s].pc # "idle", OnItsWay(next)
  PROVE  /\ \E row : BecomesRow(s, row) /\ (row = next \/ ~LogsIn(row))
         /\ Fault \/ UNCHANGED faults
BY Throwing DEF Answer, BecomesRow

(* A client as a session that logs in may meet it.                         *)
LoginClient(c) == c.up # "none" =>
    c.by \in Programs /\ c.screen \in {"login", "entering", "starting", "entry"}

(* A step of a session that changes one client.                            *)
LEMMA ClientStep ==
  ASSUME IInv, NEW s \in Programs, NEW row, BecomesRow(s, row),
         NEW p \in Processes, NEW c \in ClientRow,
         client' = [client EXCEPT ![p] = c],
         c.up = "starting" => c.by \in Programs
            /\ c.screen = IF profile.mode = "GO_GLOBAL" THEN "login" ELSE "entry",
         LogsIn(row) => LogsIn(session[s]) /\ (SignedInByNobody => LoginClient(c)),
         Fault \/ UNCHANGED faults,
         typed' \in ({"nothing", "goglobal", "winthor", "routine"} \X Screens),
         Quiet => SecretsReachTheirLogin'
  PROVE  IInv'
<1>1. client \in [Processes -> ClientRow] /\ profile' = profile
  BY Types DEF IInv, BecomesRow
<1>2. client' \in [Processes -> ClientRow] /\ StartingInv'
  BY <1>1 DEF IInv, StartingInv
<1>3. Quiet /\ LogsIn(row) => SignedInByNobody'
  BY <1>1 DEF IInv, LoginsInv, SignedInByNobody, LoginClient
<1>4. faults' \in 0..MaxFaults
  BY Counting DEF IInv
<1> QED
  BY <1>2, <1>3, <1>4, RowStep

(* launchClient of GO-Global and of the local endpoint.                    *)
LEMMA LaunchSteps ==
  ASSUME IInv, NEW s \in Programs, LaunchClient(s) \/ LaunchEndpoint(s)
  PROVE  IInv'
<1> DEFINE next == IF LaunchClient(s)
                   THEN [session[s] EXCEPT !.pc = "await", !.owns = TRUE, !.auto = TRUE]
                   ELSE [session[s] EXCEPT !.pc = "await"]
<1>1. session[s] \in SessionRow /\ OnItsWay(session[s]) /\ session[s].pc = "launch"
  BY Types DEF IInv, LaunchClient, LaunchEndpoint, At
<1>2. next \in SessionRow /\ OnItsWay(next) /\ Answer(s, next)
      /\ UNCHANGED <<profile, vault, typed>>
  BY <1>1 DEF SessionRow, Connecting, OnItsWay, Searching, LocalWay, LaunchClient,
              LaunchEndpoint, At, Same
<1> HIDE DEF next
<1>3. PICK row : BecomesRow(s, row) /\ (row = next \/ ~LogsIn(row))
  BY <1>1, <1>2, Answering
<1>4. PICK p \in Processes, opaque \in BOOLEAN, screen \in {"login", "entry"} :
         /\ client' = [client EXCEPT ![p] =
               [up |-> "starting", by |-> s, opaque |-> opaque, screen |-> screen]]
         /\ screen = IF profile.mode = "GO_GLOBAL" THEN "login" ELSE "entry"
  BY DEF LaunchClient, LaunchEndpoint, StartProcess, At
<1> DEFINE c == [up |-> "starting", by |-> s, opaque |-> opaque, screen |-> screen]
<1>5. c \in ClientRow /\ LoginClient(c) /\ c.by \in Programs
      /\ c.screen = IF profile.mode = "GO_GLOBAL" THEN "login" ELSE "entry"
  BY <1>4 DEF ClientRow, Screens, LoginClient
<1>6. LogsIn(row) => LogsIn(session[s])
  BY <1>1 DEF LogsIn
<1>7. Fault \/ UNCHANGED faults
  BY <1>1, <1>2, Answering
<1>8. typed' \in ({"nothing", "goglobal", "winthor", "routine"} \X Screens)
      /\ (Quiet => SecretsReachTheirLogin')
  BY <1>2, Types DEF IInv, SecretsReachTheirLogin
<1> HIDE DEF c
<1>9. client' = [client EXCEPT ![p] = c]
  BY <1>4 DEF c
<1> QED
  BY <1>3, <1>5, <1>6, <1>7, <1>8, <1>9, ClientStep

LEMMA ConnectStep ==
  ASSUME IInv, NEW s \in Programs, ConnectToHost(s)
  PROVE  IInv'
<1> DEFINE next == [session[s] EXCEPT !.pc = "settle"]
<1>1. session[s] \in SessionRow /\ OnItsWay(session[s]) /\ session[s].pc = "connect"
      /\ UNCHANGED <<profile, vault, typed>>
  BY Types DEF IInv, ConnectToHost, Same
<1>2. next \in SessionRow /\ OnItsWay(next)
  BY <1>1 DEF SessionRow, Connecting, OnItsWay, Searching, LocalWay
<1>3. ~LogsIn(next)
  BY <1>1, <1>2 DEF SessionRow, LogsIn, LoggingIn
<1>4. CASE \E p \in ClientWindow : /\ client[p].screen = "host"
              /\ client' = [client EXCEPT ![p].screen = "connecting"]
              /\ Answer(s, next)
  <2> HIDE DEF next
  <2>1. PICK p \in Processes : client[p].up = "open"
              /\ client' = [client EXCEPT ![p].screen = "connecting"]
              /\ Answer(s, next)
    BY <1>4 DEF ClientWindow, Large, On, Open
  <2>2. PICK row : BecomesRow(s, row) /\ (row = next \/ ~LogsIn(row))
    BY <1>1, <1>2, <2>1, Answering
  <2> DEFINE c == [client[p] EXCEPT !.screen = "connecting"]
  <2>3. c \in ClientRow /\ c.up # "starting"
    BY <2>1, Types DEF IInv, ClientRow, Screens
  <2>4. client' = [client EXCEPT ![p] = c]
    BY <2>1, Types DEF IInv
  <2>5. typed' \in ({"nothing", "goglobal", "winthor", "routine"} \X Screens)
        /\ (Quiet => SecretsReachTheirLogin')
    BY <1>1, Types DEF IInv, SecretsReachTheirLogin
  <2>6. Fault \/ UNCHANGED faults
    BY <1>1, <1>2, <2>1, Answering
  <2> HIDE DEF c
  <2> QED
    BY <1>3, <2>2, <2>3, <2>4, <2>5, <2>6, ClientStep
<1>5. CASE Throw(s) /\ UNCHANGED <<client, faults>>
  BY <1>1, <1>5, Thrown, OwnStep
<1> QED
  BY <1>4, <1>5 DEF ConnectToHost

(* authenticate: the password of GO-Global is typed on its login.  A size  *)
(* is no proof of a login; but the session that goes by it is alone with   *)
(* clients that nobody has signed in.                                      *)
LEMMA LoginStep ==
  ASSUME IInv, NEW s \in Programs, Authenticate(s)
  PROVE  IInv'
<1>1. session[s] \in SessionRow /\ OnItsWay(session[s]) /\ session[s].pc = "login"
      /\ UNCHANGED <<profile, vault>>
  BY Types DEF IInv, Authenticate, Same
<1>2. CASE \E p \in LoginCandidates(s) : SubmitLogin(p)
              /\ Answer(s, [session[s] EXCEPT !.pc = "submitted", !.at = p])
  <2>1. PICK p \in LoginCandidates(s) : /\ SubmitLogin(p)
              /\ Answer(s, [session[s] EXCEPT !.pc = "submitted", !.at = p])
    BY <1>2
  <2>2a. p \in Processes /\ client[p].up = "open"
    BY <2>1 DEF LoginCandidates, LoginWindow, OpaqueLogin, OpaqueLoginCandidate, On, Open
  <2>2b. Quiet => client[p].screen \in {"login", "entering"}
    <3>1. CASE p \in On({"login", "entering"})
      BY <3>1 DEF On
    <3>2. CASE session[s].auto /\ p \notin Large
      <4>1. Quiet => SignedInByNobody
        BY <1>1, <3>2 DEF IInv, LoginsInv, LogsIn, LoggingIn, OnItsWay
      <4>2. client[p].screen \notin {"starting", "entry"}
        BY <2>2a, <3>2 DEF Large, On, Open
      <4> QED
        BY <2>2a, <4>1, <4>2 DEF SignedInByNobody
    <3> QED
      BY <2>1, <3>1, <3>2 DEF LoginCandidates, LoginWindow, OpaqueLogin, OpaqueLoginCandidate
  <2> DEFINE next == [session[s] EXCEPT !.pc = "submitted", !.at = p]
             c == [client[p] EXCEPT !.screen = "entering"]
  <2>2. next \in SessionRow /\ OnItsWay(next) /\ (LogsIn(next) => LogsIn(session[s]))
    BY <1>1, <2>2a DEF SessionRow, Connecting, OnItsWay, Searching, LocalWay, LogsIn, LoggingIn
  <2>3. /\ c \in ClientRow /\ c.up # "starting" /\ (SignedInByNobody => LoginClient(c))
        /\ client' = [client EXCEPT ![p] = c]
    BY <2>1, <2>2a, Types DEF IInv, ClientRow, Screens, SubmitLogin, SignedInByNobody,
       LoginClient
  <2>4. typed' = <<"goglobal", client[p].screen>>
    BY <2>1 DEF SubmitLogin, Type
  <2>5. typed' \in ({"nothing", "goglobal", "winthor", "routine"} \X Screens)
        /\ (Quiet => SecretsReachTheirLogin')
    BY <2>2a, <2>2b, <2>4, Types DEF IInv, ClientRow, SecretsReachTheirLogin, Screens
  <2> HIDE DEF next, c
  <2>6. PICK row : BecomesRow(s, row) /\ (row = next \/ ~LogsIn(row))
    BY <1>1, <2>1, <2>2a, <2>2, Answering DEF next
  <2>7. Fault \/ UNCHANGED faults
    BY <1>1, <2>1, <2>2, Answering DEF next
  <2> QED
    BY <2>2a, <2>2, <2>3, <2>5, <2>6, <2>7, ClientStep
<1>3. CASE Throw(s) /\ UNCHANGED <<client, typed, faults>>
  BY <1>1, <1>3, Thrown, OwnStep
<1> QED
  BY <1>2, <1>3 DEF Authenticate

(* The password of WinThor is typed while the session logs in: of what it  *)
(* may find then, only the login of WinThor has content.                   *)
LEMMA WinThorStep ==
  ASSUME IInv, NEW s \in Programs, AuthenticateWinThor(s)
  PROVE  IInv'
<1>1. session[s] \in SessionRow /\ OnItsWay(session[s]) /\ session[s].pc = "entry"
      /\ UNCHANGED <<profile, vault>>
  BY Types DEF IInv, AuthenticateWinThor, Same
<1>2. CASE \E p \in ClientWindow \cap Large :
             /\ HasContent(p)
             /\ Type("winthor", p)
             /\ client' = IF client[p].screen = "entry"
                          THEN [client EXCEPT ![p].screen = "checking"] ELSE client
             /\ Answer(s, [session[s] EXCEPT !.pc = "execute"])
  <2>1. PICK p \in ClientWindow \cap Large :
             /\ HasContent(p)
             /\ Type("winthor", p)
             /\ client' = IF client[p].screen = "entry"
                          THEN [client EXCEPT ![p].screen = "checking"] ELSE client
             /\ Answer(s, [session[s] EXCEPT !.pc = "execute"])
    BY <1>2
  <2>0. p \in Processes /\ client[p].up = "open"
    BY <2>1 DEF Large, On, Open
  <2> DEFINE next == [session[s] EXCEPT !.pc = "execute"]
             c == IF client[p].screen = "entry" THEN [client[p] EXCEPT !.screen = "checking"]
                  ELSE client[p]
  <2>2. next \in SessionRow /\ OnItsWay(next) /\ ~LogsIn(next)
    BY <1>1 DEF SessionRow, Connecting, OnItsWay, Searching, LocalWay, LogsIn, LoggingIn
  <2>3. c \in ClientRow /\ c.up # "starting" /\ client' = [client EXCEPT ![p] = c]
    <3>1. client \in [Processes -> ClientRow]
      BY Types DEF IInv
    <3>2. CASE client[p].screen = "entry"
      BY <2>0, <2>1, <3>1, <3>2 DEF ClientRow, Screens
    <3>3. CASE client[p].screen # "entry"
      BY <2>0, <2>1, <3>1, <3>3 DEF ClientRow
    <3> QED
      BY <3>2, <3>3
  <2>4. Quiet => client[p].screen = "entry"
    <3>1. LogsIn(session[s])
      BY <1>1 DEF OnItsWay, LogsIn, LoggingIn
    <3> QED
      BY <2>0, <2>1, <3>1 DEF IInv, LoginsInv, SignedInByNobody, HasContent
  <2>5. typed' \in ({"nothing", "goglobal", "winthor", "routine"} \X Screens)
        /\ (Quiet => SecretsReachTheirLogin')
    BY <2>0, <2>1, <2>4, Types DEF IInv, Type, SecretsReachTheirLogin, ClientRow
  <2> HIDE DEF next, c
  <2>6. Answer(s, next)
    BY <2>1 DEF next
  <2>7. PICK row : BecomesRow(s, row) /\ (row = next \/ ~LogsIn(row))
    BY <1>1, <2>2, <2>6, Answering
  <2>8. Fault \/ UNCHANGED faults
    BY <1>1, <2>2, <2>6, Answering
  <2> QED
    BY <2>0, <2>2, <2>3, <2>5, <2>7, <2>8, ClientStep
<1>3. CASE Throw(s) /\ UNCHANGED <<client, typed, faults>>
  BY <1>1, <1>3, Thrown, OwnStep
<1> QED
  BY <1>2, <1>3 DEF AuthenticateWinThor

LEMMA ApplicationStep ==
  ASSUME IInv, NEW s \in Programs, LaunchApplication(s)
  PROVE  IInv'
<1>1. session[s] \in SessionRow /\ OnItsWay(session[s]) /\ session[s].pc = "catalog"
      /\ UNCHANGED <<profile, vault, typed>> /\ profile.mode # "LOCAL_WINDOWS"
  BY Types DEF IInv, LaunchApplication, Same, OnItsWay, LocalWay
<1>2. CASE Goto(s, "launched") /\ UNCHANGED <<client, faults>>
  <2>1. KeepsToItself(s)
    BY <1>1, <1>2, Going DEF Steps, Searching, LoggingIn
  <2> QED
    BY <1>1, <1>2, <2>1, OwnStep
<1>3. CASE \E p \in On({"catalog"}) :
              /\ client' = [client EXCEPT ![p].screen = "starting"]
              /\ Answer(s, [session[s] EXCEPT !.pc = "launched"])
  <2>1. PICK p \in Processes : /\ client[p].up = "open"
              /\ client' = [client EXCEPT ![p].screen = "starting"]
              /\ Answer(s, [session[s] EXCEPT !.pc = "launched"])
    BY <1>3 DEF On, Open
  <2> DEFINE next == [session[s] EXCEPT !.pc = "launched"]
             c == [client[p] EXCEPT !.screen = "starting"]
  <2>2. next \in SessionRow /\ OnItsWay(next) /\ ~LogsIn(next)
    BY <1>1 DEF SessionRow, Connecting, OnItsWay, Searching, LocalWay, LogsIn, LoggingIn
  <2>3. c \in ClientRow /\ c.up # "starting" /\ client' = [client EXCEPT ![p] = c]
    BY <2>1, Types DEF IInv, ClientRow, Screens
  <2>4. typed' \in ({"nothing", "goglobal", "winthor", "routine"} \X Screens)
        /\ (Quiet => SecretsReachTheirLogin')
    BY <1>1, Types DEF IInv, SecretsReachTheirLogin
  <2> HIDE DEF next, c
  <2>5. PICK row : BecomesRow(s, row) /\ (row = next \/ ~LogsIn(row))
    BY <1>1, <2>1, <2>2, Answering DEF next
  <2>6. Fault \/ UNCHANGED faults
    BY <1>1, <2>1, <2>2, Answering DEF next
  <2> QED
    BY <2>2, <2>3, <2>4, <2>5, <2>6, ClientStep
<1>4. CASE Throw(s) /\ UNCHANGED <<client, faults>>
  BY <1>1, <1>4, Thrown, OwnStep
<1> QED
  BY <1>2, <1>3, <1>4 DEF LaunchApplication

(* openRoutine: the code is not a secret.                                  *)
LEMMA RoutineStep ==
  ASSUME IInv, NEW s \in Programs, TypeRoutine(s) \/ TypeRoutineLocal(s)
  PROVE  IInv'
<1>1. session[s] \in SessionRow /\ OnItsWay(session[s]) /\ session[s].pc = "type"
      /\ UNCHANGED <<profile, vault, client>>
  BY Types DEF IInv, TypeRoutine, TypeRoutineLocal, At, SendRoutine, Same
<1> DEFINE next == [session[s] EXCEPT !.pc = "closing"]
<1>2. next \in SessionRow /\ OnItsWay(next) /\ ~LogsIn(next)
  BY <1>1 DEF SessionRow, Connecting, OnItsWay, Searching, LocalWay, LogsIn, LoggingIn
<1>3. CASE \E p \in Processes : Type("routine", p) /\ Answer(s, next)
  <2>1. PICK p \in Processes : Type("routine", p) /\ Answer(s, next)
    BY <1>3
  <2>2. typed' \in ({"nothing", "goglobal", "winthor", "routine"} \X Screens)
        /\ SecretsReachTheirLogin'
    BY <2>1, Types DEF IInv, Type, SecretsReachTheirLogin, ClientRow
  <2> HIDE DEF next
  <2>3. PICK row : BecomesRow(s, row) /\ (row = next \/ ~LogsIn(row))
    BY <1>1, <1>2, <2>1, Answering
  <2>4. faults' \in 0..MaxFaults
    BY <1>1, <1>2, <2>1, Answering, Counting DEF IInv
  <2>5. client' \in [Processes -> ClientRow] /\ StartingInv'
    BY <1>1, Types DEF IInv, StartingInv
  <2> QED
    BY <1>2, <2>2, <2>3, <2>4, <2>5, RowStep
<1>4. CASE Throw(s) /\ UNCHANGED <<typed, faults>>
  BY <1>1, <1>4, Thrown, OwnStep
<1> QED
  BY <1>3, <1>4 DEF TypeRoutine, TypeRoutineLocal, SendRoutine, RoutineWindow,
     WinThorWindow,
       ClientWindow, Large, FirstWindow, On, Open

LEMMA DisconnectStep ==
  ASSUME IInv, NEW s \in Programs, Disconnect(s)
  PROVE  IInv'
<1>1. BecomesRow(s, NoSession)
  BY Rows DEF Disconnect, BecomesRow, Same
<1>2. \A p \in Processes : client'[p] \in {client[p], NoClient}
  BY Types DEF IInv, Disconnect
<1>3. client' \in [Processes -> ClientRow] /\ StartingInv'
  <2>1. client' = [p \in Processes |-> client'[p]]
    BY Types DEF IInv, Disconnect
  <2>2. client' \in [Processes -> ClientRow]
    BY <1>2, <2>1, Types, Rows DEF IInv
  <2> QED
    BY <1>1, <1>2, <2>2, Rows DEF IInv, StartingInv, BecomesRow
<1>4. typed' \in ({"nothing", "goglobal", "winthor", "routine"} \X Screens)
      /\ SecretsReachTheirLogin'
  BY DEF Disconnect, Nothing, Screens, SecretsReachTheirLogin
<1>5. faults' \in 0..MaxFaults
  BY Counting DEF IInv, Disconnect
<1> QED
  BY <1>1, <1>3, <1>4, <1>5, Rows, RowStep

LEMMA SessionSteps ==
  ASSUME IInv, NEW s \in Programs, Start(s) \/ SessionStep(s) \/ CommandFails(s)
  PROVE  IInv'
<1>1. CASE LaunchClient(s) \/ LaunchEndpoint(s)
  BY <1>1, LaunchSteps
<1>2. CASE ConnectToHost(s)
  BY <1>2, ConnectStep
<1>3. CASE Authenticate(s)
  BY <1>3, LoginStep
<1>4. CASE AuthenticateWinThor(s)
  BY <1>4, WinThorStep
<1>5. CASE LaunchApplication(s)
  BY <1>5, ApplicationStep
<1>6. CASE TypeRoutine(s) \/ TypeRoutineLocal(s)
  BY <1>6, RoutineStep
<1>7. CASE Disconnect(s)
  BY <1>7, DisconnectStep
<1>8. CASE \/ Start(s) \/ FindClient(s) \/ FindLocalWindow(s) \/ LaunchRefused(s)
           \/ WindowFound(s) \/ WindowNotFound(s) \/ InspectClient(s) \/ Settle(s)
           \/ BeginGoGlobal(s) \/ BeginLocal(s) \/ GoGlobalSecret(s) \/ WinThorSecret(s)
           \/ LoginTransition(s) \/ Verify(s) \/ OpenGoGlobal(s) \/ Launched(s)
           \/ OpenLocal(s) \/ CommandFails(s)
           \/ s = "job" /\ ExecuteJob
           \/ s = "diagnostic" /\ (DiagnoseGoGlobal \/ DiagnoseLocal)
  <2>1. KeepsToItself(s)
    BY <1>8, OwnSteps
  <2>2. UNCHANGED <<client, typed>>
    BY <1>8 DEF Start, FindClient, FindLocalWindow, LaunchRefused, WindowFound,
         WindowNotFound, InspectClient, Settle, WaitForState, BeginGoGlobal, BeginLocal,
         GoOnUnlessAborted, GoGlobalSecret, WinThorSecret, ResolveSecret, LoginTransition,
         Verify, OpenGoGlobal, Launched, OpenLocal, CommandFails, ExecuteJob,
         DiagnoseGoGlobal, DiagnoseLocal, Diagnose, Quietly
  <2>3. Fault \/ UNCHANGED faults \/ WindowNotFound(s)
    BY <1>8 DEF Start, FindClient, FindLocalWindow, LaunchRefused, WindowFound,
         InspectClient, Settle, WaitForState, BeginGoGlobal, BeginLocal,
         GoOnUnlessAborted, GoGlobalSecret, WinThorSecret, ResolveSecret, LoginTransition,
         Verify, OpenGoGlobal, Launched, OpenLocal, CommandFails, ExecuteJob,
         DiagnoseGoGlobal, DiagnoseLocal, Diagnose, Quietly
  <2>4. Fault \/ UNCHANGED faults
    BY <2>3 DEF WindowNotFound, Fault
  <2> QED
    BY <2>1, <2>2, <2>4, OwnStep
<1> QED
  BY <1>1, <1>2, <1>3, <1>4, <1>5, <1>6, <1>7, <1>8 DEF SessionStep

(* The desktop changes one client while no session takes a step.           *)
LEMMA DesktopStep ==
  ASSUME IInv, NEW p \in Processes, NEW c \in ClientRow,
         client' = [client EXCEPT ![p] = c],
         UNCHANGED <<profile, vault, session, typed>>,
         Fault \/ UNCHANGED faults,
         c.up # "starting",
         \A s \in Programs : Quiet /\ LogsIn(session[s]) =>
             (SignedInByNobody => LoginClient(c))
  PROVE  IInv'
<1>1. client \in [Processes -> ClientRow] /\ client' \in [Processes -> ClientRow]
  BY Types DEF IInv
<1>2. faults' \in 0..MaxFaults
  BY Counting DEF IInv
<1>3. TypeOK'
  BY <1>1, <1>2 DEF IInv, TypeOK, ClientRow
<1>4. OneAtWork' /\ \A s \in Programs : OnItsWay(session[s])'
  BY DEF IInv, OneAtWork, OnItsWay
<1>5. StartingInv'
  BY <1>1 DEF IInv, StartingInv
<1>6. LoginsInv'
  BY <1>1 DEF IInv, LoginsInv, LogsIn, SignedInByNobody, LoginClient
<1>7. Quiet => SecretsReachTheirLogin'
  BY DEF IInv, SecretsReachTheirLogin
<1> QED
  BY <1>3, <1>4, <1>5, <1>6, <1>7 DEF IInv

(* Windows open, servers answer, people open, close and sign in.           *)
LEMMA ClientSteps ==
  ASSUME IInv, NEW p \in Processes, WindowOpens(p) \/ ServerAnswers(p) \/ People(p)
  PROVE  IInv'
<1>1. client[p] \in ClientRow /\ client \in [Processes -> ClientRow]
  BY Types DEF IInv
<1>2. CASE WindowOpens(p)
  <2>1. [client[p] EXCEPT !.up = "open"] \in ClientRow
    BY <1>1 DEF ClientRow
  <2>2. client' = [client EXCEPT ![p] = [client[p] EXCEPT !.up = "open"]]
    BY <1>1, <1>2 DEF WindowOpens
  <2>3. SignedInByNobody => LoginClient([client[p] EXCEPT !.up = "open"])
    BY <1>1, <1>2 DEF WindowOpens, SignedInByNobody, LoginClient, ClientRow
  <2> QED
    BY <1>1, <1>2, <2>1, <2>2, <2>3, DesktopStep DEF WindowOpens, ClientRow
<1>3. CASE ServerAnswers(p)
  <2>1. PICK screen \in Following(p) : client' = [client EXCEPT ![p].screen = screen]
    BY <1>3 DEF ServerAnswers
  <2> DEFINE c == [client[p] EXCEPT !.screen = screen]
  <2>2. c \in ClientRow /\ c.up = "open" /\ client' = [client EXCEPT ![p] = c]
    BY <1>1, <1>3, <2>1 DEF ServerAnswers, ClientRow, Screens, Following
  <2>3. SignedInByNobody => LoginClient(c)
    BY <1>1, <1>3, <2>1, Facts DEF ServerAnswers, SignedInByNobody, LoginClient, ClientRow,
       Following
  <2> HIDE DEF c
  <2> QED
    BY <1>3, <2>2, <2>3, DesktopStep DEF ServerAnswers
<1>4. CASE PersonOpens(p)
  <2>1. PICK opaque \in BOOLEAN, screen \in {"host", "login", "catalog", "entry", "main"} :
          client' = [client EXCEPT ![p] =
             [up |-> "open", by |-> "person", opaque |-> opaque, screen |-> screen]]
    BY <1>4 DEF PersonOpens
  <2> DEFINE c == [up |-> "open", by |-> "person", opaque |-> opaque, screen |-> screen]
  <2>2. c \in ClientRow /\ c.up = "open"
    BY DEF ClientRow, Screens
  <2>3. \A s \in Programs : Quiet => ~LogsIn(session[s])
    BY <1>4 DEF PersonOpens, Idle, LogsIn, LoggingIn
  <2> HIDE DEF c
  <2> QED
    BY <1>4, <2>1, <2>2, <2>3, DesktopStep DEF PersonOpens, c
<1>5. CASE PersonCloses(p)
  <2>1. Fault \/ UNCHANGED faults
    BY <1>5 DEF PersonCloses
  <2>2. LoginClient(NoClient)
    BY Rows DEF LoginClient
  <2> QED
    BY <1>5, <2>1, <2>2, Rows, DesktopStep DEF PersonCloses
<1>6. CASE PersonSignsIn(p)
  <2> DEFINE c == [client[p] EXCEPT !.screen = "main"]
  <2>1. c \in ClientRow /\ c.up = "open" /\ client' = [client EXCEPT ![p] = c]
    BY <1>1, <1>6 DEF PersonSignsIn, ClientRow, Screens
  <2>2. \A s \in Programs : LogsIn(session[s]) => ~SignedInByNobody
    BY <1>6, Facts DEF PersonSignsIn, LogsIn, SignedInByNobody
  <2> HIDE DEF c
  <2> QED
    BY <1>6, <2>1, <2>2, DesktopStep DEF PersonSignsIn
<1>7. CASE SignedOut(p)
  <2> DEFINE c == [client[p] EXCEPT !.screen = "entry"]
  <2>1. c \in ClientRow /\ c.up = "open" /\ client' = [client EXCEPT ![p] = c]
    BY <1>1, <1>7 DEF SignedOut, ClientRow, Screens
  <2>2. ~SignedInByNobody
    BY <1>7 DEF SignedOut, SignedInByNobody
  <2> HIDE DEF c
  <2> QED
    BY <1>7, <2>1, <2>2, DesktopStep DEF SignedOut
<1> QED
  BY <1>2, <1>3, <1>4, <1>5, <1>6, <1>7 DEF People

LEMMA OtherSteps ==
  ASSUME IInv, Abort \/ ProvisionGoGlobal \/ ProvisionWinThor \/ UNCHANGED vars
  PROVE  IInv'
<1>1. CASE Abort
  <2>1. "job" \in Programs /\ session["job"] \in SessionRow /\ OnItsWay(session["job"])
    BY <1>1, Types DEF IInv, Abort
  <2> DEFINE row == [session["job"] EXCEPT !.aborted = TRUE]
  <2>2. row \in SessionRow /\ OnItsWay(row) /\ (LogsIn(row) => LogsIn(session["job"]))
    BY <2>1 DEF SessionRow, OnItsWay, LogsIn
  <2>3. session' = [session EXCEPT !["job"] = row]
    BY <1>1, <2>1, Types DEF IInv, Abort
  <2> HIDE DEF row
  <2>4. KeepsToItself("job")
    BY <1>1, <2>2, <2>3 DEF KeepsToItself, BecomesRow, Abort, Quietly
  <2> QED
    BY <1>1, <2>1, <2>4, OwnStep DEF Abort, Quietly
<1>2. CASE ProvisionGoGlobal \/ ProvisionWinThor \/ UNCHANGED vars
  <2>1. /\ UNCHANGED <<profile, client, session, typed, faults>>
        /\ vault' \subseteq {"GO_GLOBAL", "WINTHOR"}
    BY <1>2, Types DEF IInv, ProvisionGoGlobal, ProvisionWinThor, vars
  <2> QED
    BY <2>1 DEF IInv, TypeOK, OneAtWork, OnItsWay, StartingInv, LoginsInv, LogsIn,
       SignedInByNobody, SecretsReachTheirLogin
<1> QED
  BY <1>1, <1>2

LEMMA StepKeepsIInv == IInv /\ [Next]_vars => IInv'
<1> SUFFICES ASSUME IInv, [Next]_vars PROVE IInv'
  OBVIOUS
<1> QED
  BY SessionSteps, ClientSteps, OtherSteps DEF Next

LEMMA Invariance == Spec => []IInv
BY InitIInv, StepKeepsIInv, PTL DEF Spec

(* Every variable keeps its type: rows of sessions, clients, the notes of  *)
(* what was typed.                                                         *)
THEOREM TypeCorrect == Spec => []TypeOK
<1>1. IInv => TypeOK
  BY DEF IInv
<1> QED
  BY <1>1, Invariance, PTL

(* The password of WinThor is only ever typed on its login screen and the  *)
(* one of GO-Global on that of GO-Global, when nobody else starts anything *)
(* while a session runs; commands may be killed at any step, and windows   *)
(* may close. authenticateWinThor takes the largest window with content:   *)
(* the proof is that a session that started its client finds nothing else  *)
(* of that size until it has typed the password.                           *)
THEOREM SecretsAreTypedWhereTheyBelong ==
  ASSUME Quiet PROVE Spec => []SecretsReachTheirLogin
<1>1. IInv => SecretsReachTheirLogin
  BY DEF IInv
<1> QED
  BY <1>1, Invariance, PTL

-------------------------------------------------------------------------------
(* Until a first fault, the client a session has started is known to it:   *)
(* cl are the clients, row is the row of session s.                        *)
Up(cl)       == {p \in Processes : cl[p].up # "none"}
Starting(cl) == {p \in Processes : cl[p].up = "starting"}
MainInFront(cl) == \A p \in Processes :
    cl[p].up = "open" /\ (\A q \in Processes : cl[q].up = "open" => p <= q)
        => cl[p].screen = "main"

Owning(s, row, cl) ==
    /\ row.pc = "launch" => Up(cl) = {}
    /\ row.pc = "await" => \E p \in Processes : Up(cl) = {p} /\ cl[p].by = s
    /\ row.owns /\ row.pc # "await" => row.pid \in Processes /\ cl[row.pid].by = s
    /\ profile.mode = "GO_GLOBAL" => \A p \in Up(cl) :
          cl[p].by = s => row.owns /\ (row.pc = "await" \/ row.pid = p)
    /\ profile.mode = "LOCAL_WINDOWS" /\ row.pc \in {"execute", "open", "type"}
          => MainInFront(cl)

Owners ==
    /\ \A s \in Programs : Owning(s, session[s], client)
    /\ Starting(client) # {} => \E s \in Programs : session[s].pc = "await"

Untroubled == Quiet /\ faults = 0
OwnersInv  == Untroubled => Owners /\ RoutineReachesWinThor

(* A step after which no fault has been noted noted none.                  *)
LEMMA NoFault ==
    ASSUME IInv, faults' = 0 PROVE ~Fault
BY Facts DEF IInv, TypeOK, Fault

(* The others are idle: what counts is the row and the clients of s.       *)
LEMMA OwnerStep ==
  ASSUME IInv, Untroubled, Owners, NEW s \in Programs, NEW row, BecomesRow(s, row),
         Owning(s, row, client'),
         \A t \in Programs \ {s} : \A p \in Up(client') :
             client'[p].by = t => p \in Up(client) /\ client[p].by = t,
         Starting(client') # {} => row.pc = "await"
  PROVE  Owners'
<1>1. \A t \in Programs : session'[t] = IF t = s THEN row ELSE session[t]
  BY Types DEF IInv, BecomesRow
<1>2. ASSUME NEW t \in Programs, t # s PROVE Owning(t, session[t], client')
  <2>1. session[t].pc = "idle" /\ ~session[t].owns
    BY <1>2 DEF IInv, OneAtWork, BecomesRow, Idle, Untroubled, OnItsWay, Searching
  <2>2. Owning(t, session[t], client)
    BY DEF Owners
  <2> QED
    BY <1>2, <2>1, <2>2 DEF Owning
<1>3. \A t \in Programs : Owning(t, session'[t], client')
  BY <1>1, <1>2
<1>4. (\A t \in Programs : Owning(t, session[t], client))'
  BY <1>3 DEF Owning, BecomesRow, MainInFront, Up
<1> QED
  BY <1>1, <1>4 DEF Owners, Starting

(* A step of a session that touches no client.                             *)
OwnsOn(s) == \E row : BecomesRow(s, row) /\ Owning(s, row, client)
                      /\ (Starting(client) # {} => row.pc = "await")

LEMMA OwnerKeeps ==
  ASSUME IInv, Untroubled, Owners, NEW s \in Programs, OwnsOn(s), UNCHANGED client
  PROVE  Owners'
BY OwnerStep DEF OwnsOn

(* The session goes on to a step other than the wait for its client.       *)
LEMMA OwnerGoes ==
  ASSUME IInv, Untroubled, Owners, NEW s \in Programs, NEW pc \in Steps, Goto(s, pc),
         UNCHANGED <<profile, vault>>,
         session[s].pc # "idle" \/ Idle,
         session[s].pc # "await", pc # "await",
         pc \in Searching => session[s].pc \in Searching,
         pc \in {"secret2", "entry"} => session[s].auto,
         profile.mode = "LOCAL_WINDOWS" => pc \in LocalWay,
         pc = "launch" => Open = {},
         profile.mode = "LOCAL_WINDOWS" /\ pc \in {"execute", "open", "type"}
             => MainInFront(client)
  PROVE  OwnsOn(s)
<1> DEFINE row == [session[s] EXCEPT !.pc = pc]
<1>1. session[s] \in SessionRow /\ OnItsWay(session[s]) /\ Owning(s, session[s], client)
  BY Types DEF IInv, Owners
<1>2. row \in SessionRow /\ row.pc = pc /\ row.auto = session[s].auto
      /\ row.owns = session[s].owns /\ row.pid = session[s].pid
  BY <1>1 DEF SessionRow, Steps, Connecting
<1>3. Starting(client) = {}
  <2>1. \A t \in Programs : session[t].pc # "await"
    BY DEF IInv, OneAtWork, Untroubled, Idle
  <2> QED
    BY <2>1 DEF Owners
<1>4. pc = "launch" => Up(client) = {}
  BY <1>3, Types DEF IInv, Open, Up, Starting, ClientRow
<1>5. OnItsWay(row) /\ Owning(s, row, client)
  <2> HIDE DEF row
  <2> QED
    BY <1>1, <1>2, <1>4 DEF OnItsWay, Owning
<1>6. session' = [session EXCEPT ![s] = row]
  BY DEF Goto
<1> HIDE DEF row
<1> QED
  BY <1>2, <1>3, <1>5, <1>6 DEF BecomesRow, OwnsOn

LEMMA OwnerThrows ==
  ASSUME IInv, Untroubled, Owners, NEW s \in Programs, Throw(s),
         UNCHANGED <<profile, vault>>, session[s].pc \notin {"idle", "await"}
  PROVE  OwnsOn(s)
<1>1. session[s] \in SessionRow /\ OnItsWay(session[s]) /\ Owning(s, session[s], client)
  BY Types DEF IInv, Owners
<1>2. Starting(client) = {}
  <2>1. \A t \in Programs : session[t].pc # "await"
    BY DEF IInv, OneAtWork, Untroubled
  <2> QED
    BY <2>1 DEF Owners
<1>3. CASE NeedsClosing(s)
  <2>1. Goto(s, "closing")
    BY <1>3, Types DEF IInv, Throw, Goto
  <2> QED
    BY <2>1, OwnerGoes DEF Steps, Searching, LocalWay
<1>4. CASE ~NeedsClosing(s)
  <2>1. session[s].pc \in Searching
    BY <1>4 DEF NeedsClosing, Connecting, Searching
  <2>2. ~session[s].owns
    BY <1>1, <2>1 DEF OnItsWay
  <2>3. Owning(s, NoSession, client)
    BY <1>1, <2>2 DEF Owning, NoSession
  <2> QED
    BY <1>2, <1>4, <2>3, Rows DEF Throw, BecomesRow, OwnsOn
<1> QED
  BY <1>3, <1>4

LEMMA OwnerGoesOn ==
  ASSUME IInv, Untroubled, Owners, NEW s \in Programs, NEW pc \in Steps,
         GoOnUnlessAborted(s, pc),
         session[s].pc \notin {"idle", "await"}, pc # "await", pc \notin Searching,
         pc \in {"secret2", "entry"} => session[s].auto,
         profile.mode = "LOCAL_WINDOWS" => pc \in LocalWay,
         profile.mode = "LOCAL_WINDOWS" /\ pc \in {"execute", "open", "type"}
             => MainInFront(client)
  PROVE  OwnsOn(s)
<1>1. UNCHANGED <<profile, vault>> /\ pc # "launch"
  BY DEF GoOnUnlessAborted, Quietly, Searching
<1>2. CASE Throw(s)
  BY <1>1, <1>2, OwnerThrows
<1>3. CASE Goto(s, pc)
  BY <1>1, <1>3, OwnerGoes
<1> QED
  BY <1>2, <1>3 DEF GoOnUnlessAborted

(* Every step of a session that touches no client.                         *)
LEMMA OwnerSteps ==
  ASSUME IInv, Untroubled, Owners, faults' = 0, NEW s \in Programs,
         \/ Start(s) \/ FindClient(s) \/ FindLocalWindow(s) \/ LaunchRefused(s)
         \/ WindowFound(s) \/ WindowNotFound(s) \/ InspectClient(s) \/ Settle(s)
         \/ BeginGoGlobal(s) \/ BeginLocal(s) \/ GoGlobalSecret(s) \/ WinThorSecret(s)
         \/ LoginTransition(s) \/ Verify(s) \/ OpenGoGlobal(s) \/ Launched(s)
         \/ OpenLocal(s) \/ CommandFails(s)
         \/ s = "job" /\ ExecuteJob
         \/ s = "diagnostic" /\ (DiagnoseGoGlobal \/ DiagnoseLocal)
  PROVE  OwnsOn(s)
<1>1. session[s] \in SessionRow /\ OnItsWay(session[s]) /\ profile.mode \in Modes
      /\ Owning(s, session[s], client)
  BY Types DEF IInv, Profile, Owners
<1>2. session[s].pc \in {"execute", "open", "type"} /\ profile.mode = "LOCAL_WINDOWS"
        => MainInFront(client)
  BY <1>1 DEF Owning
<1>3. Quiet /\ ~Fault /\ ~WindowNotFound(s)
  BY NoFault, Facts DEF Untroubled, WindowNotFound
<1> USE DEF Steps, Searching, LocalWay, Quietly, Same, At, OnItsWay, Modes
<1>4. CASE Start(s)
  BY <1>1, <1>3, <1>4, OwnerGoes DEF Start, Goto
<1>5. CASE FindClient(s)
  BY <1>1, <1>5, OwnerGoes DEF FindClient
<1>6. CASE FindLocalWindow(s)
  BY <1>1, <1>6, OwnerGoes, OwnerThrows DEF FindLocalWindow
<1>7. CASE LaunchRefused(s)
  BY <1>1, <1>7, OwnerThrows DEF LaunchRefused
<1>8. CASE InspectClient(s)
  BY <1>1, <1>8, OwnerGoes, OwnerThrows DEF InspectClient
<1>9. CASE Settle(s)
  BY <1>1, <1>9, OwnerGoes, OwnerThrows DEF Settle, WaitForState
<1>10. CASE BeginGoGlobal(s)
  BY <1>1, <1>10, OwnerGoesOn, OwnerThrows DEF BeginGoGlobal
<1>11. CASE GoGlobalSecret(s)
  BY <1>1, <1>11, OwnerGoes, OwnerThrows DEF GoGlobalSecret, ResolveSecret
<1>12. CASE WinThorSecret(s)
  BY <1>1, <1>12, OwnerGoes, OwnerThrows DEF WinThorSecret, ResolveSecret
<1>13. CASE LoginTransition(s)
  BY <1>1, <1>13, OwnerGoes, OwnerThrows DEF LoginTransition
<1>14. CASE Verify(s)
  BY <1>1, <1>14, OwnerGoes, OwnerThrows DEF Verify, WaitForState
<1>15. CASE OpenGoGlobal(s)
  BY <1>1, <1>15, OwnerGoes, OwnerThrows DEF OpenGoGlobal
<1>16. CASE Launched(s)
  BY <1>1, <1>16, OwnerGoes, OwnerThrows DEF Launched, WaitForState
<1>17. CASE OpenLocal(s)
  BY <1>1, <1>2, <1>17, OwnerGoes, OwnerThrows DEF OpenLocal
<1>18. CASE s = "job" /\ ExecuteJob
  BY <1>1, <1>18, OwnerThrows DEF ExecuteJob
<1>19. CASE s = "diagnostic" /\ (DiagnoseGoGlobal \/ DiagnoseLocal)
  BY <1>1, <1>2, <1>19, OwnerGoes DEF DiagnoseGoGlobal, DiagnoseLocal, Diagnose
<1>20. CASE CommandFails(s)
  BY <1>3, <1>20 DEF CommandFails
<1>21. CASE BeginLocal(s)
  <2>1. session[s].pc = "begin" /\ profile.mode = "LOCAL_WINDOWS" /\ UNCHANGED <<profile, vault>>
    BY <1>21 DEF BeginLocal, GoOnUnlessAborted
  <2>2. CASE Throw(s)
    BY <2>1, <2>2, OwnerThrows
  <2>3. CASE (\E p \in FirstWindow : client[p].screen = "main") /\ GoOnUnlessAborted(s, "execute")
    <3>1. PICK p \in FirstWindow : client[p].screen = "main"
      BY <2>3
    <3>2. \A q \in FirstWindow : q = p
      <4> TAKE q \in FirstWindow
      <4>1. p \in Int /\ q \in Int
        BY Facts DEF FirstWindow, Open
      <4>2. p <= q /\ q <= p
        BY DEF FirstWindow
      <4> QED
        BY <4>1, <4>2
    <3>3. \A q \in Processes : client[q].up = "open"
             /\ (\A r \in Processes : client[r].up = "open" => q <= r) => q \in FirstWindow
      BY DEF FirstWindow, Open
    <3>4. MainInFront(client)
      BY <3>1, <3>2, <3>3 DEF MainInFront
    <3> QED
      BY <1>3, <2>1, <2>3, <3>4, OwnerGoesOn DEF Steps, Searching, LocalWay
  <2> QED
    BY <1>21, <2>2, <2>3 DEF BeginLocal
<1>22. CASE WindowFound(s)
  <2>1. PICK p \in Open : session' = [session EXCEPT ![s].pc = "begin",
                              ![s].pid = IF session[s].owns THEN p ELSE NoProcess]
    BY <1>22 DEF WindowFound, ClientWindow, Large, On, FirstWindow
  <2> DEFINE row == [session[s] EXCEPT !.pc = "begin",
                                       !.pid = IF session[s].owns THEN p ELSE NoProcess]
  <2>2. session' = [session EXCEPT ![s] = row]
    BY <2>1, Types DEF IInv
  <2>3. row \in SessionRow /\ OnItsWay(row) /\ session[s].pc = "await" /\ p \in Processes
    BY <1>1, <1>22, <2>1 DEF SessionRow, Connecting, WindowFound, Open
  <2>4. row.pc = "begin" /\ row.owns = session[s].owns /\ (row.owns => row.pid = p)
    BY <1>1 DEF SessionRow
  <2>5. Up(client) = {p} /\ client[p].by = s /\ Starting(client) = {}
    BY <1>1, <2>1, <2>3 DEF Owning, Up, Open, Starting
  <2> HIDE DEF row
  <2>6. Owning(s, row, client)
    BY <1>1, <2>3, <2>4, <2>5 DEF Owning
  <2> QED
    BY <2>2, <2>3, <2>5, <2>6, <1>22 DEF OwnsOn, BecomesRow, WindowFound
<1> QED
  BY <1>3, <1>4, <1>5, <1>6, <1>7, <1>8, <1>9, <1>10, <1>11, <1>12, <1>13, <1>14,
     <1>15, <1>16, <1>17, <1>18, <1>19, <1>20, <1>21, <1>22

LEMMA OwnerAnswers ==
  ASSUME IInv, NEW s \in Programs, NEW next, Answer(s, next), ~Fault
  PROVE  session' = [session EXCEPT ![s] = next]
BY DEF Answer

(* The client a session starts is the only one there is.                   *)
LEMMA OwnerLaunches ==
  ASSUME IInv, Untroubled, Owners, faults' = 0, NEW s \in Programs,
         LaunchClient(s) \/ LaunchEndpoint(s)
  PROVE  Owners'
<1>1. /\ session[s] \in SessionRow /\ OnItsWay(session[s]) /\ session[s].pc = "launch"
      /\ Up(client) = {} /\ client \in [Processes -> ClientRow]
      /\ UNCHANGED <<profile, vault>>
  BY Types DEF IInv, LaunchClient, LaunchEndpoint, At, Owners, Owning, Same
<1>2. ~Fault
  BY NoFault
<1>3. PICK row : /\ session' = [session EXCEPT ![s] = row]
                 /\ row = IF LaunchClient(s)
                          THEN [session[s] EXCEPT !.pc = "await", !.owns = TRUE, !.auto = TRUE]
                          ELSE [session[s] EXCEPT !.pc = "await"]
  BY <1>2, OwnerAnswers DEF LaunchClient, LaunchEndpoint
<1>4. row \in SessionRow /\ OnItsWay(row) /\ row.pc = "await"
      /\ (profile.mode = "GO_GLOBAL" => row.owns)
  BY <1>1, <1>3 DEF SessionRow, Connecting, OnItsWay, Searching, LocalWay, LaunchClient,
              LaunchEndpoint, At
<1>5. PICK p \in Processes : \E opaque, screen :
         client' = [client EXCEPT ![p] =
               [up |-> "starting", by |-> s, opaque |-> opaque, screen |-> screen]]
  BY DEF LaunchClient, LaunchEndpoint, StartProcess
<1>6. Up(client') = {p} /\ client'[p].by = s
  BY <1>1, <1>5 DEF Up
<1>7. Owning(s, row, client')
  BY <1>4, <1>6 DEF Owning
<1>8. BecomesRow(s, row)
  BY <1>1, <1>3, <1>4 DEF BecomesRow
<1> QED
  BY <1>4, <1>6, <1>7, <1>8, OwnerStep

(* A client whose screen changes stays whose it is.                        *)
SameOwners(cl) == \A p \in Processes : cl[p].up = client[p].up /\ cl[p].by = client[p].by

(* A step of a session in GO-Global that changes a screen.                 *)
LEMMA OwnerTouches ==
  ASSUME IInv, Untroubled, Owners, NEW s \in Programs, NEW pc \in Steps,
         session[s].pc \notin {"idle", "await"}, pc # "await", pc \notin Searching \/ pc = "settle",
         session[s].pc \in Searching <=> pc \in Searching,
         pc \in {"secret2", "entry"} => session[s].auto,
         NEW row \in SessionRow, row.pc = pc, row.auto = session[s].auto,
         row.owns = session[s].owns, row.pid = session[s].pid,
         session' = [session EXCEPT ![s] = row],
         UNCHANGED <<profile, vault>>, profile.mode # "LOCAL_WINDOWS", SameOwners(client')
  PROVE  Owners'
<1>1. session[s] \in SessionRow /\ OnItsWay(session[s]) /\ Owning(s, session[s], client)
  BY Types DEF IInv, Owners
<1>2. Starting(client') = {}
  <2>1. \A t \in Programs : session[t].pc # "await"
    BY DEF IInv, OneAtWork, Untroubled
  <2> QED
    BY <2>1 DEF Owners, SameOwners, Starting
<1>3. OnItsWay(row)
  BY <1>1 DEF OnItsWay
<1>4. Up(client') = Up(client) /\ (\A p \in Processes : client'[p].by = client[p].by)
  BY DEF Up, SameOwners
<1>5. Owning(s, row, client')
  BY <1>1, <1>4 DEF Owning, Searching, Up
<1>6. BecomesRow(s, row)
  BY <1>3 DEF BecomesRow
<1>7. \A t \in Programs \ {s} : \A p \in Up(client') :
             client'[p].by = t => p \in Up(client) /\ client[p].by = t
  BY <1>4 DEF Up
<1> QED
  BY <1>2, <1>5, <1>6, <1>7, OwnerStep

LEMMA OwnerConnects ==
  ASSUME IInv, Untroubled, Owners, faults' = 0, NEW s \in Programs, ConnectToHost(s)
  PROVE  Owners'
<1>1. session[s].pc = "connect" /\ session[s] \in SessionRow /\ OnItsWay(session[s])
      /\ UNCHANGED <<profile, vault>> /\ profile.mode # "LOCAL_WINDOWS" /\ ~Fault
  BY NoFault, Types DEF IInv, ConnectToHost, OnItsWay, LocalWay, Same
<1>2. CASE Throw(s) /\ UNCHANGED client
  BY <1>1, <1>2, OwnerThrows, OwnerKeeps
<1>3. CASE ~(Throw(s) /\ UNCHANGED client)
  <2>1. PICK p \in ClientWindow : client' = [client EXCEPT ![p].screen = "connecting"]
                /\ Answer(s, [session[s] EXCEPT !.pc = "settle"])
    BY <1>3 DEF ConnectToHost
  <2> DEFINE row == [session[s] EXCEPT !.pc = "settle"]
  <2>2. session' = [session EXCEPT ![s] = row]
    BY <1>1, <2>1, OwnerAnswers
  <2>3. row \in SessionRow /\ row.pc = "settle" /\ row.auto = session[s].auto
        /\ row.owns = session[s].owns /\ row.pid = session[s].pid
    BY <1>1 DEF SessionRow, Connecting
  <2>4. SameOwners(client')
    BY <2>1, Types DEF IInv, SameOwners, ClientRow
  <2> HIDE DEF row
  <2>5. "settle" \in Steps /\ "settle" \in Searching /\ "connect" \in Searching
    BY DEF Steps, Searching
  <2> QED
    BY <1>1, <2>2, <2>3, <2>4, <2>5, OwnerTouches
<1> QED
  BY <1>2, <1>3

(* The two logins and the start of WinThor from the catalog.               *)
LEMMA OwnerLogsIn ==
  ASSUME IInv, Untroubled, Owners, faults' = 0, NEW s \in Programs,
         Authenticate(s) \/ AuthenticateWinThor(s) \/ LaunchApplication(s)
  PROVE  Owners'
<1>1. /\ session[s].pc \in {"login", "entry", "catalog"}
      /\ session[s] \in SessionRow /\ OnItsWay(session[s])
      /\ UNCHANGED <<profile, vault>> /\ profile.mode # "LOCAL_WINDOWS" /\ ~Fault
  BY NoFault, Types DEF IInv, Authenticate, AuthenticateWinThor, LaunchApplication,
     OnItsWay, LocalWay, Same
<1>2. CASE Throw(s) /\ UNCHANGED client
  BY <1>1, <1>2, OwnerThrows, OwnerKeeps
<1>3. CASE ~(Throw(s) /\ UNCHANGED client)
  <2>1. PICK row : /\ session' = [session EXCEPT ![s] = row]
                   /\ \/ \E p \in Processes : row = [session[s] EXCEPT !.pc = "submitted", !.at = p]
                      \/ row = [session[s] EXCEPT !.pc = "execute"]
                      \/ row = [session[s] EXCEPT !.pc = "launched"]
    <3>1. CASE Authenticate(s)
      <4>1. PICK p \in LoginCandidates(s) :
                Answer(s, [session[s] EXCEPT !.pc = "submitted", !.at = p])
        BY <1>3, <3>1 DEF Authenticate
      <4>2. p \in Processes
        BY <4>1 DEF LoginCandidates, OpaqueLogin, OpaqueLoginCandidate, LoginWindow,
           On, Open
      <4> QED
        BY <1>1, <4>1, <4>2, OwnerAnswers
    <3>2. CASE AuthenticateWinThor(s)
      BY <1>1, <1>3, <3>2, OwnerAnswers DEF AuthenticateWinThor
    <3>3. CASE LaunchApplication(s)
      <4>1. CASE Goto(s, "launched")
        <5>1. session' = [session EXCEPT ![s] = [session[s] EXCEPT !.pc = "launched"]]
          BY <4>1, Types DEF IInv, Goto
        <5> QED
          BY <5>1
      <4> QED
        BY <1>1, <1>3, <3>3, <4>1, OwnerAnswers DEF LaunchApplication
    <3> QED
      BY <3>1, <3>2, <3>3
  <2>2. row \in SessionRow /\ row.pc \in {"submitted", "execute", "launched"}
        /\ row.auto = session[s].auto
        /\ row.owns = session[s].owns /\ row.pid = session[s].pid
    BY <1>1, <2>1 DEF SessionRow, Connecting
  <2>3. SameOwners(client')
    <3>1. UNCHANGED client \/ \E p \in Processes : \E screen :
             client' = [client EXCEPT ![p].screen = screen]
      BY <1>3 DEF Authenticate, AuthenticateWinThor, LaunchApplication, SubmitLogin,
         LoginCandidates, OpaqueLogin, OpaqueLoginCandidate, LoginWindow, ClientWindow,
         Large, On, Open
    <3> QED
      BY <3>1, Types DEF IInv, SameOwners, ClientRow
  <2>4. row.pc \in Steps \ {"await", "secret2", "entry"} /\ row.pc \notin Searching
        /\ session[s].pc \notin Searching
    BY <1>1, <2>2 DEF Steps, Searching
  <2> QED
    BY <1>1, <2>1, <2>2, <2>3, <2>4, OwnerTouches
<1> QED
  BY <1>2, <1>3

(* The window in front of a local session shows WinThor signed in.         *)
LEMMA OwnerTypes ==
  ASSUME IInv, Untroubled, Owners, RoutineReachesWinThor, faults' = 0, NEW s \in Programs,
         TypeRoutine(s) \/ TypeRoutineLocal(s)
  PROVE  Owners' /\ RoutineReachesWinThor'
<1>1. /\ session[s].pc = "type" /\ session[s] \in SessionRow
      /\ UNCHANGED <<profile, vault, client>> /\ ~Fault /\ Owning(s, session[s], client)
  BY NoFault, Types DEF IInv, TypeRoutine, TypeRoutineLocal, At, SendRoutine, Same, Owners
<1>2. Throw(s) \/ Goto(s, "closing")
  <2>1. Throw(s) \/ session' = [session EXCEPT ![s] = [session[s] EXCEPT !.pc = "closing"]]
    BY <1>1, OwnerAnswers DEF TypeRoutine, TypeRoutineLocal, SendRoutine
  <2> QED
    BY <2>1, Types DEF IInv, Goto
<1>3. OwnsOn(s)
  BY <1>1, <1>2, OwnerThrows, OwnerGoes DEF Steps, Searching, LocalWay
<1>4. RoutineReachesWinThor'
  <2> SUFFICES ASSUME profile.mode = "LOCAL_WINDOWS", typed[1]' = "routine"
               PROVE  typed[2]' = "main"
    BY <1>1 DEF RoutineReachesWinThor
  <2>1. MainInFront(client) /\ TypeRoutineLocal(s)
    BY <1>1 DEF Owning, TypeRoutine, At
  <2>2. CASE UNCHANGED typed /\ faults = 0
    BY <1>1, <2>2 DEF RoutineReachesWinThor
  <2> QED
    BY <2>1, <2>2 DEF TypeRoutineLocal, SendRoutine, MainInFront, FirstWindow, Open, Type, Untroubled
<1> QED
  BY <1>1, <1>3, <1>4, OwnerKeeps

(* A session closes the client it started, and no other.                   *)
LEMMA ClosedAreItsOwn ==
  ASSUME IInv, Untroubled, Owners, NEW s \in Programs, session[s].pc = "closing"
  PROVE  \A p \in Closing(s) : p \in Processes /\ client[p].by = s
BY Facts DEF Owners, Owning, Closing

LEMMA OwnerDisconnects ==
  ASSUME IInv, Untroubled, Owners, faults' = 0, NEW s \in Programs, Disconnect(s)
  PROVE  Owners' /\ RoutineReachesWinThor'
<1>1. /\ session[s].pc = "closing" /\ session[s] \in SessionRow
      /\ Owning(s, session[s], client) /\ client \in [Processes -> ClientRow]
      /\ UNCHANGED <<profile, vault>> /\ OnItsWay(session[s])
      /\ session' = [session EXCEPT ![s] = NoSession]
  BY Types DEF IInv, Disconnect, Same, Owners
<1>2. client' = [p \in Processes |-> IF p \in Closing(s) THEN NoClient ELSE client[p]]
  BY NoFault DEF Disconnect
<1>3. \A p \in Up(client') : p \in Up(client) /\ client'[p] = client[p] /\ p \notin Closing(s)
  BY <1>2, Rows DEF Up
<1>4. Starting(client') = {}
  <2>1. \A t \in Programs : session[t].pc # "await"
    BY <1>1 DEF IInv, OneAtWork, Untroubled
  <2>2. Starting(client) = {}
    BY <2>1 DEF Owners
  <2> QED
    BY <1>3, <2>2 DEF Starting, Up
<1>5. Owning(s, NoSession, client')
  <2>1. ASSUME profile.mode = "GO_GLOBAL", NEW p \in Up(client') PROVE client'[p].by # s
    <3>1. SUFFICES ASSUME client[p].by = s PROVE FALSE
      BY <1>3
    <3>2. session[s].owns /\ session[s].pid = p /\ p \in Processes
      BY <1>1, <1>3, <2>1, <3>1 DEF Owning, Up
    <3> QED
      BY <1>3, <3>2, Facts DEF Closing
  <2> QED
    BY <2>1 DEF Owning, NoSession
<1>6. BecomesRow(s, NoSession)
  BY <1>1, Rows DEF BecomesRow
<1>7. Owners'
  BY <1>3, <1>4, <1>5, <1>6, OwnerStep
<1>8. RoutineReachesWinThor'
  BY DEF RoutineReachesWinThor, Disconnect, Nothing
<1> QED
  BY <1>7, <1>8

(* Whatever else a session does types nothing.                             *)
LEMMA TypesNoRoutine ==
  ASSUME RoutineReachesWinThor, faults = 0, NEW s \in Programs,
         Start(s) \/ SessionStep(s) \/ CommandFails(s),
         ~TypeRoutine(s), ~TypeRoutineLocal(s), ~Disconnect(s)
  PROVE  RoutineReachesWinThor'
<1>1. profile' = profile
  BY DEF Start, CommandFails, Quietly, Same, SessionStep, FindClient, FindLocalWindow,
     LaunchClient, LaunchEndpoint, LaunchRefused, WindowFound, WindowNotFound,
     InspectClient, ConnectToHost, Settle, WaitForState, BeginGoGlobal, BeginLocal,
     GoOnUnlessAborted, GoGlobalSecret, WinThorSecret, ResolveSecret, Authenticate,
     LoginTransition, Verify, AuthenticateWinThor, OpenGoGlobal, LaunchApplication,
     Launched, OpenLocal, ExecuteJob, DiagnoseGoGlobal, DiagnoseLocal, Diagnose
<1>2. CASE Authenticate(s)
  <2>1. UNCHANGED typed \/ \E p : Type("goglobal", p)
    BY <1>2 DEF Authenticate, SubmitLogin
  <2> QED
    BY <1>1, <2>1 DEF RoutineReachesWinThor, Type
<1>3. CASE AuthenticateWinThor(s)
  <2>1. UNCHANGED typed \/ \E p : Type("winthor", p)
    BY <1>3 DEF AuthenticateWinThor
  <2> QED
    BY <1>1, <2>1 DEF RoutineReachesWinThor, Type
<1>4. CASE ~Authenticate(s) /\ ~AuthenticateWinThor(s)
  <2>1. UNCHANGED typed
    BY <1>4 DEF Start, CommandFails, Quietly, SessionStep, FindClient, FindLocalWindow,
       LaunchClient, LaunchEndpoint, LaunchRefused, WindowFound, WindowNotFound,
       InspectClient, ConnectToHost, Settle, WaitForState, BeginGoGlobal, BeginLocal,
       GoOnUnlessAborted, GoGlobalSecret, WinThorSecret, ResolveSecret, LoginTransition,
       Verify, OpenGoGlobal, LaunchApplication, Launched, OpenLocal, ExecuteJob,
       DiagnoseGoGlobal, DiagnoseLocal, Diagnose
  <2> QED
    BY <1>1, <2>1 DEF RoutineReachesWinThor
<1> QED
  BY <1>2, <1>3, <1>4

LEMMA SessionsKeepOwners ==
  ASSUME IInv, Untroubled, Owners, RoutineReachesWinThor, faults' = 0, NEW s \in Programs,
         Start(s) \/ SessionStep(s) \/ CommandFails(s)
  PROVE  Owners' /\ RoutineReachesWinThor'
<1>0. (TypeRoutine(s) \/ TypeRoutineLocal(s) \/ Disconnect(s)) \/ RoutineReachesWinThor'
  BY TypesNoRoutine DEF Untroubled
<1>1. CASE LaunchClient(s) \/ LaunchEndpoint(s) \/ ConnectToHost(s) \/ Authenticate(s)
           \/ AuthenticateWinThor(s) \/ LaunchApplication(s)
  BY <1>0, <1>1, OwnerTypes, OwnerDisconnects, OwnerLaunches, OwnerConnects, OwnerLogsIn
<1>2. CASE TypeRoutine(s) \/ TypeRoutineLocal(s) \/ Disconnect(s)
  BY <1>2, OwnerTypes, OwnerDisconnects
<1>3. CASE ~(LaunchClient(s) \/ LaunchEndpoint(s) \/ ConnectToHost(s) \/ Authenticate(s)
             \/ AuthenticateWinThor(s) \/ LaunchApplication(s)
             \/ TypeRoutine(s) \/ TypeRoutineLocal(s) \/ Disconnect(s))
  <2>1. OwnsOn(s)
    BY <1>3, OwnerSteps DEF SessionStep
  <2>2. UNCHANGED client
    BY <1>3 DEF Start, CommandFails, Quietly, SessionStep, FindClient, FindLocalWindow,
       LaunchRefused, WindowFound, WindowNotFound, InspectClient, Settle, WaitForState,
       BeginGoGlobal, BeginLocal, GoOnUnlessAborted, GoGlobalSecret, WinThorSecret,
       ResolveSecret, LoginTransition, Verify, OpenGoGlobal, Launched, OpenLocal,
       ExecuteJob, DiagnoseGoGlobal, DiagnoseLocal, Diagnose
  <2> QED
    BY <1>0, <1>3, <2>1, <2>2, OwnerKeeps
<1> QED
  BY <1>1, <1>2, <1>3

(* Steps of the desktop: no client becomes one of a session, and WinThor   *)
(* stays in front of a local session.                                      *)
LEMMA DesktopKeepsOwners ==
  ASSUME IInv, Untroubled, Owners, UNCHANGED <<profile, vault, session>>,
         \A p \in Up(client') : \/ p \in Up(client) /\ client'[p].by = client[p].by
                                \/ client'[p].by = "person",
         Starting(client') \subseteq Starting(client),
         Idle \/ \A p \in Processes : (client'[p].up = "none" <=> client[p].up = "none")
                                      /\ client'[p].by = client[p].by,
         profile.mode = "LOCAL_WINDOWS"
             /\ (\E s \in Programs : session[s].pc \in {"execute", "open", "type"})
             /\ MainInFront(client)
             => MainInFront(client')
  PROVE  Owners'
<1>1. ASSUME NEW s \in Programs PROVE Owning(s, session[s], client')
  <2>1. Owning(s, session[s], client) /\ OnItsWay(session[s])
    BY DEF Owners, IInv
  <2>2. CASE Idle
    BY <2>1, <2>2, Facts DEF Idle, Owning, OnItsWay, Searching
  <2>3. CASE ~Idle
    <3>1. Up(client') = Up(client) /\ \A p \in Processes : client'[p].by = client[p].by
      BY <2>3 DEF Up
    <3> QED
      BY <2>1, <3>1 DEF Owning, Up
  <2> QED
    BY <2>2, <2>3
<1>2. (\A s \in Programs : Owning(s, session[s], client))'
  BY <1>1 DEF Owning, MainInFront, Up
<1> QED
  BY <1>2 DEF Owners, Starting

LEMMA ClientsKeepOwners ==
  ASSUME IInv, Untroubled, Owners, RoutineReachesWinThor, faults' = 0,
         NEW p \in Processes, WindowOpens(p) \/ ServerAnswers(p) \/ People(p)
  PROVE  Owners' /\ RoutineReachesWinThor'
<1>1. client \in [Processes -> ClientRow] /\ Quiet /\ ~Fault
  BY NoFault, Types DEF IInv, Untroubled
<1>2. UNCHANGED <<profile, vault, session, typed>>
  BY DEF WindowOpens, ServerAnswers, People, PersonOpens, PersonCloses, PersonSignsIn,
     SignedOut
<1>r. RoutineReachesWinThor'
  BY <1>2 DEF RoutineReachesWinThor, Untroubled
<1>3. CASE WindowOpens(p)
  <2>1. client[p].up = "starting" /\ client' = [client EXCEPT ![p].up = "open"]
    BY <1>3 DEF WindowOpens
  <2>2. PICK s \in Programs : session[s].pc = "await"
    BY <2>1 DEF Owners, Starting
  <2>3. \A t \in Programs : session[t].pc \notin {"execute", "open", "type"}
    BY <1>1, <2>2 DEF IInv, OneAtWork
  <2> QED
    BY <1>1, <1>2, <1>r, <2>1, <2>3, DesktopKeepsOwners DEF Up, Starting, ClientRow
<1>4. CASE ServerAnswers(p)
  <2>1. PICK screen \in Following(p) :
            client[p].up = "open" /\ client' = [client EXCEPT ![p].screen = screen]
    BY <1>4 DEF ServerAnswers
  <2>2. client[p].screen # "main"
    BY <2>1 DEF Following
  <2>3. \A q \in Processes : client'[q].up = client[q].up /\ client'[q].by = client[q].by
           /\ (q # p => client'[q].screen = client[q].screen)
    BY <1>1, <2>1 DEF ClientRow
  <2>4. MainInFront(client) => MainInFront(client')
    BY <2>2, <2>3 DEF MainInFront
  <2> QED
    BY <1>2, <1>r, <2>3, <2>4, DesktopKeepsOwners DEF Up, Starting
<1>5. CASE PersonOpens(p)
  <2>1. Idle
    BY <1>1, <1>5 DEF PersonOpens
  <2>2. PICK c : c.by = "person" /\ c.up = "open" /\ client' = [client EXCEPT ![p] = c]
    BY <1>5 DEF PersonOpens
  <2> QED
    BY <1>1, <1>2, <1>r, <2>1, <2>2, DesktopKeepsOwners DEF Up, Starting, Idle
<1>6. CASE PersonCloses(p)
  <2>1. Idle /\ client' = [client EXCEPT ![p] = NoClient]
    BY <1>1, <1>6 DEF PersonCloses
  <2> QED
    BY <1>1, <1>2, <1>r, <2>1, Rows, DesktopKeepsOwners DEF Up, Starting, Idle
<1>7. CASE PersonSignsIn(p)
  <2>1. client' = [client EXCEPT ![p].screen = "main"]
    BY <1>7 DEF PersonSignsIn
  <2>2. \A q \in Processes : client'[q].up = client[q].up /\ client'[q].by = client[q].by
           /\ client'[q].screen = IF q = p THEN "main" ELSE client[q].screen
    BY <1>1, <2>1 DEF ClientRow
  <2>3. MainInFront(client) => MainInFront(client')
    BY <2>2 DEF MainInFront
  <2> QED
    BY <1>2, <1>r, <2>2, <2>3, DesktopKeepsOwners DEF Up, Starting
<1>8. CASE SignedOut(p)
  BY <1>1, <1>8 DEF SignedOut
<1> QED
  BY <1>3, <1>4, <1>5, <1>6, <1>7, <1>8 DEF People

LEMMA OthersKeepOwners ==
  ASSUME IInv, Untroubled, Owners, RoutineReachesWinThor, faults' = 0,
         Abort \/ ProvisionGoGlobal \/ ProvisionWinThor \/ UNCHANGED vars
  PROVE  Owners' /\ RoutineReachesWinThor'
<1>1. UNCHANGED <<profile, client, typed>>
  BY DEF Abort, Quietly, ProvisionGoGlobal, ProvisionWinThor, vars
<1>2. RoutineReachesWinThor'
  BY <1>1 DEF RoutineReachesWinThor, Untroubled
<1>3. CASE Abort
  <2>1. "job" \in Programs /\ session["job"] \in SessionRow /\ OnItsWay(session["job"])
        /\ Owning("job", session["job"], client) /\ session["job"].pc # "idle"
        /\ UNCHANGED <<profile, vault>>
    BY <1>3, Types DEF IInv, Abort, Owners, Quietly
  <2> DEFINE row == [session["job"] EXCEPT !.aborted = TRUE]
  <2>2. row \in SessionRow /\ row.pc = session["job"].pc /\ row.owns = session["job"].owns
        /\ row.pid = session["job"].pid /\ row.auto = session["job"].auto
    BY <2>1 DEF SessionRow
  <2>3. session' = [session EXCEPT !["job"] = row]
    BY <1>3, <2>1, Types DEF IInv, Abort
  <2> HIDE DEF row
  <2>4. OnItsWay(row) /\ Owning("job", row, client)
    BY <2>1, <2>2 DEF OnItsWay, Owning
  <2>5. Starting(client) # {} => row.pc = "await"
    <3>1. \A t \in Programs : session[t].pc = "await" => t = "job"
      BY <2>1 DEF IInv, OneAtWork, Untroubled
    <3> QED
      BY <2>2, <3>1 DEF Owners
  <2>6. OwnsOn("job")
    BY <2>1, <2>2, <2>3, <2>4, <2>5 DEF OwnsOn, BecomesRow
  <2> QED
    BY <1>1, <1>2, <2>1, <2>6, OwnerKeeps
<1>4. CASE UNCHANGED session
  BY <1>1, <1>2, <1>4 DEF Owners, Owning, MainInFront, Up, Starting
<1> QED
  BY <1>3, <1>4 DEF ProvisionGoGlobal, ProvisionWinThor, vars

LEMMA InitOwners == Init => OwnersInv
<1> SUFFICES ASSUME Init PROVE Owners /\ RoutineReachesWinThor
  BY DEF OwnersInv
<1>1. Up(client) = {} /\ Starting(client) = {}
  BY Rows DEF Init, Up, Starting
<1>2. Owners
  BY <1>1 DEF Init, Owners, Owning, NoSession
<1> QED
  BY <1>2 DEF Init, RoutineReachesWinThor, Nothing

(* A step after which no fault has been noted was taken from such a state: *)
(* the two invariants carry each other along.                              *)
LEMMA StepKeepsOwners == IInv /\ OwnersInv /\ [Next]_vars => OwnersInv'
<1> SUFFICES ASSUME IInv, OwnersInv, [Next]_vars, Quiet, faults' = 0
             PROVE  Owners' /\ RoutineReachesWinThor'
  BY DEF OwnersInv, Untroubled
<1>1. faults = 0
  <2>1. faults' = faults \/ faults' = faults + 1
    BY DEF Next, Start, CommandFails, Quietly, Same, SessionStep, FindClient,
       FindLocalWindow, LaunchClient, LaunchEndpoint, LaunchRefused, WindowFound,
       WindowNotFound, InspectClient, ConnectToHost, Settle, WaitForState, BeginGoGlobal,
       BeginLocal, GoOnUnlessAborted, GoGlobalSecret, WinThorSecret, ResolveSecret,
       Authenticate, LoginTransition, Verify, AuthenticateWinThor, OpenGoGlobal,
       LaunchApplication, Launched, OpenLocal, ExecuteJob, DiagnoseGoGlobal,
       DiagnoseLocal, Diagnose, TypeRoutine, TypeRoutineLocal, SendRoutine, Disconnect,
       Answer, Fault, Abort, ProvisionGoGlobal, ProvisionWinThor, WindowOpens,
       ServerAnswers, People, PersonOpens, PersonCloses, PersonSignsIn, SignedOut, vars
  <2> QED
    BY <2>1 DEF IInv, TypeOK
<1>2. Untroubled /\ Owners /\ RoutineReachesWinThor
  BY <1>1 DEF OwnersInv, Untroubled
<1> QED
  BY <1>2, SessionsKeepOwners, ClientsKeepOwners, OthersKeepOwners DEF Next

LEMMA OwnersInvariance == Spec => [](IInv /\ OwnersInv)
BY InitIInv, InitOwners, StepKeepsIInv, StepKeepsOwners, PTL DEF Spec

(* Up to the first fault, the client that a GO-Global session has started  *)
(* is gone when that session has ended.                                    *)
THEOREM NothingIsLeftOpen ==
  ASSUME Quiet PROVE Spec => []NothingLeftOpen
<1>1. IInv /\ OwnersInv => NothingLeftOpen
  <2> SUFFICES ASSUME IInv, OwnersInv, profile.mode = "GO_GLOBAL", faults = 0,
                      NEW s \in Programs, NEW p \in Processes,
                      session[s].pc = "idle", client[p].by = s
               PROVE  client[p].up = "none"
    BY DEF NothingLeftOpen
  <2>1. Owning(s, session[s], client)
    BY DEF OwnersInv, Untroubled, Owners
  <2>2. ~session[s].owns
    BY DEF IInv, OnItsWay, Searching
  <2> QED
    BY <2>1, <2>2 DEF Owning, Up
<1> QED
  BY <1>1, OwnersInvariance, PTL

(* Up to the first fault, the code of a routine reaches the main window of *)
(* a local WinThor: the window in front was signed in when                 *)
(* authenticateWithAccessProfile looked, and stays so.                     *)
THEOREM RoutinesReachWinThor ==
  ASSUME Quiet PROVE Spec => []RoutineReachesWinThor
<1>1. OwnersInv => RoutineReachesWinThor
  BY DEF OwnersInv, Untroubled, RoutineReachesWinThor
<1> QED
  BY <1>1, OwnersInvariance, PTL

(* Up to the first fault, disconnect() closes no client but the one that   *)
(* its session has started.                                                *)
THEOREM SessionsCloseOnlyTheirOwn ==
  ASSUME Quiet PROVE Spec => ClosesOnlyItsOwn
<1> DEFINE Own == \A p \in Processes, s \in Programs :
          faults = 0 /\ Disconnect(s) /\ client[p].up = "open" /\ client'[p].up = "none"
              => client[p].by = s
<1>1. IInv /\ OwnersInv /\ [Next]_vars => [Own]_vars
  <2> SUFFICES ASSUME IInv, OwnersInv, NEW p \in Processes, NEW s \in Programs, faults = 0,
                      Disconnect(s), client[p].up = "open", client'[p].up = "none"
               PROVE  client[p].by = s
    OBVIOUS
  <2>1. p \in Closing(s)
    BY DEF Disconnect
  <2> QED
    BY <2>1, ClosedAreItsOwn DEF OwnersInv, Untroubled, Disconnect
<1> QED
  BY <1>1, OwnersInvariance, PTL DEF Spec, ClosesOnlyItsOwn
=============================================================================
