----------------------------- MODULE AgentAccess -----------------------------
(***************************************************************************)
(* How a machine becomes an agent and loses that right again: the          *)
(* registration of agents, activation codes, credentials, the guard in     *)
(* front of every agent request, the enrollment program of the machine     *)
(* with its credential file, and the start and heartbeats of the agent.    *)
(*                                                                         *)
(* All agents belong to one WinThor instance.  A transaction is one        *)
(* action; a request that reads, awaits and then writes outside of one is  *)
(* several.  Codes and tokens are numbered in the order of their issue;    *)
(* their hashes are unique, so a number stands for both.  The company of   *)
(* the instance is active: `active` of a company is set when it is created *)
(* and no code changes it; in an inactive one agents can be registered,    *)
(* and are then refused everything.                                        *)
(***************************************************************************)
EXTENDS Integers, FiniteSets

CONSTANTS
    Agents, NoAgent,
    Machines, NoMachine,  \* Windows machines; a host name names its machine
    Requests,             \* enrollment requests in progress
    Editors,              \* administrators' update requests in progress
    MaxCodes,             \* bound: activation codes issued
    MaxTokens,            \* bound: credentials issued
    MaxFaults,            \* bound: lost answers, expiries, crashes, revocations,
                          \*   credentials issued by hand
    Careful               \* codes are issued and used only when needed

ASSUME AccessAssumption ==
    /\ NoAgent \notin Agents /\ NoMachine \notin Machines
    /\ MaxCodes \in Nat /\ MaxTokens \in Nat /\ MaxFaults \in Nat
    /\ Careful \in BOOLEAN

VARIABLES
    agent,        \* the Agent rows
    code,         \* the AgentEnrollment rows
    credential,   \* the AgentCredential rows
    usable,       \* the instance is active
    shown,        \* codes that reached the administrator's screen
    issuing,      \* how many code requests of each agent have passed their check
    edit,         \* the update request of each editor
    enroll,       \* the enrollment requests
    disk,         \* installation.json of each machine
    environment,  \* WINAUT_AGENT_TOKEN of each machine
    process,      \* the agent process of each machine
    admitted,     \* heartbeats that have passed the guard: <<machine, token>>
    faults

serverVars  == <<agent, code, credential, usable>>
panelVars   == <<shown, issuing, edit>>
machineVars == <<disk, environment, process>>
vars == <<serverVars, panelVars, enroll, machineVars, admitted, faults>>

Codes   == 1..MaxCodes
Tokens  == 1..MaxTokens
NoToken == 0
Damaged == -1

NoRow      == [created |-> FALSE, enabled |-> FALSE, status |-> "OFFLINE",
               host |-> NoMachine, seen |-> NoToken]
NoCode     == [agent |-> NoAgent, open |-> FALSE, expired |-> FALSE]
NoCredential == [agent |-> NoAgent, revoked |-> FALSE, from |-> 0]
NoEdit     == [agent |-> NoAgent, enable |-> FALSE, enabled |-> FALSE,
               status |-> "OFFLINE"]
NoEnroll   == [pc |-> "idle", machine |-> NoMachine, code |-> 0,
               fresh |-> FALSE, token |-> NoToken, waiting |-> FALSE]
NoProcess  == [pc |-> "down", token |-> NoToken]

TypeOK ==
    /\ agent \in [Agents -> [created : BOOLEAN, enabled : BOOLEAN,
                             status : {"ONLINE", "OFFLINE", "DISABLED"},
                             host : Machines \cup {NoMachine},
                             seen : Tokens \cup {NoToken}]]
    /\ code \in [Codes -> [agent : Agents \cup {NoAgent}, open : BOOLEAN,
                           expired : BOOLEAN]]
    /\ credential \in [Tokens -> [agent : Agents \cup {NoAgent},
                                  revoked : BOOLEAN, from : Codes \cup {0}]]
    /\ usable \in BOOLEAN
    /\ shown \subseteq Codes
    /\ issuing \in [Agents -> 0..MaxCodes]
    /\ edit \in [Editors -> [agent : Agents \cup {NoAgent}, enable : BOOLEAN,
                             enabled : BOOLEAN,
                             status : {"ONLINE", "OFFLINE", "DISABLED"}]]
    /\ enroll \in [Requests -> [pc : {"idle", "sent", "found", "answered"},
                                machine : Machines \cup {NoMachine},
                                code : Codes \cup {0}, fresh : BOOLEAN,
                                token : Tokens \cup {NoToken}, waiting : BOOLEAN]]
    /\ disk \in [Machines -> Tokens \cup {NoToken, Damaged}]
    /\ environment \in [Machines -> Tokens \cup {NoToken}]
    /\ process \in [Machines ->
          [pc : {"down", "configuring", "greeting", "running"},
           token : Tokens \cup {NoToken}]]
    /\ admitted \subseteq (Machines \X Tokens)
    /\ faults \in 0..MaxFaults

Init ==
    /\ agent = [a \in Agents |-> NoRow]
    /\ code = [c \in Codes |-> NoCode]
    /\ credential = [t \in Tokens |-> NoCredential]
    /\ usable = TRUE
    /\ shown = {} /\ issuing = [a \in Agents |-> 0]
    /\ edit = [e \in Editors |-> NoEdit]
    /\ enroll = [r \in Requests |-> NoEnroll]
    /\ disk = [m \in Machines |-> NoToken]
    /\ environment = [m \in Machines |-> NoToken]
    /\ process = [m \in Machines |-> NoProcess]
    /\ admitted = {}
    /\ faults = 0

Fault == faults < MaxFaults /\ faults' = faults + 1

(* The condition on the agent in the create and enroll of enrollments, and *)
(* in the guard.                                                           *)
AgentActive(a) ==
    /\ agent[a].created
    /\ agent[a].enabled
    /\ agent[a].status # "DISABLED"
    /\ usable

(* The guard's condition on a token.                                       *)
TokenAccepted(t) ==
    /\ t \in Tokens
    /\ credential[t].agent # NoAgent
    /\ ~credential[t].revoked
    /\ AgentActive(credential[t].agent)

UnusedCodes  == {c \in Codes : code[c].agent = NoAgent}
UnusedTokens == {t \in Tokens : credential[t].agent = NoAgent}
IsNext(n, S) == n \in S /\ \A k \in S : n <= k

(* Some machine holds an accepted credential of the agent.                 *)
Linked(a) == \E m \in Machines :
    TokenAccepted(disk[m]) /\ credential[disk[m]].agent = a
UsableCode(c) == code[c].open /\ ~code[c].expired

-----------------------------------------------------------------------------
(* The panel: CreateAgentDialog, AgentOnboardingSection,                   *)
(* AgentLifecycleActions and AgentCredentialsSection over their services.  *)

(* CreateAgentDialog.submit and AgentsService.create.  The host name is    *)
(* pending-<uuid> until a machine enrolls.                                 *)
CreateAgent(a) ==
    /\ usable
    /\ ~agent[a].created
    /\ agent' = [agent EXCEPT ![a].created = TRUE, ![a].enabled = TRUE]
    /\ UNCHANGED <<code, credential, usable, panelVars, enroll, machineVars,
                   admitted, faults>>

(* AgentEnrollmentService.create: the check of the agent ...  Any number   *)
(* of requests may be under way for an agent, up to the codes there are.   *)
BeginIssue(a) ==
    /\ AgentActive(a)
    /\ issuing[a] < MaxCodes
    /\ Careful => ~Linked(a) /\ issuing[a] = 0 /\ (\A c \in shown : ~UsableCode(c))
                  /\ \A r \in Requests : enroll[r].pc = "idle"
    /\ issuing' = [issuing EXCEPT ![a] = issuing[a] + 1]
    /\ UNCHANGED <<serverVars, shown, edit, enroll, machineVars, admitted, faults>>

(* Mutant: the earlier codes stay open.                                    *)
IssueAnotherCode(a) == \E c \in Codes :
    /\ issuing[a] > 0
    /\ IsNext(c, UnusedCodes)
    /\ code' = [code EXCEPT ![c] = [agent |-> a, open |-> TRUE, expired |-> FALSE]]
    /\ issuing' = [issuing EXCEPT ![a] = issuing[a] - 1]
    /\ \/ shown' = shown \cup {c} /\ UNCHANGED faults
       \/ Fault /\ UNCHANGED shown
    /\ UNCHANGED <<agent, credential, usable, edit, enroll, machineVars, admitted>>

(* ... and its transaction, which retires the agent's earlier codes.  The  *)
(* answer reaches the panel or is lost.                                    *)
IssueCode(a) == \E c \in Codes :
    /\ issuing[a] > 0
    /\ IsNext(c, UnusedCodes)
    /\ code' = [d \in Codes |->
          IF d = c THEN [agent |-> a, open |-> TRUE, expired |-> FALSE]
          ELSE IF code[d].agent = a THEN [code[d] EXCEPT !.open = FALSE]
          ELSE code[d]]
    /\ issuing' = [issuing EXCEPT ![a] = issuing[a] - 1]
    /\ \/ shown' = shown \cup {c} /\ UNCHANGED faults
       \/ Fault /\ UNCHANGED shown
    /\ UNCHANGED <<agent, credential, usable, edit, enroll, machineVars, admitted>>

(* A code's fifteen minutes are over.                                      *)
ExpireCode(c) ==
    /\ UsableCode(c)
    /\ Fault
    /\ code' = [code EXCEPT ![c].expired = TRUE]
    /\ UNCHANGED <<agent, credential, usable, panelVars, enroll, machineVars, admitted>>

(* AgentsService.update: findOne ...                                       *)
ReadAgent(e, a, enable) ==
    /\ edit[e].agent = NoAgent
    /\ agent[a].created
    /\ edit' = [edit EXCEPT ![e] = [agent |-> a, enable |-> enable,
                                    enabled |-> agent[a].enabled,
                                    status |-> agent[a].status]]
    /\ UNCHANGED <<serverVars, shown, issuing, enroll, machineVars, admitted, faults>>

(* Mutant: enabling again keeps the status.                                *)
StatusKept(q) == IF q.enable THEN q.status ELSE "DISABLED"

(* ... and the write, with a status computed from what was read.           *)
StatusAfter(q) ==
    IF q.enabled = q.enable THEN q.status
    ELSE IF q.enable THEN "OFFLINE" ELSE "DISABLED"

UpdateAgent(e) ==
    LET q == edit[e] IN
    /\ q.agent # NoAgent
    /\ agent' = [agent EXCEPT ![q.agent].enabled = q.enable,
                              ![q.agent].status = StatusAfter(q)]
    /\ edit' = [edit EXCEPT ![e] = NoEdit]
    /\ UNCHANGED <<code, credential, usable, shown, issuing, enroll, machineVars,
                   admitted, faults>>

(* AgentCredentialsService.createCredential; the administrator takes the   *)
(* token of OneTimeTokenDialog to a machine's environment.                 *)
CreateCredential(a, m) == \E t \in Tokens :
    /\ agent[a].created
    /\ Fault
    /\ IsNext(t, UnusedTokens)
    /\ credential' = [credential EXCEPT ![t] =
          [agent |-> a, revoked |-> FALSE, from |-> 0]]
    /\ environment' = [environment EXCEPT ![m] = t]
    /\ UNCHANGED <<agent, code, usable, panelVars, enroll, disk, process,
                   admitted>>

(* AgentCredentialsService.revokeCredential                                *)
RevokeCredential(t) ==
    /\ credential[t].agent # NoAgent
    /\ ~credential[t].revoked
    /\ Fault
    /\ credential' = [credential EXCEPT ![t].revoked = TRUE]
    /\ UNCHANGED <<agent, code, usable, panelVars, enroll, machineVars, admitted>>

(* The instance is deactivated, and activated again.                       *)
Deactivate ==
    /\ usable /\ Fault
    /\ usable' = FALSE
    /\ UNCHANGED <<agent, code, credential, panelVars, enroll, machineVars, admitted>>

Activate ==
    /\ ~usable
    /\ usable' = TRUE
    /\ UNCHANGED <<agent, code, credential, panelVars, enroll, machineVars,
                   admitted, faults>>

-----------------------------------------------------------------------------
(* Enrollment: enroll.ts on the machine, AgentEnrollmentService.enroll on  *)
(* the server.                                                             *)

(* The request arrives; `now` is captured, so the code is taken as fresh   *)
(* or expired for the rest of the request.                                 *)
SendEnroll(r, m, c) ==
    /\ enroll[r].pc = "idle"
    /\ \A q \in Requests : ~(enroll[q].waiting /\ enroll[q].machine = m)
    /\ c \in shown
    /\ Careful => UsableCode(c) /\ ~Linked(code[c].agent)
    /\ enroll' = [enroll EXCEPT ![r] =
          [pc |-> "sent", machine |-> m, code |-> c, fresh |-> ~code[c].expired,
           token |-> NoToken, waiting |-> TRUE]]
    /\ UNCHANGED <<serverVars, panelVars, machineVars, admitted, faults>>

(* Mutant: an agent that was seen cannot be enrolled again.                *)
ReadFirstEnrollment(r) ==
    LET c == enroll[r].code IN
    /\ enroll[r].pc = "sent"
    /\ enroll' = [enroll EXCEPT ![r] =
          IF /\ code[c].open /\ enroll[r].fresh /\ AgentActive(code[c].agent)
             /\ agent[code[c].agent].seen = NoToken
          THEN [enroll[r] EXCEPT !.pc = "found"]
          ELSE NoEnroll]
    /\ UNCHANGED <<serverVars, panelVars, machineVars, admitted, faults>>

(* findFirst of the open, unexpired code of an active agent, or 401.       *)
ReadEnrollment(r) ==
    LET c == enroll[r].code IN
    /\ enroll[r].pc = "sent"
    /\ enroll' = [enroll EXCEPT ![r] =
          IF code[c].open /\ enroll[r].fresh /\ AgentActive(code[c].agent)
          THEN [enroll[r] EXCEPT !.pc = "found"]
          ELSE NoEnroll]
    /\ UNCHANGED <<serverVars, panelVars, machineVars, admitted, faults>>

(* The host name is unique in the instance.                                *)
HostFree(m, a) == \A b \in Agents \ {a} : agent[b].host # m

(* Mutant: the earlier credentials stay valid.                             *)
Added(a, t, c) ==
    [credential EXCEPT ![t] = [agent |-> a, revoked |-> FALSE, from |-> c]]

(* The credentials of the agent after an enrollment issued t for code c.   *)
Reissued(a, t, c) ==
    [u \in Tokens |->
        IF u = t THEN [agent |-> a, revoked |-> FALSE, from |-> c]
        ELSE IF credential[u].agent = a THEN [credential[u] EXCEPT !.revoked = TRUE]
        ELSE credential[u]]

(* Mutant: the number of updated codes is not looked at.                   *)
OpenWhenRead(c) == code[c].agent # NoAgent

(* The transaction's guarded update of the code.                           *)
StillOpen(c) == code[c].open

(* The transaction of enroll: consume the code, revoke, issue, reset the   *)
(* agent.  A host name in use rolls all of it back, the code stays open.   *)
ConsumeCode(r) ==
    LET q == enroll[r]  c == q.code  a == code[c].agent  m == q.machine IN
    /\ q.pc = "found"
    /\ \/ /\ StillOpen(c) /\ HostFree(m, a)
          /\ \E t \in Tokens :
                /\ IsNext(t, UnusedTokens)
                /\ credential' = Reissued(a, t, c)
                /\ enroll' = [enroll EXCEPT ![r] =
                      IF q.waiting THEN [q EXCEPT !.pc = "answered", !.token = t]
                      ELSE NoEnroll]
          /\ code' = [code EXCEPT ![c].open = FALSE]
          /\ agent' = [agent EXCEPT ![a].host = m, ![a].status = "OFFLINE",
                                    ![a].seen = NoToken]
       \/ /\ ~StillOpen(c) \/ ~HostFree(m, a)
          /\ enroll' = [enroll EXCEPT ![r] = NoEnroll]
          /\ UNCHANGED <<agent, code, credential>>
    /\ UNCHANGED <<usable, panelVars, machineVars, admitted, faults>>

(* The answer is protected with DPAPI and written: done, not protected, or *)
(* interrupted within writeFile.                                           *)
SaveCredential(r) ==
    LET q == enroll[r] IN
    /\ q.pc = "answered"
    /\ \/ disk' = [disk EXCEPT ![q.machine] = q.token] /\ UNCHANGED faults
       \/ Fault /\ UNCHANGED disk
       \/ Fault /\ disk' = [disk EXCEPT ![q.machine] = Damaged]
    /\ enroll' = [enroll EXCEPT ![r] = NoEnroll]
    /\ UNCHANGED <<serverVars, panelVars, environment, process, admitted>>

(* The client's timeout, or its death, before the answer has come; the     *)
(* request goes on at the server.                                          *)
GiveUp(r) ==
    /\ enroll[r].waiting /\ enroll[r].pc \in {"sent", "found"}
    /\ Fault
    /\ enroll' = [enroll EXCEPT ![r].waiting = FALSE]
    /\ UNCHANGED <<serverVars, panelVars, machineVars, admitted>>

-----------------------------------------------------------------------------
(* The agent process: cli.ts, loadInstalledAgentEnvironment, initialize    *)
(* and heartbeatLoop of AgentRuntime, behind AgentAuthGuard.               *)

(* WINAUT_AGENT_TOKEN ??= the installed token                              *)
LoadedToken(m) == IF environment[m] # NoToken THEN environment[m] ELSE disk[m]

StartAgent(m) ==
    /\ process[m].pc = "down"
    /\ disk[m] # Damaged
    /\ LoadedToken(m) # NoToken
    /\ process' = [process EXCEPT ![m] =
          [pc |-> "configuring", token |-> LoadedToken(m)]]
    /\ UNCHANGED <<serverVars, panelVars, enroll, disk, environment, admitted, faults>>

(* The process is stopped, or dies.                                        *)
StopAgent(m) ==
    /\ process[m].pc # "down"
    /\ process' = [process EXCEPT ![m] = NoProcess]
    /\ UNCHANGED <<serverVars, panelVars, enroll, disk, environment, admitted>>

Crash(m) == StopAgent(m) /\ Fault

(* Somebody restarts the agent after its machine was linked anew.          *)
RestartAfterEnrollment(m) ==
    /\ disk[m] \notin {NoToken, Damaged, process[m].token}
    /\ StopAgent(m) /\ UNCHANGED faults

(* getConfig: behind the guard, reads only.  A 401 ends the process.       *)
GetConfig(m) ==
    /\ process[m].pc = "configuring"
    /\ process' = [process EXCEPT ![m] =
          IF TokenAccepted(process[m].token) THEN [process[m] EXCEPT !.pc = "greeting"]
          ELSE NoProcess]
    /\ UNCHANGED <<serverVars, panelVars, enroll, disk, environment, admitted, faults>>

(* A timeout or an error of the server: initialize starts over.            *)
RetryStartup(m) ==
    /\ process[m].pc = "greeting"
    /\ Fault
    /\ process' = [process EXCEPT ![m].pc = "configuring"]
    /\ UNCHANGED <<serverVars, panelVars, enroll, disk, environment, admitted>>

(* A heartbeat meets the guard.  A 401 ends a starting process; a running  *)
(* one logs it and goes on.                                                *)
GuardHeartbeat(m) ==
    LET t == process[m].token IN
    /\ process[m].pc \in {"greeting", "running"}
    /\ \/ /\ TokenAccepted(t)
          /\ admitted' = admitted \cup {<<m, t>>}
          /\ UNCHANGED process
       \/ /\ ~TokenAccepted(t) /\ process[m].pc = "greeting"
          /\ process' = [process EXCEPT ![m] = NoProcess]
          /\ UNCHANGED admitted
    /\ UNCHANGED <<serverVars, panelVars, enroll, disk, environment, faults>>

(* AgentsService.heartbeat for an admitted request, at any later time; a   *)
(* host name in use is an error.  The answer may come too late.            *)
Heartbeat(m, t) ==
    LET a == credential[t].agent IN
    /\ <<m, t>> \in admitted
    /\ admitted' = admitted \ {<<m, t>>}
    /\ agent' = IF HostFree(m, a)
                THEN [agent EXCEPT ![a].status = "ONLINE", ![a].host = m, ![a].seen = t]
                ELSE agent
    /\ process' = [process EXCEPT ![m].pc =
          IF process[m] # [pc |-> "greeting", token |-> t] THEN process[m].pc
          ELSE IF HostFree(m, a) THEN "running" ELSE "configuring"]
    /\ UNCHANGED <<code, credential, usable, panelVars, enroll, disk, environment,
                   faults>>

-----------------------------------------------------------------------------
PanelNext ==
    \/ \E a \in Agents : CreateAgent(a) \/ BeginIssue(a) \/ IssueCode(a)
    \/ \E e \in Editors, a \in Agents, b \in BOOLEAN : ReadAgent(e, a, b)
    \/ \E e \in Editors : UpdateAgent(e)
    \/ \E a \in Agents, m \in Machines : CreateCredential(a, m)
    \/ \E t \in Tokens : RevokeCredential(t)
    \/ \E c \in Codes : ExpireCode(c)
    \/ Deactivate \/ Activate

MachineNext ==
    \/ \E r \in Requests, m \in Machines, c \in Codes : SendEnroll(r, m, c)
    \/ \E r \in Requests : ReadEnrollment(r) \/ ConsumeCode(r)
                           \/ SaveCredential(r) \/ GiveUp(r)
    \/ \E m \in Machines : StartAgent(m) \/ Crash(m) \/ RestartAfterEnrollment(m)
                           \/ GetConfig(m) \/ RetryStartup(m) \/ GuardHeartbeat(m)
    \/ \E m \in Machines, t \in Tokens : Heartbeat(m, t)

Next == PanelNext \/ MachineNext

Spec == Init /\ [][Next]_vars

(* The operator follows the programs' messages, and the programs run.      *)
Operator ==
    /\ WF_vars(Activate)
    /\ \A a \in Agents : WF_vars(CreateAgent(a)) /\ WF_vars(BeginIssue(a))
    /\ WF_vars(\E r \in Requests, m \in Machines, c \in Codes : SendEnroll(r, m, c))
    /\ \A m \in Machines : WF_vars(StartAgent(m)) /\ WF_vars(RestartAfterEnrollment(m))

Programs ==
    /\ \A a \in Agents : WF_vars(IssueCode(a))
    /\ \A r \in Requests : WF_vars(ReadEnrollment(r)) /\ WF_vars(ConsumeCode(r))
                           /\ WF_vars(SaveCredential(r))
    /\ \A m \in Machines : WF_vars(GetConfig(m)) /\ WF_vars(GuardHeartbeat(m))
    /\ \A m \in Machines, t \in Tokens : WF_vars(Heartbeat(m, t))

LiveSpec == Spec /\ Operator /\ Programs

-----------------------------------------------------------------------------
(* An activation code buys at most one credential, however many machines   *)
(* present it at once.                                                     *)
CodeUsedOnce ==
    \A t, u \in Tokens :
        credential[t].from # 0 /\ credential[t].from = credential[u].from => t = u

(* An agent has at most one open code: issuing a code retires the earlier  *)
(* ones, even those of requests that are under way.                        *)
OneOpenCode ==
    \A c, d \in Codes :
        code[c].open /\ code[d].open /\ code[c].agent = code[d].agent => c = d

(* At most one enrolled machine can speak for an agent: enrolling revokes  *)
(* what earlier enrollments gave, in whatever order their requests end.    *)
OneLinkedMachine ==
    \A t, u \in Tokens :
        /\ credential[t].from # 0 /\ ~credential[t].revoked
        /\ credential[u].from # 0 /\ ~credential[u].revoked
        /\ credential[t].agent = credential[u].agent
        => t = u

(* An agent that the panel shows as enabled is not locked out by a         *)
(* leftover DISABLED status: concurrent updates, heartbeats and            *)
(* enrollments leave the two fields consistent in this direction.          *)
EnabledIsNotLockedOut ==
    \A a \in Agents : agent[a].enabled => agent[a].status # "DISABLED"

(* The panel: calls of a disabled agent are refused at once (stated by     *)
(* agent-lifecycle-actions.tsx).                                           *)
DisabledIsNotOnline ==
    \A a \in Agents : ~agent[a].enabled => agent[a].status # "ONLINE"

(* The panel: the heartbeat on record came from this installation (stated  *)
(* by agent-onboarding-section.tsx), not from one enrolled before it.      *)
SeenFromThisInstallation ==
    \A a \in Agents, t \in Tokens :
        /\ agent[a].seen # NoToken
        /\ credential[t].agent = a /\ credential[t].from # 0
        => t <= agent[a].seen

(* Once faults stop, an operator who follows the messages gets an agent    *)
(* that stays enabled online from a machine whose credential is the        *)
(* accepted one, whatever was lost, revoked or half written before, as     *)
(* long as nobody copied a token to a machine's environment: that token    *)
(* would be loaded instead of the enrolled one, also once it is revoked.   *)
Undisturbed ==
    /\ <>[](\A a \in Agents : agent[a].enabled)
    /\ <>[](\A e \in Editors : edit[e] = NoEdit)
    /\ [](\A m \in Machines : environment[m] = NoToken)

OnlineAtLast ==
    Undisturbed =>
    <>[](\A a \in Agents : \E m \in Machines :
            /\ process[m].pc = "running"
            /\ TokenAccepted(process[m].token)
            /\ agent[a].status = "ONLINE"
            /\ agent[a].seen = process[m].token)

(* What enrollment promises, requests and machines aside (AgentLinks).     *)
OpenCode == [a \in Agents |->
    IF \E c \in Codes : code[c].open /\ code[c].agent = a
      THEN CHOOSE c \in Codes : code[c].open /\ code[c].agent = a
      ELSE 0]
IsLink(t) == credential[t].from # 0 /\ ~credential[t].revoked
LinkOf == [a \in Agents |->
    IF \E t \in Tokens : IsLink(t) /\ credential[t].agent = a
      THEN CHOOSE t \in Tokens : IsLink(t) /\ credential[t].agent = a
      ELSE NoToken]
BoughtWith == [c \in Codes |->
    IF \E t \in Tokens : credential[t].from = c
      THEN CHOOSE t \in Tokens : credential[t].from = c
      ELSE NoToken]
Links == INSTANCE AgentLinks WITH
             issued <- Codes \ UnusedCodes, current <- OpenCode,
             bought <- BoughtWith, link <- LinkOf

(* Enrollment implements the abstract exchange: whatever requests overlap, *)
(* time out or are repeated, an agent's last code, and no other, turns     *)
(* once into a new credential, which replaces the enrolled one before it   *)
(* in the same step.                                                       *)
ExchangesCodesForLinks == Links!Spec
=============================================================================
