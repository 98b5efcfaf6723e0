-------------------------- MODULE AgentAccessProofs --------------------------
(***************************************************************************)
(* Activation codes, credentials and the lifecycle of agents, for any      *)
(* number of agents, machines, requests and administrators.  A code that   *)
(* has bought a credential is closed and was issued (UsedAreClosed), so    *)
(* neither another request nor a new issue uses it again.  For the status  *)
(* of an agent it is what an administrator's request has read that must    *)
(* be kept (EditsAreOfAgents).                                             *)
(***************************************************************************)
EXTENDS AgentAccess, TLAPS

CodeRow == [agent : Agents \cup {NoAgent}, open : BOOLEAN, expired : BOOLEAN]
CredentialRow == [agent : Agents \cup {NoAgent}, revoked : BOOLEAN, from : Codes \cup {0}]
Statuses == {"ONLINE", "OFFLINE", "DISABLED"}
AgentRow == [created : BOOLEAN, enabled : BOOLEAN, status : Statuses,
             host : Machines \cup {NoMachine}, seen : Tokens \cup {NoToken}]
EditRow == [agent : Agents \cup {NoAgent}, enable : BOOLEAN, enabled : BOOLEAN,
            status : Statuses]
ProcessRow == [pc : {"down", "configuring", "greeting", "running"},
               token : Tokens \cup {NoToken}]

EnrollRow == [pc : {"idle", "sent", "found", "answered"},
              machine : Machines \cup {NoMachine},
              code : Codes \cup {0}, fresh : BOOLEAN,
              token : Tokens \cup {NoToken}, waiting : BOOLEAN]

(* The part of TypeOK that the codes and credentials rest on.              *)
RowTypes ==
    /\ code \in [Codes -> CodeRow]
    /\ credential \in [Tokens -> CredentialRow]
    /\ enroll \in [Requests -> EnrollRow]
    /\ shown \subseteq Codes
    /\ \A r \in Requests : enroll[r].pc \in {"sent", "found"} => enroll[r].code \in Codes

UsedAreClosed ==
    \A t \in Tokens : credential[t].from # 0 =>
        ~code[credential[t].from].open /\ code[credential[t].from].agent # NoAgent

OpenAreIssued == \A c \in Codes : code[c].open => code[c].agent # NoAgent

CInv ==
    /\ RowTypes /\ UsedAreClosed /\ OpenAreIssued
    /\ CodeUsedOnce /\ OneOpenCode /\ OneLinkedMachine

-------------------------------------------------------------------------------
LEMMA CodeNumbers == Codes \subseteq Nat /\ 0 \notin Codes
BY AccessAssumption DEF Codes

LEMMA InitCInv == Init => CInv
<1> SUFFICES ASSUME Init PROVE CInv
  OBVIOUS
<1>1. NoCode \in CodeRow /\ NoCredential \in CredentialRow /\ NoEnroll \in EnrollRow
  BY DEF NoCode, CodeRow, NoCredential, CredentialRow, NoEnroll, EnrollRow
<1>2. RowTypes
  BY <1>1 DEF Init, RowTypes, NoEnroll
<1>3. UsedAreClosed /\ CodeUsedOnce /\ OneLinkedMachine
  BY DEF Init, NoCredential, UsedAreClosed, CodeUsedOnce, OneLinkedMachine
<1>4. OpenAreIssued /\ OneOpenCode
  BY DEF Init, NoCode, OpenAreIssued, OneOpenCode
<1> QED
  BY <1>2, <1>3, <1>4 DEF CInv

(* An enrollment gives the agent a first credential for the code, and      *)
(* leaves no other enrolled one unrevoked.                                 *)
LEMMA ReissuedRows ==
  ASSUME NEW a \in Agents \cup {NoAgent}, NEW t \in Tokens, NEW c \in Codes, RowTypes
  PROVE  /\ Reissued(a, t, c) \in [Tokens -> CredentialRow]
         /\ Reissued(a, t, c)[t] = [agent |-> a, revoked |-> FALSE, from |-> c]
         /\ \A u \in Tokens \ {t} :
              /\ Reissued(a, t, c)[u].from = credential[u].from
              /\ Reissued(a, t, c)[u].agent = credential[u].agent
              /\ credential[u].revoked => Reissued(a, t, c)[u].revoked
              /\ credential[u].agent = a => Reissued(a, t, c)[u].revoked
<1>1. \A u \in Tokens : credential[u] \in CredentialRow
  BY DEF RowTypes
<1>2. [agent |-> a, revoked |-> FALSE, from |-> c] \in CredentialRow
  BY DEF CredentialRow
<1>3. \A u \in Tokens : [credential[u] EXCEPT !.revoked = TRUE] \in CredentialRow
  BY <1>1 DEF CredentialRow
<1>4. Reissued(a, t, c) \in [Tokens -> CredentialRow]
  BY <1>1, <1>2, <1>3 DEF Reissued
<1>5. Reissued(a, t, c)[t] = [agent |-> a, revoked |-> FALSE, from |-> c]
  BY DEF Reissued
<1>6. ASSUME NEW u \in Tokens \ {t}
      PROVE /\ Reissued(a, t, c)[u].from = credential[u].from
            /\ Reissued(a, t, c)[u].agent = credential[u].agent
            /\ credential[u].revoked => Reissued(a, t, c)[u].revoked
            /\ credential[u].agent = a => Reissued(a, t, c)[u].revoked
  BY <1>1 DEF Reissued, CredentialRow
<1> QED
  BY <1>4, <1>5, <1>6

(* Steps that leave codes and credentials alone.                           *)
LEMMA QuietSteps == CInv /\ UNCHANGED <<code, credential>> /\ RowTypes' => CInv'
BY DEF CInv, UsedAreClosed, OpenAreIssued, CodeUsedOnce, OneOpenCode, OneLinkedMachine

-------------------------------------------------------------------------------
(* A new code is one that bought nothing; the agent's others are closed.   *)
LEMMA IssueKeeps == ASSUME NEW a \in Agents, CInv, IssueCode(a) PROVE CInv'
<1> PICK c \in Codes :
      /\ code[c].agent = NoAgent
      /\ code' = [d \in Codes |->
            IF d = c THEN [agent |-> a, open |-> TRUE, expired |-> FALSE]
            ELSE IF code[d].agent = a THEN [code[d] EXCEPT !.open = FALSE]
            ELSE code[d]]
  BY DEF IssueCode, IsNext, UnusedCodes
<1>a. a # NoAgent
  BY AccessAssumption
<1>u. UNCHANGED <<credential, enroll>> /\ shown' \subseteq Codes
  BY DEF IssueCode, CInv, RowTypes
<1>1. code'[c] = [agent |-> a, open |-> TRUE, expired |-> FALSE]
  OBVIOUS
<1>2. ASSUME NEW d \in Codes \ {c}
      PROVE /\ code'[d] \in CodeRow
            /\ code'[d].agent = code[d].agent
            /\ code'[d].open => code[d].open /\ code[d].agent # a
  <2>1. code[d] \in CodeRow
    BY DEF CInv, RowTypes
  <2>2. CASE code[d].agent = a
    <3>1. code'[d] = [code[d] EXCEPT !.open = FALSE]
      BY <2>2
    <3> QED
      BY <2>1, <3>1 DEF CodeRow
  <2>3. CASE code[d].agent # a
    BY <2>1, <2>3
  <2> QED
    BY <2>2, <2>3
<1>3. RowTypes'
  <2>1. code'[c] \in CodeRow
    BY <1>1 DEF CodeRow
  <2>2. code' \in [Codes -> CodeRow]
    BY <2>1, <1>2
  <2> QED
    BY <2>2, <1>u DEF CInv, RowTypes
<1>4. UsedAreClosed'
  <2> SUFFICES ASSUME NEW t \in Tokens, credential[t].from # 0
               PROVE ~code'[credential[t].from].open /\ code'[credential[t].from].agent # NoAgent
    BY <1>u DEF UsedAreClosed
  <2>1. credential[t].from \in Codes
    BY DEF CInv, RowTypes, CredentialRow
  <2>2. ~code[credential[t].from].open /\ code[credential[t].from].agent # NoAgent
    BY DEF CInv, UsedAreClosed
  <2> QED
    BY <2>1, <2>2, <1>2
<1>5. OpenAreIssued'
  BY <1>1, <1>2, <1>a DEF CInv, OpenAreIssued
<1>6. OneOpenCode'
  BY <1>1, <1>2 DEF CInv, OneOpenCode
<1>7. CodeUsedOnce' /\ OneLinkedMachine'
  BY <1>u DEF CInv, CodeUsedOnce, OneLinkedMachine
<1> QED
  BY <1>3, <1>4, <1>5, <1>6, <1>7 DEF CInv

LEMMA ExpireKeeps == ASSUME NEW c \in Codes, CInv, ExpireCode(c) PROVE CInv'
<1>u. UNCHANGED <<credential, enroll, shown>> /\ code' = [code EXCEPT ![c].expired = TRUE]
  BY DEF ExpireCode, panelVars
<1>1. ASSUME NEW d \in Codes
      PROVE /\ code'[d] \in CodeRow
            /\ code'[d].agent = code[d].agent /\ code'[d].open = code[d].open
  BY <1>u DEF CInv, RowTypes, CodeRow
<1>2. code' \in [Codes -> CodeRow]
  BY <1>u, <1>1 DEF CInv, RowTypes
<1>3. RowTypes'
  BY <1>u, <1>2 DEF CInv, RowTypes
<1>4. UsedAreClosed'
  <2>1. \A t \in Tokens : credential[t].from # 0 => credential[t].from \in Codes
    BY DEF CInv, RowTypes, CredentialRow
  <2> QED
    BY <1>u, <1>1, <2>1 DEF CInv, UsedAreClosed
<1>5. OpenAreIssued' /\ OneOpenCode'
  BY <1>1 DEF CInv, OpenAreIssued, OneOpenCode
<1>6. CodeUsedOnce' /\ OneLinkedMachine'
  BY <1>u DEF CInv, CodeUsedOnce, OneLinkedMachine
<1> QED
  BY <1>3, <1>4, <1>5, <1>6 DEF CInv

(* A credential issued by hand belongs to no code.                         *)
LEMMA CreateCredentialKeeps ==
  ASSUME NEW a \in Agents, NEW m \in Machines, CInv, CreateCredential(a, m) PROVE CInv'
<1> PICK t \in Tokens :
      credential' = [credential EXCEPT ![t] = [agent |-> a, revoked |-> FALSE, from |-> 0]]
  BY DEF CreateCredential, IsNext, UnusedTokens
<1>u. UNCHANGED <<code, enroll, shown>>
  BY DEF CreateCredential, panelVars
<1>1. credential'[t] = [agent |-> a, revoked |-> FALSE, from |-> 0]
  BY DEF CInv, RowTypes
<1>2. \A u \in Tokens \ {t} : credential'[u] = credential[u]
  BY DEF CInv, RowTypes
<1>3. RowTypes'
  <2>1. [agent |-> a, revoked |-> FALSE, from |-> 0] \in CredentialRow
    BY DEF CredentialRow
  <2>2. credential' \in [Tokens -> CredentialRow]
    BY <2>1 DEF CInv, RowTypes
  <2> QED
    BY <2>2, <1>u DEF CInv, RowTypes
<1>4. UsedAreClosed' /\ CodeUsedOnce' /\ OneLinkedMachine'
  BY <1>1, <1>2, <1>u DEF CInv, UsedAreClosed, CodeUsedOnce, OneLinkedMachine
<1>5. OpenAreIssued' /\ OneOpenCode'
  BY <1>u DEF CInv, OpenAreIssued, OneOpenCode
<1> QED
  BY <1>3, <1>4, <1>5 DEF CInv

LEMMA RevokeKeeps == ASSUME NEW t \in Tokens, CInv, RevokeCredential(t) PROVE CInv'
<1>u. /\ UNCHANGED <<code, enroll, shown>>
      /\ credential' = [credential EXCEPT ![t].revoked = TRUE]
  BY DEF RevokeCredential, panelVars
<1>1. ASSUME NEW u \in Tokens
      PROVE /\ credential'[u] \in CredentialRow
            /\ credential'[u].agent = credential[u].agent
            /\ credential'[u].from = credential[u].from
            /\ credential[u].revoked => credential'[u].revoked
  BY <1>u DEF CInv, RowTypes, CredentialRow
<1>2. credential' \in [Tokens -> CredentialRow]
  BY <1>u, <1>1 DEF CInv, RowTypes
<1>3. RowTypes'
  BY <1>u, <1>2 DEF CInv, RowTypes
<1>4. UsedAreClosed' /\ CodeUsedOnce' /\ OneLinkedMachine'
  BY <1>1, <1>u DEF CInv, UsedAreClosed, CodeUsedOnce, OneLinkedMachine
<1>5. OpenAreIssued' /\ OneOpenCode'
  BY <1>u DEF CInv, OpenAreIssued, OneOpenCode
<1> QED
  BY <1>3, <1>4, <1>5 DEF CInv

(* The code is open when it is consumed, so no credential came from it.    *)
LEMMA ConsumeKeeps == ASSUME NEW r \in Requests, CInv, ConsumeCode(r) PROVE CInv'
<1> DEFINE q == enroll[r]  c == q.code  a == code[c].agent
<1>q. q \in EnrollRow /\ c \in Codes /\ code[c] \in CodeRow /\ UNCHANGED shown
  BY DEF CInv, RowTypes, ConsumeCode, panelVars
<1>1. CASE /\ enroll' = [enroll EXCEPT ![r] = NoEnroll]
           /\ UNCHANGED <<code, credential>>
  <2>1. NoEnroll \in EnrollRow
    BY DEF NoEnroll, EnrollRow
  <2>2. RowTypes'
    BY <1>q, <1>1, <2>1 DEF CInv, RowTypes, NoEnroll
  <2> QED
    BY <1>1, <2>2, QuietSteps
<1>2. ASSUME NEW t \in Tokens, code[c].open,
             credential' = Reissued(a, t, c),
             enroll' = [enroll EXCEPT ![r] =
                IF q.waiting THEN [q EXCEPT !.pc = "answered", !.token = t] ELSE NoEnroll],
             code' = [code EXCEPT ![c].open = FALSE]
      PROVE CInv'
  <2> DEFINE next == IF q.waiting THEN [q EXCEPT !.pc = "answered", !.token = t] ELSE NoEnroll
  <2>a. a \in Agents \cup {NoAgent} /\ a # NoAgent
    BY <1>q, <1>2 DEF CInv, OpenAreIssued, CodeRow
  <2>1. next \in EnrollRow /\ next.pc \notin {"sent", "found"}
    BY <1>q DEF NoEnroll, EnrollRow
  <2>2. /\ credential' \in [Tokens -> CredentialRow]
        /\ credential'[t] = [agent |-> a, revoked |-> FALSE, from |-> c]
        /\ \A u \in Tokens \ {t} :
              /\ credential'[u].from = credential[u].from
              /\ credential'[u].agent = credential[u].agent
              /\ credential[u].revoked => credential'[u].revoked
              /\ credential[u].agent = a => credential'[u].revoked
    BY <1>q, <1>2, <2>a, ReissuedRows DEF CInv
  <2>3. ASSUME NEW d \in Codes
        PROVE /\ code'[d] \in CodeRow
              /\ code'[d].agent = code[d].agent
              /\ code'[d].open => code[d].open /\ d # c
    BY <1>q, <1>2 DEF CInv, RowTypes, CodeRow
  <2>4. RowTypes'
    <3>1. code' \in [Codes -> CodeRow]
      BY <1>2, <2>3 DEF CInv, RowTypes
    <3>2. enroll' = [enroll EXCEPT ![r] = next]
      BY <1>2
    <3>3. /\ enroll' \in [Requests -> EnrollRow]
          /\ \A s \in Requests : enroll'[s].pc \in {"sent", "found"} => enroll'[s].code \in Codes
      <4> HIDE DEF next
      <4> QED
        BY <3>2, <2>1 DEF CInv, RowTypes
    <3> QED
      BY <3>1, <3>3, <2>2, <1>q DEF CInv, RowTypes
  <2>5. \A u \in Tokens : credential[u].from # c
    BY <1>2, <1>q, CodeNumbers DEF CInv, UsedAreClosed
  <2>6. UsedAreClosed'
    <3> SUFFICES ASSUME NEW u \in Tokens, credential'[u].from # 0
                 PROVE /\ ~code'[credential'[u].from].open
                       /\ code'[credential'[u].from].agent # NoAgent
      BY DEF UsedAreClosed
    <3>1. CASE u = t
      BY <3>1, <2>a, <2>2, <2>3, <1>q
    <3>2. CASE u # t
      <4>1. credential[u].from # 0 /\ credential'[u].from = credential[u].from
        BY <3>2, <2>2
      <4>2. credential[u].from \in Codes
        BY <4>1 DEF CInv, RowTypes, CredentialRow
      <4>3. ~code[credential[u].from].open /\ code[credential[u].from].agent # NoAgent
        BY <4>1 DEF CInv, UsedAreClosed
      <4> QED
        BY <4>1, <4>2, <4>3, <2>3
    <3> QED
      BY <3>1, <3>2
  <2>7. CodeUsedOnce'
    BY <2>2, <2>5 DEF CInv, CodeUsedOnce
  <2>8. OneLinkedMachine'
    BY <2>2 DEF CInv, OneLinkedMachine
  <2>9. OpenAreIssued' /\ OneOpenCode'
    BY <2>3 DEF CInv, OpenAreIssued, OneOpenCode
  <2> QED
    BY <2>4, <2>6, <2>7, <2>8, <2>9 DEF CInv
<1> QED
  BY <1>1, <1>2 DEF ConsumeCode, StillOpen

(* The other steps of a request.                                           *)
LEMMA RequestKeeps ==
  ASSUME CInv, NEW r \in Requests,
         \/ \E m \in Machines, c \in Codes : SendEnroll(r, m, c)
         \/ ReadEnrollment(r) \/ SaveCredential(r) \/ GiveUp(r)
  PROVE  CInv'
<1>1. UNCHANGED <<code, credential, shown>>
  BY DEF SendEnroll, ReadEnrollment, SaveCredential, GiveUp, serverVars, panelVars
<1>2. NoEnroll \in EnrollRow /\ NoEnroll.pc \notin {"sent", "found"}
  BY DEF NoEnroll, EnrollRow
<1>3. enroll[r] \in EnrollRow
  BY DEF CInv, RowTypes
<1> DEFINE Written == \E row \in EnrollRow :
              /\ enroll' = [enroll EXCEPT ![r] = row]
              /\ row.pc \in {"sent", "found"} => row.code \in Codes
<1>4. Written
  <2>1. ASSUME NEW m \in Machines, NEW c \in Codes, SendEnroll(r, m, c) PROVE Written
    <3>1. code[c].expired \in BOOLEAN
      BY DEF CInv, RowTypes, CodeRow
    <3> DEFINE row == [pc |-> "sent", machine |-> m, code |-> c,
                       fresh |-> ~code[c].expired, token |-> NoToken, waiting |-> TRUE]
    <3>2. (~code[c].expired) \in BOOLEAN
      BY <3>1, Zenon
    <3>3. row \in EnrollRow /\ row.code \in Codes
      BY <3>2 DEF EnrollRow
    <3> QED
      BY <2>1, <3>3 DEF SendEnroll
  <2>2. CASE ReadEnrollment(r)
    <3>1. CASE enroll' = [enroll EXCEPT ![r] = [enroll[r] EXCEPT !.pc = "found"]]
      <4>1. /\ [enroll[r] EXCEPT !.pc = "found"] \in EnrollRow
            /\ [enroll[r] EXCEPT !.pc = "found"].code = enroll[r].code
        BY <1>3 DEF EnrollRow
      <4>2. enroll[r].code \in Codes
        BY <2>2 DEF ReadEnrollment, CInv, RowTypes
      <4> QED
        BY <3>1, <4>1, <4>2
    <3>2. CASE enroll' = [enroll EXCEPT ![r] = NoEnroll]
      BY <1>2, <3>2
    <3> QED
      BY <2>2, <3>1, <3>2 DEF ReadEnrollment
  <2>3. CASE SaveCredential(r)
    BY <1>2, <2>3 DEF SaveCredential
  <2>4. CASE GiveUp(r)
    <3>1. /\ [enroll[r] EXCEPT !.waiting = FALSE] \in EnrollRow
          /\ [enroll[r] EXCEPT !.waiting = FALSE].code = enroll[r].code
      BY <1>3 DEF EnrollRow
    <3>2. enroll' = [enroll EXCEPT ![r] = [enroll[r] EXCEPT !.waiting = FALSE]]
      BY <2>4 DEF GiveUp
    <3>3. enroll[r].code \in Codes
      BY <2>4 DEF GiveUp, CInv, RowTypes
    <3> QED
      BY <3>1, <3>2, <3>3
  <2> QED
    BY <2>1, <2>2, <2>3, <2>4
<1>5. RowTypes'
  BY <1>1, <1>4 DEF CInv, RowTypes
<1> QED
  BY <1>1, <1>5, QuietSteps

LEMMA NextCInv == CInv /\ [Next]_vars => CInv'
<1> SUFFICES ASSUME CInv, [Next]_vars PROVE CInv'
  OBVIOUS
<1>q. ASSUME UNCHANGED <<code, credential, enroll>>, shown' = shown PROVE CInv'
  <2>1. RowTypes'
    BY <1>q DEF CInv, RowTypes
  <2> QED
    BY <1>q, <2>1, QuietSteps
<1>1. CASE PanelNext
  <2>1. ASSUME NEW a \in Agents, CreateAgent(a) \/ BeginIssue(a) PROVE CInv'
    BY <2>1, <1>q DEF CreateAgent, BeginIssue, serverVars, panelVars
  <2>2. ASSUME NEW e \in Editors, UpdateAgent(e) \/ \E a \in Agents, b \in BOOLEAN : ReadAgent(e, a, b)
        PROVE CInv'
    BY <2>2, <1>q DEF UpdateAgent, ReadAgent, serverVars, panelVars
  <2>3. CASE Deactivate \/ Activate
    BY <2>3, <1>q DEF Deactivate, Activate, panelVars
  <2> QED
    BY <1>1, <2>1, <2>2, <2>3, IssueKeeps, ExpireKeeps, CreateCredentialKeeps, RevokeKeeps
       DEF PanelNext
<1>2. CASE MachineNext
  <2>1. ASSUME NEW m \in Machines,
               \/ StartAgent(m) \/ Crash(m) \/ RestartAfterEnrollment(m)
               \/ GetConfig(m) \/ RetryStartup(m) \/ GuardHeartbeat(m)
               \/ \E t \in Tokens : Heartbeat(m, t)
        PROVE CInv'
    BY <2>1, <1>q DEF StartAgent, Crash, RestartAfterEnrollment, StopAgent, GetConfig,
         RetryStartup, GuardHeartbeat, Heartbeat, serverVars, panelVars
  <2> QED
    BY <1>2, <2>1, ConsumeKeeps, RequestKeeps DEF MachineNext
<1>3. CASE UNCHANGED vars
  BY <1>3, <1>q DEF vars, serverVars, panelVars
<1> QED
  BY <1>1, <1>2, <1>3 DEF Next

LEMMA AlwaysCInv == Spec => []CInv
BY InitCInv, NextCInv, PTL DEF Spec

-------------------------------------------------------------------------------
(* A code buys at most one credential, whoever presents it and when.       *)
THEOREM CodesBuyOnce == Spec => []CodeUsedOnce
<1>1. CInv => CodeUsedOnce
  BY DEF CInv
<1> QED
  BY <1>1, AlwaysCInv, PTL

(* An agent has one open code, however many requests issue codes at once.  *)
THEOREM OneCodeIsOpen == Spec => []OneOpenCode
<1>1. CInv => OneOpenCode
  BY DEF CInv
<1> QED
  BY <1>1, AlwaysCInv, PTL

(* The last enrollment is the only one that speaks for the agent.          *)
THEOREM OneMachineIsLinked == Spec => []OneLinkedMachine
<1>1. CInv => OneLinkedMachine
  BY DEF CInv
<1> QED
  BY <1>1, AlwaysCInv, PTL

-------------------------------------------------------------------------------
(* The status of agents.  An update writes a status computed from what its *)
(* request has read, so what matters is that no request holds an enabled   *)
(* agent with status DISABLED; and that no unregistered agent has one,     *)
(* because registering it leaves the status.                               *)
StatusInv ==
    /\ agent \in [Agents -> AgentRow]
    /\ edit \in [Editors -> EditRow]
    /\ \A a \in Agents : ~agent[a].created => agent[a].status # "DISABLED"
    /\ \A e \in Editors : edit[e].enabled => edit[e].status # "DISABLED"
    /\ \A e \in Editors : edit[e].agent # NoAgent => agent[edit[e].agent].created
    /\ EnabledIsNotLockedOut

(* The part of TypeOK that codes and statuses do not need.                 *)
MachineTypes ==
    /\ usable \in BOOLEAN
    /\ issuing \in [Agents -> 0..MaxCodes]
    /\ disk \in [Machines -> Tokens \cup {NoToken, Damaged}]
    /\ environment \in [Machines -> Tokens \cup {NoToken}]
    /\ process \in [Machines -> ProcessRow]
    /\ admitted \subseteq (Machines \X Tokens)
    /\ faults \in 0..MaxFaults
    /\ \A r \in Requests :
          /\ enroll[r].pc # "idle" => enroll[r].machine \in Machines
          /\ enroll[r].pc = "answered" => enroll[r].token \in Tokens

LEMMA InitStatus == Init => StatusInv
<1>1. NoRow \in AgentRow /\ NoEdit \in EditRow
  BY DEF NoRow, AgentRow, Statuses, NoEdit, EditRow
<1>2. /\ ~NoRow.created /\ ~NoRow.enabled /\ NoRow.status = "OFFLINE"
      /\ ~NoEdit.enabled /\ NoEdit.agent = NoAgent
  BY DEF NoRow, NoEdit
<1>3. Init => /\ agent = [a \in Agents |-> NoRow]
              /\ edit = [e \in Editors |-> NoEdit]
  BY DEF Init
<1> QED
  BY <1>1, <1>2, <1>3 DEF StatusInv, EnabledIsNotLockedOut

LEMMA CreateAgentStatus ==
  ASSUME NEW a \in Agents, StatusInv, CreateAgent(a) PROVE StatusInv'
<1>1. /\ agent' = [agent EXCEPT ![a].created = TRUE, ![a].enabled = TRUE]
      /\ edit' = edit /\ ~agent[a].created
  BY DEF CreateAgent, panelVars
<1>2. ASSUME NEW b \in Agents
      PROVE /\ agent'[b] \in AgentRow
            /\ agent'[b].status = agent[b].status
            /\ b # a => agent'[b] = agent[b]
  BY <1>1 DEF StatusInv, AgentRow
<1>3. agent' \in [Agents -> AgentRow]
  BY <1>1, <1>2 DEF StatusInv
<1>4. EnabledIsNotLockedOut'
  BY <1>1, <1>2 DEF StatusInv, EnabledIsNotLockedOut
<1>5. \A b \in Agents : ~agent'[b].created => agent'[b].status # "DISABLED"
  BY <1>1, <1>2 DEF StatusInv
<1>6. \A b \in Agents : agent[b].created => agent'[b].created
  BY <1>1 DEF StatusInv, AgentRow
<1>7. \A e \in Editors : edit[e].agent # NoAgent => agent'[edit[e].agent].created
  <2> SUFFICES ASSUME NEW e \in Editors, edit[e].agent # NoAgent
               PROVE agent'[edit[e].agent].created
    OBVIOUS
  <2>1. edit[e].agent \in Agents
    BY DEF StatusInv, EditRow
  <2> QED
    BY <2>1, <1>6 DEF StatusInv
<1> QED
  BY <1>1, <1>3, <1>4, <1>5, <1>7 DEF StatusInv

LEMMA ReadAgentStatus ==
  ASSUME NEW e \in Editors, NEW a \in Agents, NEW b \in BOOLEAN, StatusInv, ReadAgent(e, a, b)
  PROVE  StatusInv'
<1> DEFINE row == [agent |-> a, enable |-> b, enabled |-> agent[a].enabled,
                   status |-> agent[a].status]
<1>1. agent' = agent /\ edit' = [edit EXCEPT ![e] = row]
  BY DEF ReadAgent, serverVars
<1>2. agent[a].enabled \in BOOLEAN /\ agent[a].status \in Statuses
  BY DEF StatusInv, AgentRow
<1>3. row \in EditRow
  BY <1>2 DEF EditRow
<1>4. row.enabled => row.status # "DISABLED"
  BY DEF StatusInv, EnabledIsNotLockedOut
<1>5. row.agent = a /\ agent[a].created
  BY DEF ReadAgent
<1> HIDE DEF row
<1> QED
  BY <1>1, <1>3, <1>4, <1>5 DEF StatusInv, EnabledIsNotLockedOut

LEMMA UpdateAgentStatus ==
  ASSUME NEW e \in Editors, StatusInv, UpdateAgent(e) PROVE StatusInv'
<1> DEFINE q == edit[e]
<1>1. /\ q.agent # NoAgent
      /\ agent' = [agent EXCEPT ![q.agent].enabled = q.enable,
                                ![q.agent].status = StatusAfter(q)]
      /\ edit' = [edit EXCEPT ![e] = NoEdit]
  BY DEF UpdateAgent
<1>2. q \in EditRow /\ (q.enabled => q.status # "DISABLED")
  BY DEF StatusInv
<1>3. StatusAfter(q) \in Statuses /\ (q.enable => StatusAfter(q) # "DISABLED")
  BY <1>2 DEF StatusAfter, EditRow, Statuses
<1>4. NoEdit \in EditRow /\ ~NoEdit.enabled /\ NoEdit.agent = NoAgent
  BY DEF NoEdit, EditRow, Statuses
<1>5. q.agent \in Agents /\ agent[q.agent].created
  BY <1>1, <1>2 DEF StatusInv, EditRow
<1>6. ASSUME NEW b \in Agents
      PROVE /\ agent'[b] \in AgentRow
            /\ agent'[b].created = agent[b].created
            /\ b # q.agent => agent'[b] = agent[b]
            /\ b = q.agent => agent'[b].enabled = q.enable
                              /\ agent'[b].status = StatusAfter(q)
  BY <1>1, <1>2, <1>3 DEF StatusInv, AgentRow, EditRow
<1>7. agent' \in [Agents -> AgentRow]
  BY <1>1, <1>6 DEF StatusInv
<1>8. EnabledIsNotLockedOut'
  BY <1>3, <1>6 DEF StatusInv, EnabledIsNotLockedOut
<1>9. /\ edit' \in [Editors -> EditRow]
      /\ \A f \in Editors : edit'[f] = NoEdit \/ edit'[f] = edit[f]
  BY <1>1, <1>4 DEF StatusInv
<1>10. \A f \in Editors : edit'[f].agent # NoAgent => agent'[edit'[f].agent].created
  <2> SUFFICES ASSUME NEW f \in Editors, edit'[f].agent # NoAgent
               PROVE agent'[edit'[f].agent].created
    OBVIOUS
  <2>1. edit'[f] = edit[f] /\ edit[f].agent \in Agents
    BY <1>4, <1>9 DEF StatusInv, EditRow
  <2> QED
    BY <2>1, <1>6 DEF StatusInv
<1>11. \A b \in Agents : ~agent'[b].created => agent'[b].status # "DISABLED"
  BY <1>5, <1>6 DEF StatusInv
<1>12. \A f \in Editors : edit'[f].enabled => edit'[f].status # "DISABLED"
  BY <1>4, <1>9 DEF StatusInv
<1> QED
  BY <1>7, <1>8, <1>9, <1>10, <1>11, <1>12 DEF StatusInv

(* An enrollment and a heartbeat write statuses of their own.              *)
LEMMA OtherStatus ==
  ASSUME StatusInv, edit' = edit, agent' \in [Agents -> AgentRow],
         \A a \in Agents : /\ agent'[a].created = agent[a].created
                           /\ agent'[a].enabled = agent[a].enabled
                           /\ agent'[a].status \in {agent[a].status, "ONLINE", "OFFLINE"}
  PROVE  StatusInv'
<1>1. \A e \in Editors : edit[e].agent # NoAgent => agent'[edit[e].agent].created
  <2> SUFFICES ASSUME NEW e \in Editors, edit[e].agent # NoAgent
               PROVE agent'[edit[e].agent].created
    OBVIOUS
  <2>1. edit[e].agent \in Agents
    BY DEF StatusInv, EditRow
  <2> QED
    BY <2>1 DEF StatusInv
<1> QED
  BY <1>1 DEF StatusInv, EnabledIsNotLockedOut

LEMMA ConsumeStatus ==
  ASSUME NEW r \in Requests, CInv, MachineTypes, StatusInv, ConsumeCode(r) PROVE StatusInv'
<1> DEFINE q == enroll[r]  a == code[q.code].agent  m == q.machine
<1>1. edit' = edit
  BY DEF ConsumeCode, panelVars
<1>2. CASE agent' = agent
  BY <1>1, <1>2 DEF StatusInv, EnabledIsNotLockedOut
<1>3. CASE agent' = [agent EXCEPT ![a].host = m, ![a].status = "OFFLINE", ![a].seen = NoToken]
  <2>1. m \in Machines
    BY DEF ConsumeCode, MachineTypes
  <2>2. ASSUME NEW b \in Agents
        PROVE /\ agent'[b] \in AgentRow
              /\ agent'[b].created = agent[b].created
              /\ agent'[b].enabled = agent[b].enabled
              /\ agent'[b].status \in {agent[b].status, "ONLINE", "OFFLINE"}
    <3>1. agent[b] \in AgentRow
      BY DEF StatusInv
    <3>2. CASE b # a
      BY <1>3, <3>1, <3>2 DEF StatusInv
    <3>3. CASE b = a
      <4>1. agent'[b] = [agent[b] EXCEPT !.host = m, !.status = "OFFLINE", !.seen = NoToken]
        BY <1>3, <3>3 DEF StatusInv
      <4> HIDE DEF m
      <4> QED
        BY <2>1, <3>1, <4>1 DEF AgentRow, Statuses
    <3> QED
      BY <3>2, <3>3
  <2>3. agent' \in [Agents -> AgentRow]
    BY <1>3, <2>2 DEF StatusInv
  <2> QED
    BY <1>1, <2>2, <2>3, OtherStatus
<1> QED
  BY <1>2, <1>3 DEF ConsumeCode

LEMMA HeartbeatStatus ==
  ASSUME NEW m \in Machines, NEW t \in Tokens, StatusInv, Heartbeat(m, t) PROVE StatusInv'
<1> DEFINE a == credential[t].agent
<1>1. edit' = edit
  BY DEF Heartbeat, panelVars
<1>2. CASE agent' = agent
  BY <1>1, <1>2 DEF StatusInv, EnabledIsNotLockedOut
<1>3. CASE agent' = [agent EXCEPT ![a].status = "ONLINE", ![a].host = m, ![a].seen = t]
  <2>1. ASSUME NEW b \in Agents
        PROVE /\ agent'[b] \in AgentRow
              /\ agent'[b].created = agent[b].created
              /\ agent'[b].enabled = agent[b].enabled
              /\ agent'[b].status \in {agent[b].status, "ONLINE", "OFFLINE"}
    BY <1>3 DEF StatusInv, AgentRow, Statuses
  <2>2. agent' \in [Agents -> AgentRow]
    BY <1>3, <2>1 DEF StatusInv
  <2> QED
    BY <1>1, <2>1, <2>2, OtherStatus
<1> QED
  BY <1>2, <1>3 DEF Heartbeat

-------------------------------------------------------------------------------
(* What the panel and the machines keep.                                   *)
LEMMA InitMachines == Init => MachineTypes
<1>1. /\ NoEnroll.pc = "idle" /\ NoProcess \in ProcessRow /\ 0 \in 0..MaxFaults
  BY AccessAssumption DEF NoEnroll, NoProcess, ProcessRow
<1> QED
  BY <1>1, AccessAssumption DEF Init, MachineTypes

LEMMA FaultBound == Fault /\ faults \in 0..MaxFaults => faults' \in 0..MaxFaults
BY AccessAssumption DEF Fault

LEMMA PanelMachines == CInv /\ MachineTypes /\ PanelNext => MachineTypes'
<1> SUFFICES ASSUME CInv, MachineTypes, PanelNext PROVE MachineTypes'
  OBVIOUS
<1>1. ASSUME NEW a \in Agents, CreateAgent(a) \/ BeginIssue(a) PROVE MachineTypes'
  <2>1. issuing' \in [Agents -> 0..MaxCodes]
    BY <1>1, AccessAssumption DEF CreateAgent, BeginIssue, panelVars, MachineTypes
  <2> QED
    BY <1>1, <2>1 DEF CreateAgent, BeginIssue, serverVars, panelVars, machineVars, MachineTypes
<1>2. ASSUME NEW a \in Agents, IssueCode(a) PROVE MachineTypes'
  <2>1. issuing' \in [Agents -> 0..MaxCodes]
    BY <1>2, AccessAssumption DEF IssueCode, MachineTypes
  <2> QED
    BY <1>2, <2>1, FaultBound DEF IssueCode, machineVars, MachineTypes
<1>3. ASSUME NEW e \in Editors, UpdateAgent(e) \/ \E a \in Agents, b \in BOOLEAN : ReadAgent(e, a, b)
      PROVE MachineTypes'
  BY <1>3 DEF UpdateAgent, ReadAgent, serverVars, machineVars, MachineTypes
<1>4. ASSUME NEW a \in Agents, NEW m \in Machines, CreateCredential(a, m) PROVE MachineTypes'
  <2>1. \E t \in Tokens : environment' = [environment EXCEPT ![m] = t]
    BY <1>4 DEF CreateCredential, IsNext, UnusedTokens
  <2>2. UNCHANGED <<usable, issuing, enroll, disk, process, admitted>> /\ Fault
    BY <1>4 DEF CreateCredential, panelVars
  <2>3. faults' \in 0..MaxFaults
    BY <2>2, FaultBound DEF MachineTypes
  <2> QED
    BY <2>1, <2>2, <2>3 DEF MachineTypes
<1>5. ASSUME NEW t \in Tokens, RevokeCredential(t) PROVE MachineTypes'
  BY <1>5, FaultBound DEF RevokeCredential, panelVars, machineVars, MachineTypes
<1>6. ASSUME NEW c \in Codes, ExpireCode(c) PROVE MachineTypes'
  BY <1>6, FaultBound DEF ExpireCode, panelVars, machineVars, MachineTypes
<1>7. CASE Deactivate \/ Activate
  BY <1>7, FaultBound DEF Deactivate, Activate, panelVars, machineVars, MachineTypes
<1> QED
  BY <1>1, <1>2, <1>3, <1>4, <1>5, <1>6, <1>7 DEF PanelNext

LEMMA RequestMachines ==
  ASSUME CInv, MachineTypes, NEW r \in Requests,
         \/ \E m \in Machines, c \in Codes : SendEnroll(r, m, c)
         \/ ReadEnrollment(r) \/ ConsumeCode(r) \/ SaveCredential(r) \/ GiveUp(r)
  PROVE  MachineTypes'
<1> DEFINE Good(row) == /\ row.pc # "idle" => row.machine \in Machines
                        /\ row.pc = "answered" => row.token \in Tokens
<1>1. enroll[r] \in EnrollRow /\ Good(enroll[r]) /\ Good(NoEnroll)
  BY DEF CInv, RowTypes, MachineTypes, NoEnroll
<1>2. faults' \in 0..MaxFaults
  BY FaultBound DEF SendEnroll, ReadEnrollment, ConsumeCode, SaveCredential, GiveUp, MachineTypes
<1>3. disk' \in [Machines -> Tokens \cup {NoToken, Damaged}]
  <2>1. CASE SaveCredential(r)
    <3>1. enroll[r].token \in Tokens
      BY <2>1 DEF SaveCredential, MachineTypes
    <3> QED
      BY <2>1, <3>1 DEF SaveCredential, MachineTypes
  <2>2. CASE disk' = disk
    BY <2>2 DEF MachineTypes
  <2> QED
    BY <2>1, <2>2 DEF SendEnroll, ReadEnrollment, ConsumeCode, GiveUp, machineVars
<1>4. UNCHANGED <<usable, issuing, environment, process, admitted>>
  BY DEF SendEnroll, ReadEnrollment, ConsumeCode, SaveCredential, GiveUp,
         serverVars, panelVars, machineVars
<1> DEFINE Written == \E row : enroll' = [enroll EXCEPT ![r] = row] /\ Good(row)
<1>5. Written
  <2>1. ASSUME NEW m \in Machines, NEW c \in Codes, SendEnroll(r, m, c) PROVE Written
    <3> DEFINE row == [pc |-> "sent", machine |-> m, code |-> c,
                       fresh |-> ~code[c].expired, token |-> NoToken, waiting |-> TRUE]
    <3>1. Good(row) /\ enroll' = [enroll EXCEPT ![r] = row]
      BY <2>1 DEF SendEnroll
    <3> QED
      BY <3>1
  <2>2. CASE ReadEnrollment(r)
    <3>1. Good([enroll[r] EXCEPT !.pc = "found"])
      BY <1>1, <2>2 DEF ReadEnrollment, EnrollRow
    <3> QED
      BY <1>1, <2>2, <3>1 DEF ReadEnrollment
  <2>3. CASE ConsumeCode(r)
    <3>1. ASSUME NEW t \in Tokens
          PROVE Good([enroll[r] EXCEPT !.pc = "answered", !.token = t])
      BY <1>1, <2>3 DEF ConsumeCode, EnrollRow
    <3>2. \/ enroll' = [enroll EXCEPT ![r] = NoEnroll]
          \/ \E t \in Tokens : enroll' = [enroll EXCEPT ![r] =
                [enroll[r] EXCEPT !.pc = "answered", !.token = t]]
      BY <2>3 DEF ConsumeCode, IsNext, UnusedTokens
    <3> HIDE DEF Good
    <3> QED
      BY <1>1, <3>1, <3>2
  <2>4. CASE SaveCredential(r)
    BY <1>1, <2>4 DEF SaveCredential
  <2>5. CASE GiveUp(r)
    <3>1. enroll' = [enroll EXCEPT ![r] = [enroll[r] EXCEPT !.waiting = FALSE]]
      BY <2>5 DEF GiveUp
    <3>2. Good([enroll[r] EXCEPT !.waiting = FALSE])
      BY <1>1 DEF EnrollRow
    <3> QED
      BY <3>1, <3>2
  <2> QED
    BY <2>1, <2>2, <2>3, <2>4, <2>5
<1>6. \A s \in Requests : Good(enroll'[s])
  BY <1>5 DEF CInv, RowTypes, MachineTypes
<1> QED
  BY <1>2, <1>3, <1>4, <1>6 DEF MachineTypes

LEMMA ProcessMachines ==
  ASSUME MachineTypes, NEW m \in Machines,
         \/ StartAgent(m) \/ Crash(m) \/ RestartAfterEnrollment(m)
         \/ GetConfig(m) \/ RetryStartup(m) \/ GuardHeartbeat(m)
         \/ \E t \in Tokens : Heartbeat(m, t)
  PROVE  MachineTypes'
<1>1. UNCHANGED <<usable, issuing, enroll, disk, environment>>
  BY DEF StartAgent, Crash, RestartAfterEnrollment, StopAgent, GetConfig, RetryStartup,
         GuardHeartbeat, Heartbeat, serverVars, panelVars
<1>2. faults' \in 0..MaxFaults
  BY FaultBound DEF StartAgent, Crash, RestartAfterEnrollment, GetConfig, RetryStartup,
         GuardHeartbeat, Heartbeat, MachineTypes
<1>3. process[m] \in ProcessRow /\ NoProcess \in ProcessRow
  BY DEF MachineTypes, NoProcess, ProcessRow
<1>4. admitted' \subseteq (Machines \X Tokens)
  <2>1. CASE GuardHeartbeat(m)
    BY <2>1 DEF GuardHeartbeat, TokenAccepted, MachineTypes
  <2>2. CASE admitted' \subseteq admitted
    BY <2>2 DEF MachineTypes
  <2> QED
    BY <2>1, <2>2 DEF StartAgent, Crash, RestartAfterEnrollment, StopAgent, GetConfig,
         RetryStartup, Heartbeat
<1>5. process' \in [Machines -> ProcessRow]
  <2>1. CASE StartAgent(m)
    <3>1. LoadedToken(m) \in Tokens
      BY <2>1 DEF StartAgent, LoadedToken, MachineTypes
    <3>2. [pc |-> "configuring", token |-> LoadedToken(m)] \in ProcessRow
      BY <3>1 DEF ProcessRow
    <3> QED
      BY <2>1, <3>2 DEF StartAgent, MachineTypes
  <2>2. CASE StopAgent(m)
    BY <2>2, <1>3 DEF StopAgent, MachineTypes
  <2>3. CASE GetConfig(m)
    <3>1. [process[m] EXCEPT !.pc = "greeting"] \in ProcessRow
      BY <1>3 DEF ProcessRow
    <3> QED
      BY <1>3, <2>3, <3>1 DEF GetConfig, MachineTypes
  <2>4. CASE RetryStartup(m)
    <3>1. process' = [process EXCEPT ![m] = [process[m] EXCEPT !.pc = "configuring"]]
      BY <2>4 DEF RetryStartup
    <3>2. [process[m] EXCEPT !.pc = "configuring"] \in ProcessRow
      BY <1>3 DEF ProcessRow
    <3> QED
      BY <3>1, <3>2 DEF MachineTypes
  <2>5. CASE GuardHeartbeat(m)
    BY <1>3, <2>5 DEF GuardHeartbeat, MachineTypes
  <2>6. ASSUME NEW t \in Tokens, Heartbeat(m, t)
        PROVE process' \in [Machines -> ProcessRow]
    <3>1. \E l \in {"down", "configuring", "greeting", "running"} :
            process' = [process EXCEPT ![m] = [process[m] EXCEPT !.pc = l]]
      BY <1>3, <2>6 DEF Heartbeat, ProcessRow
    <3>2. \A l \in {"down", "configuring", "greeting", "running"} :
            [process[m] EXCEPT !.pc = l] \in ProcessRow
      BY <1>3 DEF ProcessRow
    <3> QED
      BY <3>1, <3>2 DEF MachineTypes
  <2> QED
    BY <2>1, <2>2, <2>3, <2>4, <2>5, <2>6 DEF Crash, RestartAfterEnrollment
<1> QED
  BY <1>1, <1>2, <1>4, <1>5 DEF MachineTypes

-------------------------------------------------------------------------------
AInv == CInv /\ StatusInv /\ MachineTypes

LEMMA NextStatus == AInv /\ [Next]_vars => StatusInv'
<1> SUFFICES ASSUME AInv, [Next]_vars PROVE StatusInv'
  OBVIOUS
<1>q. ASSUME UNCHANGED <<agent, edit>> PROVE StatusInv'
  BY <1>q DEF AInv, StatusInv, EnabledIsNotLockedOut
<1>1. CASE PanelNext
  <2>1. ASSUME NEW a \in Agents, BeginIssue(a) \/ IssueCode(a)
               \/ \E m \in Machines : CreateCredential(a, m)
        PROVE StatusInv'
    BY <2>1, <1>q DEF BeginIssue, IssueCode, CreateCredential, serverVars, panelVars
  <2>2. CASE \/ \E t \in Tokens : RevokeCredential(t)
             \/ \E c \in Codes : ExpireCode(c)
             \/ Deactivate \/ Activate
    BY <2>2, <1>q DEF RevokeCredential, ExpireCode, Deactivate, Activate, panelVars
  <2> QED
    BY <1>1, <2>1, <2>2, CreateAgentStatus, ReadAgentStatus, UpdateAgentStatus DEF PanelNext, AInv
<1>2. CASE MachineNext
  <2>1. ASSUME NEW r \in Requests,
               \/ \E m \in Machines, c \in Codes : SendEnroll(r, m, c)
               \/ ReadEnrollment(r) \/ SaveCredential(r) \/ GiveUp(r)
        PROVE StatusInv'
    BY <2>1, <1>q DEF SendEnroll, ReadEnrollment, SaveCredential, GiveUp, serverVars, panelVars
  <2>2. ASSUME NEW m \in Machines,
               \/ StartAgent(m) \/ Crash(m) \/ RestartAfterEnrollment(m)
               \/ GetConfig(m) \/ RetryStartup(m) \/ GuardHeartbeat(m)
        PROVE StatusInv'
    BY <2>2, <1>q DEF StartAgent, Crash, RestartAfterEnrollment, StopAgent, GetConfig,
         RetryStartup, GuardHeartbeat, serverVars, panelVars
  <2> QED
    BY <1>2, <2>1, <2>2, ConsumeStatus, HeartbeatStatus DEF MachineNext, AInv
<1>3. CASE UNCHANGED vars
  BY <1>3, <1>q DEF vars, serverVars, panelVars
<1> QED
  BY <1>1, <1>2, <1>3 DEF Next

LEMMA NextMachines == AInv /\ [Next]_vars => MachineTypes'
<1> SUFFICES ASSUME AInv, [Next]_vars PROVE MachineTypes'
  OBVIOUS
<1>1. CASE MachineNext
  BY <1>1, RequestMachines, ProcessMachines DEF MachineNext, AInv
<1>2. CASE UNCHANGED vars
  BY <1>2 DEF vars, serverVars, panelVars, machineVars, AInv, MachineTypes
<1> QED
  BY <1>1, <1>2, PanelMachines DEF Next, AInv

LEMMA AlwaysAInv == Spec => []AInv
<1>1. Init => AInv
  BY InitCInv, InitStatus, InitMachines DEF AInv
<1>2. AInv /\ [Next]_vars => AInv'
  BY NextCInv, NextStatus, NextMachines DEF AInv
<1> QED
  BY <1>1, <1>2, PTL DEF Spec

(* Every variable keeps its type.                                          *)
THEOREM TypeCorrect == Spec => []TypeOK
<1>1. AInv => TypeOK
  BY DEF AInv, CInv, RowTypes, StatusInv, MachineTypes, TypeOK, CodeRow, CredentialRow,
         EnrollRow, AgentRow, EditRow, ProcessRow, Statuses
<1> QED
  BY <1>1, AlwaysAInv, PTL

(* No interleaving of updates, heartbeats and enrollments leaves an        *)
(* enabled agent locked out by its status.                                 *)
THEOREM EnabledAgentsMayCall == Spec => []EnabledIsNotLockedOut
<1>1. AInv => EnabledIsNotLockedOut
  BY DEF AInv, StatusInv
<1> QED
  BY <1>1, AlwaysAInv, PTL

-------------------------------------------------------------------------------
(* Enrollment implements AgentLinks.  The mapping chooses an agent's open  *)
(* code, its link and what a code bought; each choice is the only one, by  *)
(* OneOpenCode, OneLinkedMachine and CodeUsedOnce (LinksKnown).  That a    *)
(* token not issued yet belongs to no code follows from BoughtForOwner.    *)

(* A credential speaks for the agent its code was issued for.              *)
BoughtForOwner ==
    \A t \in Tokens : credential[t].from # 0 =>
        credential[t].agent = code[credential[t].from].agent

LInv == CInv /\ BoughtForOwner

LinksKnown ==
    /\ \A a \in Agents :
          /\ \A c \in Codes : code[c].open /\ code[c].agent = a => OpenCode[a] = c
          /\ OpenCode[a] # 0 =>
                OpenCode[a] \in Codes /\ code[OpenCode[a]].open /\ code[OpenCode[a]].agent = a
          /\ \A t \in Tokens : IsLink(t) /\ credential[t].agent = a => LinkOf[a] = t
          /\ LinkOf[a] # 0 =>
                LinkOf[a] \in Tokens /\ IsLink(LinkOf[a]) /\ credential[LinkOf[a]].agent = a
    /\ \A c \in Codes :
          /\ \A t \in Tokens : credential[t].from = c => BoughtWith[c] = t
          /\ BoughtWith[c] # 0 => BoughtWith[c] \in Tokens /\ credential[BoughtWith[c]].from = c

LEMMA Numbers == /\ 0 \notin Codes /\ 0 \notin Tokens /\ NoToken = 0
                 /\ NoAgent \notin Agents
BY AccessAssumption DEF Codes, Tokens, NoToken

LEMMA KnownLinks == CInv => LinksKnown
<1> SUFFICES ASSUME CInv PROVE LinksKnown
  OBVIOUS
<1>1. ASSUME NEW a \in Agents
      PROVE /\ \A c \in Codes : code[c].open /\ code[c].agent = a => OpenCode[a] = c
            /\ OpenCode[a] # 0 =>
                 OpenCode[a] \in Codes /\ code[OpenCode[a]].open /\ code[OpenCode[a]].agent = a
  <2> DEFINE P(c) == code[c].open /\ code[c].agent = a
             chosen == CHOOSE c \in Codes : P(c)
  <2>1. CASE \E c \in Codes : P(c)
    <3>1. OpenCode[a] = chosen
      BY <2>1 DEF OpenCode
    <3>2. chosen \in Codes /\ P(chosen)
      BY <2>1
    <3>3. \A c \in Codes : P(c) => c = chosen
      BY <3>2 DEF CInv, OneOpenCode
    <3> QED
      BY <3>1, <3>2, <3>3
  <2>2. CASE ~\E c \in Codes : P(c)
    BY <2>2 DEF OpenCode
  <2> QED
    BY <2>1, <2>2
<1>2. ASSUME NEW a \in Agents
      PROVE /\ \A t \in Tokens : IsLink(t) /\ credential[t].agent = a => LinkOf[a] = t
            /\ LinkOf[a] # 0 =>
                 LinkOf[a] \in Tokens /\ IsLink(LinkOf[a]) /\ credential[LinkOf[a]].agent = a
  <2> DEFINE P(t) == IsLink(t) /\ credential[t].agent = a
             chosen == CHOOSE t \in Tokens : P(t)
  <2>1. CASE \E t \in Tokens : P(t)
    <3>1. LinkOf[a] = chosen
      BY <2>1 DEF LinkOf
    <3>2. chosen \in Tokens /\ P(chosen)
      BY <2>1
    <3>3. \A t \in Tokens : P(t) => t = chosen
      BY <3>2 DEF CInv, OneLinkedMachine, IsLink
    <3> QED
      BY <3>1, <3>2, <3>3
  <2>2. CASE ~\E t \in Tokens : P(t)
    BY <2>2, Numbers DEF LinkOf
  <2> QED
    BY <2>1, <2>2
<1>3. ASSUME NEW c \in Codes
      PROVE /\ \A t \in Tokens : credential[t].from = c => BoughtWith[c] = t
            /\ BoughtWith[c] # 0 => BoughtWith[c] \in Tokens /\ credential[BoughtWith[c]].from = c
  <2> DEFINE chosen == CHOOSE t \in Tokens : credential[t].from = c
  <2>1. CASE \E t \in Tokens : credential[t].from = c
    <3>1. BoughtWith[c] = chosen
      BY <2>1 DEF BoughtWith
    <3>2. chosen \in Tokens /\ credential[chosen].from = c
      BY <2>1
    <3>3. \A t \in Tokens : credential[t].from = c => t = chosen
      BY <3>2, Numbers DEF CInv, CodeUsedOnce
    <3> QED
      BY <3>1, <3>2, <3>3
  <2>2. CASE ~\E t \in Tokens : credential[t].from = c
    BY <2>2, Numbers DEF BoughtWith
  <2> QED
    BY <2>1, <2>2
<1> QED
  BY <1>1, <1>2, <1>3 DEF LinksKnown

(* What decides the mapping of an agent.                                   *)
LEMMA OpenStays ==
  ASSUME LinksKnown, LinksKnown', NEW b \in Agents,
         \A c \in Codes : code'[c].open /\ code'[c].agent = b
                          <=> code[c].open /\ code[c].agent = b
  PROVE  OpenCode'[b] = OpenCode[b]
<1>1. CASE OpenCode[b] # 0
  BY <1>1 DEF LinksKnown
<1>2. CASE OpenCode[b] = 0
  <2>1. CASE OpenCode'[b] # 0
    BY <1>2, <2>1, Numbers DEF LinksKnown
  <2> QED
    BY <1>2, <2>1
<1> QED
  BY <1>1, <1>2

LEMMA LinkStays ==
  ASSUME LinksKnown, LinksKnown', NEW b \in Agents,
         \A t \in Tokens : IsLink(t)' /\ credential'[t].agent = b
                           <=> IsLink(t) /\ credential[t].agent = b
  PROVE  LinkOf'[b] = LinkOf[b]
<1>1. CASE LinkOf[b] # 0
  BY <1>1 DEF LinksKnown
<1>2. CASE LinkOf[b] = 0
  <2>1. CASE LinkOf'[b] # 0
    BY <1>2, <2>1, Numbers DEF LinksKnown
  <2> QED
    BY <1>2, <2>1
<1> QED
  BY <1>1, <1>2

(* Steps that leave codes and credentials alone are not seen.              *)
LEMMA LinksStutter ==
  ASSUME UNCHANGED <<code, credential>> PROVE UNCHANGED Links!vars
BY DEF Links!vars, UnusedCodes, OpenCode, LinkOf, BoughtWith, IsLink

LEMMA InitLinks == Init => Links!Init
<1> SUFFICES ASSUME Init PROVE Links!Init
  OBVIOUS
<1>1. /\ \A c \in Codes : ~code[c].open /\ code[c].agent = NoAgent
      /\ \A t \in Tokens : credential[t].from = 0
  BY DEF Init, NoCode, NoCredential
<1>2. Codes \ UnusedCodes = {}
  BY <1>1 DEF UnusedCodes
<1>3. OpenCode = [a \in Agents |-> 0] /\ LinkOf = [a \in Agents |-> 0]
  BY <1>1, Numbers DEF OpenCode, LinkOf, IsLink
<1>4. BoughtWith = [c \in Codes |-> 0]
  BY <1>1, Numbers DEF BoughtWith
<1> QED
  BY <1>2, <1>3, <1>4 DEF Links!Init

-------------------------------------------------------------------------------
(* What the issue of a code does to the rows of codes.                     *)
LEMMA IssuedRows ==
  ASSUME CInv, NEW a \in Agents, IssueCode(a)
  PROVE  \E c \in Codes :
           /\ code[c].agent = NoAgent /\ ~code[c].open
           /\ code'[c].agent = a /\ code'[c].open
           /\ \A d \in Codes \ {c} :
                /\ code'[d].agent = code[d].agent
                /\ code[d].agent # a => code'[d] = code[d]
<1>1. PICK c \in Codes :
        /\ code[c].agent = NoAgent
        /\ code' = [d \in Codes |->
              IF d = c THEN [agent |-> a, open |-> TRUE, expired |-> FALSE]
              ELSE IF code[d].agent = a THEN [code[d] EXCEPT !.open = FALSE]
              ELSE code[d]]
  BY DEF IssueCode, IsNext, UnusedCodes
<1>2. ~code[c].open
  BY <1>1 DEF CInv, OpenAreIssued
<1>3. code'[c].agent = a /\ code'[c].open
  BY <1>1
<1>4. ASSUME NEW d \in Codes \ {c}
      PROVE /\ code'[d].agent = code[d].agent
            /\ code[d].agent # a => code'[d] = code[d]
  <2>1. code[d] \in CodeRow
    BY DEF CInv, RowTypes
  <2> QED
    BY <1>1, <2>1 DEF CodeRow
<1> QED
  BY <1>1, <1>2, <1>3, <1>4

(* What an enrollment that is accepted does to codes and credentials.      *)
Exchanged(c, t, a) ==
    /\ code[c].open /\ code[c].agent = a
    /\ credential[t].agent = NoAgent /\ credential[t].from = 0
    /\ ~code'[c].open
    /\ \A d \in Codes : code'[d].agent = code[d].agent
    /\ \A d \in Codes \ {c} : code'[d] = code[d]
    /\ credential'[t] = [agent |-> a, revoked |-> FALSE, from |-> c]
    /\ \A u \in Tokens \ {t} :
         /\ credential'[u].agent = credential[u].agent
         /\ credential'[u].from = credential[u].from
         /\ credential[u].agent # a => credential'[u] = credential[u]

LEMMA ExchangedRows ==
  ASSUME LInv, NEW r \in Requests, ConsumeCode(r), ~UNCHANGED <<code, credential>>
  PROVE  \E c \in Codes, t \in Tokens, a \in Agents : Exchanged(c, t, a)
<1> DEFINE c == enroll[r].code  a == code[c].agent
<1>1. PICK t \in Tokens :
        /\ credential[t].agent = NoAgent
        /\ code[c].open
        /\ credential' = Reissued(a, t, c)
        /\ code' = [code EXCEPT ![c].open = FALSE]
  BY DEF ConsumeCode, StillOpen, IsNext, UnusedTokens
<1>2. c \in Codes /\ code[c] \in CodeRow
  BY DEF LInv, CInv, RowTypes, ConsumeCode
<1>3. a \in Agents
  BY <1>1, <1>2 DEF LInv, CInv, OpenAreIssued, CodeRow
<1>4. credential[t].from = 0
  <2>1. credential[t].from \in Codes \cup {0}
    BY DEF LInv, CInv, RowTypes, CredentialRow
  <2> QED
    BY <1>1, <2>1 DEF LInv, CInv, UsedAreClosed, BoughtForOwner
<1>5. /\ ~code'[c].open
      /\ \A d \in Codes : code'[d].agent = code[d].agent
      /\ \A d \in Codes \ {c} : code'[d] = code[d]
  BY <1>1, <1>2 DEF LInv, CInv, RowTypes, CodeRow
<1>6. /\ credential'[t] = [agent |-> a, revoked |-> FALSE, from |-> c]
      /\ \A u \in Tokens \ {t} :
            /\ credential'[u].agent = credential[u].agent
            /\ credential'[u].from = credential[u].from
  BY <1>1, <1>2, <1>3, ReissuedRows DEF LInv, CInv
<1>7. \A u \in Tokens \ {t} : credential[u].agent # a => credential'[u] = credential[u]
  BY <1>1 DEF Reissued
<1>8. Exchanged(c, t, a)
  BY <1>1, <1>4, <1>5, <1>6, <1>7 DEF Exchanged
<1> QED
  BY <1>2, <1>3, <1>8

(* A credential keeps the agent and the code it was issued with.           *)
LEMMA OwnersStay ==
  ASSUME LInv, CInv',
         \A c \in Codes : code[c].agent # NoAgent => code'[c].agent = code[c].agent,
         \A t \in Tokens :
            \/ credential'[t].from = 0
            \/ /\ credential'[t].from = credential[t].from
               /\ credential'[t].agent = credential[t].agent
            \/ credential'[t].agent = code'[credential'[t].from].agent
  PROVE  BoughtForOwner'
<1> SUFFICES ASSUME NEW t \in Tokens, credential'[t].from # 0
             PROVE  credential'[t].agent = code'[credential'[t].from].agent
  BY DEF BoughtForOwner
<1>1. CASE /\ credential'[t].from = credential[t].from
           /\ credential'[t].agent = credential[t].agent
  <2>1. credential[t].from \in Codes
    BY <1>1 DEF LInv, CInv, RowTypes, CredentialRow
  <2>2. /\ credential[t].agent = code[credential[t].from].agent
        /\ code[credential[t].from].agent # NoAgent
    BY <1>1 DEF LInv, CInv, BoughtForOwner, UsedAreClosed
  <2> QED
    BY <1>1, <2>1, <2>2
<1> QED
  BY <1>1

(* The steps that touch codes or credentials.                              *)
LEMMA CodeAndCredentialSteps ==
  ASSUME [Next]_vars
  PROVE  \/ UNCHANGED <<code, credential>>
         \/ \E a \in Agents : IssueCode(a)
         \/ \E c \in Codes : ExpireCode(c)
         \/ \E a \in Agents, m \in Machines : CreateCredential(a, m)
         \/ \E t \in Tokens : RevokeCredential(t)
         \/ \E r \in Requests : ConsumeCode(r)
<1>1. CASE PanelNext
  BY <1>1 DEF PanelNext, CreateAgent, BeginIssue, ReadAgent, UpdateAgent, Deactivate, Activate,
     serverVars
<1>2. CASE MachineNext
  BY <1>2 DEF MachineNext, SendEnroll, ReadEnrollment, SaveCredential, GiveUp, StartAgent,
     Crash, RestartAfterEnrollment, StopAgent, GetConfig, RetryStartup, GuardHeartbeat,
     Heartbeat, serverVars
<1> QED
  BY <1>1, <1>2 DEF Next, vars, serverVars

LEMMA NextOwners == LInv /\ [Next]_vars => LInv'
<1> SUFFICES ASSUME LInv, [Next]_vars PROVE BoughtForOwner'
  BY NextCInv DEF LInv
<1>0. CInv'
  BY NextCInv DEF LInv
<1>1. CASE UNCHANGED <<code, credential>>
  BY <1>1 DEF LInv, BoughtForOwner
<1>2. ASSUME NEW a \in Agents, IssueCode(a) PROVE BoughtForOwner'
  <2>1. \A c \in Codes : code[c].agent # NoAgent => code'[c].agent = code[c].agent
    BY <1>2, IssuedRows DEF LInv
  <2>2. credential' = credential
    BY <1>2 DEF IssueCode
  <2> QED
    BY <1>0, <2>1, <2>2, OwnersStay
<1>3. ASSUME NEW c \in Codes, ExpireCode(c) PROVE BoughtForOwner'
  <2>1. code' = [code EXCEPT ![c].expired = TRUE] /\ credential' = credential
    BY <1>3 DEF ExpireCode
  <2>2. \A d \in Codes : code'[d].agent = code[d].agent
    BY <2>1 DEF LInv, CInv, RowTypes, CodeRow
  <2> QED
    BY <1>0, <2>1, <2>2, OwnersStay
<1>4. ASSUME NEW a \in Agents, NEW m \in Machines, CreateCredential(a, m) PROVE BoughtForOwner'
  <2>1. PICK t \in Tokens :
          credential' = [credential EXCEPT ![t] = [agent |-> a, revoked |-> FALSE, from |-> 0]]
    BY <1>4 DEF CreateCredential, IsNext, UnusedTokens
  <2>2. credential'[t].from = 0 /\ \A u \in Tokens \ {t} : credential'[u] = credential[u]
    BY <2>1 DEF LInv, CInv, RowTypes
  <2>3. code' = code
    BY <1>4 DEF CreateCredential
  <2> QED
    BY <1>0, <2>2, <2>3, OwnersStay
<1>5. ASSUME NEW t \in Tokens, RevokeCredential(t) PROVE BoughtForOwner'
  <2>1. credential' = [credential EXCEPT ![t].revoked = TRUE] /\ code' = code
    BY <1>5 DEF RevokeCredential
  <2>2. \A u \in Tokens : /\ credential'[u].from = credential[u].from
                          /\ credential'[u].agent = credential[u].agent
    BY <2>1 DEF LInv, CInv, RowTypes, CredentialRow
  <2> QED
    BY <1>0, <2>1, <2>2, OwnersStay
<1>6. ASSUME NEW r \in Requests, ConsumeCode(r), ~UNCHANGED <<code, credential>>
      PROVE  BoughtForOwner'
  <2>1. PICK c \in Codes, t \in Tokens, a \in Agents : Exchanged(c, t, a)
    BY <1>6, ExchangedRows
  <2> QED
    BY <1>0, <2>1, OwnersStay DEF Exchanged
<1> QED
  BY <1>1, <1>2, <1>3, <1>4, <1>5, <1>6, CodeAndCredentialSteps

-------------------------------------------------------------------------------
(* The steps of enrollment, one by one.                                    *)
LEMMA IssueMapped ==
  ASSUME LInv, LinksKnown, LinksKnown', NEW a \in Agents, IssueCode(a)
  PROVE  Links!Issue(a)
<1>1. PICK c \in Codes :
        /\ code[c].agent = NoAgent /\ ~code[c].open
        /\ code'[c].agent = a /\ code'[c].open
        /\ \A d \in Codes \ {c} :
             /\ code'[d].agent = code[d].agent
             /\ code[d].agent # a => code'[d] = code[d]
  BY IssuedRows DEF LInv
<1>2. credential' = credential
  BY DEF IssueCode
<1>3. c \in UnusedCodes /\ Codes \ UnusedCodes' = (Codes \ UnusedCodes) \cup {c}
  BY <1>1, Numbers DEF UnusedCodes
<1>4. ASSUME NEW b \in Agents PROVE OpenCode'[b] = IF b = a THEN c ELSE OpenCode[b]
  <2>1. CASE b = a
    BY <1>1, <2>1 DEF LinksKnown
  <2>2. CASE b # a
    <3>1. \A d \in Codes : code'[d].open /\ code'[d].agent = b
                           <=> code[d].open /\ code[d].agent = b
      BY <1>1, <2>2, Numbers
    <3> QED
      BY <2>2, <3>1, OpenStays
  <2> QED
    BY <2>1, <2>2
<1>5. OpenCode' = [OpenCode EXCEPT ![a] = c]
  BY <1>4 DEF OpenCode
<1>6. LinkOf' = LinkOf /\ BoughtWith' = BoughtWith
  BY <1>2 DEF LinkOf, IsLink, BoughtWith
<1> QED
  BY <1>3, <1>5, <1>6 DEF Links!Issue

LEMMA ExchangeMapped ==
  ASSUME LInv, LinksKnown, LinksKnown', NEW r \in Requests, ConsumeCode(r),
         ~UNCHANGED <<code, credential>>
  PROVE  \E a \in Agents : Links!Exchange(a)
<1>1. PICK c \in Codes, t \in Tokens, a \in Agents : Exchanged(c, t, a)
  BY ExchangedRows
<1> USE DEF Exchanged
<1>2. OpenCode[a] = c /\ c # 0
  BY <1>1, Numbers DEF LinksKnown
<1>3. \A d \in Codes : BoughtWith[d] # t
  BY <1>1, Numbers DEF LinksKnown
<1>4. \A u \in Tokens : credential[u].from # c
  BY <1>1, Numbers DEF LInv, CInv, UsedAreClosed
<1>5. BoughtWith[c] = 0
  BY <1>4 DEF LinksKnown
<1>6. ASSUME NEW d \in Codes PROVE BoughtWith'[d] = IF d = c THEN t ELSE BoughtWith[d]
  <2>1. CASE d = c
    BY <1>1, <2>1 DEF LinksKnown
  <2>2. CASE d # c
    <3>1. \A u \in Tokens : credential'[u].from = d <=> credential[u].from = d
      BY <1>1, <2>2, Numbers
    <3> QED
      BY <2>2, <3>1 DEF LinksKnown
  <2> QED
    BY <2>1, <2>2
<1>7. ASSUME NEW b \in Agents PROVE LinkOf'[b] = IF b = a THEN t ELSE LinkOf[b]
  <2>1. CASE b = a
    <3>1. IsLink(t)' /\ credential'[t].agent = a
      BY <1>1, <1>2 DEF IsLink
    <3> QED
      BY <2>1, <3>1 DEF LinksKnown
  <2>2. CASE b # a
    <3>1. \A u \in Tokens : IsLink(u)' /\ credential'[u].agent = b
                            <=> IsLink(u) /\ credential[u].agent = b
      BY <1>1, <2>2, Numbers DEF IsLink
    <3> QED
      BY <2>2, <3>1, LinkStays
  <2> QED
    BY <2>1, <2>2
<1>8. ASSUME NEW b \in Agents PROVE OpenCode'[b] = IF b = a THEN 0 ELSE OpenCode[b]
  <2>1. CASE b = a
    <3>1. \A d \in Codes : ~(code'[d].open /\ code'[d].agent = a)
      BY <1>1 DEF LInv, CInv, OneOpenCode
    <3> QED
      BY <2>1, <3>1 DEF LinksKnown
  <2>2. CASE b # a
    <3>1. \A d \in Codes : code'[d].open /\ code'[d].agent = b
                           <=> code[d].open /\ code[d].agent = b
      BY <1>1, <2>2
    <3> QED
      BY <2>2, <3>1, OpenStays
  <2> QED
    BY <2>1, <2>2
<1>9. UnusedCodes' = UnusedCodes
  BY <1>1 DEF UnusedCodes
<1>10. /\ BoughtWith' = [BoughtWith EXCEPT ![OpenCode[a]] = t]
       /\ LinkOf' = [LinkOf EXCEPT ![a] = t]
       /\ OpenCode' = [OpenCode EXCEPT ![a] = 0]
  <2>1. BoughtWith' = [BoughtWith EXCEPT ![c] = t]
    BY <1>6 DEF BoughtWith
  <2>2. LinkOf' = [LinkOf EXCEPT ![a] = t]
    BY <1>7 DEF LinkOf
  <2>3. OpenCode' = [OpenCode EXCEPT ![a] = 0]
    BY <1>8 DEF OpenCode
  <2> QED
    BY <1>2, <2>1, <2>2, <2>3
<1> QED
  BY <1>2, <1>3, <1>5, <1>9, <1>10 DEF Links!Exchange

LEMMA RevokeMapped ==
  ASSUME LInv, LinksKnown, LinksKnown', NEW t \in Tokens, RevokeCredential(t)
  PROVE  (\E a \in Agents : Links!Unlink(a)) \/ UNCHANGED Links!vars
<1> DEFINE a == credential[t].agent
<1>1. /\ credential[t].agent # NoAgent /\ ~credential[t].revoked
      /\ credential' = [credential EXCEPT ![t].revoked = TRUE] /\ code' = code
  BY DEF RevokeCredential
<1>2. /\ \A u \in Tokens : /\ credential'[u].from = credential[u].from
                           /\ credential'[u].agent = credential[u].agent
      /\ \A u \in Tokens \ {t} : credential'[u] = credential[u]
      /\ credential'[t].revoked /\ a \in Agents
  BY <1>1 DEF LInv, CInv, RowTypes, CredentialRow
<1>3. UnusedCodes' = UnusedCodes /\ OpenCode' = OpenCode
  BY <1>1 DEF UnusedCodes, OpenCode
<1>4. BoughtWith' = BoughtWith
  BY <1>2 DEF BoughtWith
<1>5. CASE credential[t].from = 0
  <2>1. ASSUME NEW b \in Agents PROVE LinkOf'[b] = LinkOf[b]
    <3>1. \A u \in Tokens : IsLink(u)' /\ credential'[u].agent = b
                            <=> IsLink(u) /\ credential[u].agent = b
      BY <1>2, <1>5 DEF IsLink
    <3> QED
      BY <3>1, LinkStays
  <2>2. LinkOf' = LinkOf
    BY <2>1 DEF LinkOf
  <2> QED
    BY <1>3, <1>4, <2>2 DEF Links!vars
<1>6. CASE credential[t].from # 0
  <2>1. LinkOf[a] = t /\ t # 0
    BY <1>1, <1>2, <1>6, Numbers DEF LinksKnown, IsLink
  <2>2. ASSUME NEW b \in Agents PROVE LinkOf'[b] = IF b = a THEN 0 ELSE LinkOf[b]
    <3>1. CASE b = a
      <4>1. \A u \in Tokens : ~(IsLink(u)' /\ credential'[u].agent = a)
        <5>1. \A u \in Tokens \ {t} : ~(IsLink(u) /\ credential[u].agent = a)
          BY <1>2, <2>1 DEF LinksKnown
        <5> QED
          BY <1>2, <5>1 DEF IsLink
      <4> QED
        BY <3>1, <4>1 DEF LinksKnown
    <3>2. CASE b # a
      <4>1. \A u \in Tokens : IsLink(u)' /\ credential'[u].agent = b
                              <=> IsLink(u) /\ credential[u].agent = b
        BY <1>2, <3>2 DEF IsLink
      <4> QED
        BY <3>2, <4>1, LinkStays
    <3> QED
      BY <3>1, <3>2
  <2>3. LinkOf' = [LinkOf EXCEPT ![a] = 0]
    BY <2>2 DEF LinkOf
  <2>4. Links!Unlink(a)
    BY <1>3, <1>4, <2>1, <2>3 DEF Links!Unlink
  <2> QED
    BY <1>2, <2>4
<1> QED
  BY <1>5, <1>6

LEMMA UnseenMapped ==
  ASSUME LInv, LinksKnown, LinksKnown',
         \/ \E c \in Codes : ExpireCode(c)
         \/ \E a \in Agents, m \in Machines : CreateCredential(a, m)
  PROVE  UNCHANGED Links!vars
<1>1. ASSUME NEW c \in Codes, ExpireCode(c) PROVE UNCHANGED Links!vars
  <2>1. code' = [code EXCEPT ![c].expired = TRUE] /\ credential' = credential
    BY <1>1 DEF ExpireCode
  <2>2. \A d \in Codes : code'[d].agent = code[d].agent /\ code'[d].open = code[d].open
    BY <2>1 DEF LInv, CInv, RowTypes, CodeRow
  <2>3. OpenCode' = OpenCode /\ UnusedCodes' = UnusedCodes
    BY <2>2 DEF OpenCode, UnusedCodes
  <2>4. LinkOf' = LinkOf /\ BoughtWith' = BoughtWith
    BY <2>1 DEF LinkOf, IsLink, BoughtWith
  <2> QED
    BY <2>3, <2>4 DEF Links!vars
<1>2. ASSUME NEW a \in Agents, NEW m \in Machines, CreateCredential(a, m)
      PROVE  UNCHANGED Links!vars
  <2>1. PICK t \in Tokens :
          /\ credential[t].agent = NoAgent
          /\ credential' = [credential EXCEPT ![t] = [agent |-> a, revoked |-> FALSE, from |-> 0]]
    BY <1>2 DEF CreateCredential, IsNext, UnusedTokens
  <2>2. credential[t].from = 0
    <3>1. credential[t].from \in Codes \cup {0}
      BY DEF LInv, CInv, RowTypes, CredentialRow
    <3> QED
      BY <2>1, <3>1 DEF LInv, CInv, UsedAreClosed, BoughtForOwner
  <2>3. credential'[t].from = 0 /\ \A u \in Tokens \ {t} : credential'[u] = credential[u]
    BY <2>1 DEF LInv, CInv, RowTypes
  <2>4. code' = code
    BY <1>2 DEF CreateCredential
  <2>5. BoughtWith' = BoughtWith
    BY <2>2, <2>3 DEF BoughtWith
  <2>6. ASSUME NEW b \in Agents PROVE LinkOf'[b] = LinkOf[b]
    <3>1. \A u \in Tokens : IsLink(u)' /\ credential'[u].agent = b
                            <=> IsLink(u) /\ credential[u].agent = b
      BY <2>2, <2>3 DEF IsLink
    <3> QED
      BY <3>1, LinkStays
  <2>7. LinkOf' = LinkOf
    BY <2>6 DEF LinkOf
  <2>8. OpenCode' = OpenCode /\ UnusedCodes' = UnusedCodes
    BY <2>4 DEF OpenCode, UnusedCodes
  <2> QED
    BY <2>5, <2>7, <2>8 DEF Links!vars
<1> QED
  BY <1>1, <1>2

LEMMA NextLinks ==
    LInv /\ LinksKnown /\ LinksKnown' /\ [Next]_vars => [Links!Next]_(Links!vars)
<1> SUFFICES ASSUME LInv, LinksKnown, LinksKnown', [Next]_vars
             PROVE  Links!Next \/ UNCHANGED Links!vars
  OBVIOUS
<1>1. CASE UNCHANGED <<code, credential>>
  BY <1>1, LinksStutter
<1>2. ASSUME NEW a \in Agents, IssueCode(a) PROVE Links!Next
  BY <1>2, IssueMapped DEF Links!Next
<1>3. ASSUME NEW r \in Requests, ConsumeCode(r), ~UNCHANGED <<code, credential>>
      PROVE  Links!Next
  BY <1>3, ExchangeMapped DEF Links!Next
<1>4. ASSUME NEW t \in Tokens, RevokeCredential(t)
      PROVE  Links!Next \/ UNCHANGED Links!vars
  BY <1>4, RevokeMapped DEF Links!Next
<1> QED
  BY <1>1, <1>2, <1>3, <1>4, UnseenMapped, CodeAndCredentialSteps

(* A credential that an enrollment gave speaks for the agent its code was  *)
(* issued for, whatever happened to agent, code and machine since.         *)
THEOREM CredentialsMatchTheirCodes == Spec => []BoughtForOwner
<1>1. Init => LInv
  BY InitCInv DEF Init, NoCredential, LInv, BoughtForOwner
<1> QED
  BY <1>1, NextOwners, PTL DEF Spec, LInv

(* Enrollment implements the abstract exchange of codes for links: however *)
(* issues, enrollments and revocations of several administrators and       *)
(* machines interleave, the last code of an agent, and no other, turns     *)
(* once into a credential that is new and replaces the enrolled one.       *)
THEOREM EnrollmentImplementsLinks == Spec => ExchangesCodesForLinks
<1>1. Init => LInv
  BY InitCInv DEF Init, NoCredential, LInv, BoughtForOwner
<1>2. Spec => []LInv
  BY <1>1, NextOwners, PTL DEF Spec
<1>3. LInv => CInv
  BY DEF LInv
<1>4. Spec => []LinksKnown
  BY <1>2, <1>3, KnownLinks, PTL
<1>5. Spec => [][Links!Next]_(Links!vars)
  BY <1>2, <1>4, NextLinks, PTL DEF Spec
<1> QED
  BY <1>5, InitLinks, PTL DEF Spec, Links!Spec, ExchangesCodesForLinks
===============================================================================
