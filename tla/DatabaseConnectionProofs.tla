----------------------- MODULE DatabaseConnectionProofs -----------------------
(***************************************************************************)
(* The safety of the client replacement for any number of health checks,   *)
(* replacements and outages.  What makes the invariants inductive is the   *)
(* state of a replacement under way (OneReplacement), the bound that every *)
(* check keeps its right to ask for one replacement (RightsLeft), and, for *)
(* the cause of an answer "down", who remembers an outage (OutagesAreMet). *)
(***************************************************************************)
EXTENDS DatabaseConnection, FiniteSetTheorems, TLAPS

Pinging == {c \in Checks : check[c].pc = "ping"}

(* A check that still pings has not used its one replacement.              *)
RightsLeft == created + Cardinality(Pinging) <= started + 1

(* How the clients relate while a replacement is under way.                *)
OneReplacement ==
  /\ replacement.pc = "none" => open = {current}
  /\ replacement.pc # "none" =>
       replacement.previous \in 1..created /\ replacement.next \in 1..created
  /\ replacement.pc \in {"connect", "probe", "give up"} =>
       replacement.previous = current /\ replacement.next # current
  /\ replacement.pc = "connect" => open = {current}
  /\ replacement.pc = "probe" => open = {current, replacement.next}
  /\ replacement.pc = "give up" =>
       current \in open /\ open \subseteq {current, replacement.next}
  /\ replacement.pc = "close previous" =>
       /\ current = replacement.next /\ replacement.previous # current
       /\ open = {replacement.previous, current}

IInv == TypeOK /\ RightsLeft /\ OneReplacement

(* Who uses a client that an outage has hit remembers the outage.          *)
OutagesAreMet ==
  /\ replacement.pc = "connect" =>
       replacement.next \notin broken /\ (~ up => replacement.met)
  /\ replacement.pc \in {"probe", "close previous"} =>
       (~ up \/ replacement.next \in broken => replacement.met)
  /\ replacement.pc = "give up" => replacement.met
  /\ \A c \in Checks :
       check[c].pc = "ping again" =>
         (~ up \/ check[c].client \in broken => check[c].met)

-------------------------------------------------------------------------------
(* A set of checks gains or loses a member.                                *)
LEMMA PingingFinite == IsFiniteSet(Pinging) /\ Cardinality(Pinging) \in Nat
BY DatabaseAssumption, FS_Subset, FS_CardinalityType DEF Pinging

LEMMA InitIInv == Init => IInv
<1> SUFFICES ASSUME Init PROVE IInv
  OBVIOUS
<1>1. TypeOK
  BY DatabaseAssumption DEF Init, TypeOK, NotReplacing, Idle, Replacement, HealthCheck
<1>2. Pinging = {}
  BY DEF Init, Pinging, Idle
<1>3. RightsLeft
  BY <1>2, FS_EmptySet DEF RightsLeft, Init
<1>4. OneReplacement
  BY DEF Init, OneReplacement, NotReplacing
<1> QED
  BY <1>1, <1>3, <1>4 DEF IInv

(* A check or a replacement that goes on stays one.                        *)
LEMMA GoingOn ==
  /\ \A h \in HealthCheck, x \in {"ping", "wait", "ping again", "ok", "down"}, b \in BOOLEAN :
       /\ [h EXCEPT !.pc = x] \in HealthCheck
       /\ [h EXCEPT !.met = b] \in HealthCheck
  /\ \A r \in Replacement, b \in BOOLEAN, x \in {"probe", "give up", "close previous"} :
       /\ [r EXCEPT !.pc = x] \in Replacement
       /\ [r EXCEPT !.met = b] \in Replacement
BY DEF HealthCheck, Replacement

LEMMA ClientNumbers == TypeOK => current \in Nat /\ created \in Nat /\ started \in Nat
BY DatabaseAssumption DEF TypeOK

(* The next client is a new one.                                           *)
LEMMA FreshNumber ==
  TypeOK => /\ current \in 1..(created + 1) /\ created + 1 \in 1..(created + 1)
            /\ created + 1 # current /\ created + 1 \notin broken
<1> SUFFICES ASSUME TypeOK PROVE
      /\ current \in 1..(created + 1) /\ created + 1 \in 1..(created + 1)
      /\ created + 1 # current /\ created + 1 \notin broken
  OBVIOUS
<1>1. created \in Nat /\ created >= 1 /\ current \in 1..created /\ broken \subseteq 1..created
  BY ClientNumbers DEF TypeOK
<1> QED
  BY <1>1

(* The checks that waited for a replacement get its outcome.               *)
LEMMA SettlingType ==
  ASSUME TypeOK, NEW pc \in {"down", "ping again"}, ReplacementSettles(pc)
  PROVE  /\ replacement' \in Replacement /\ check' \in [Checks -> HealthCheck]
         /\ replacement' = NotReplacing
         /\ \A c \in Checks :
              IF check[c].pc = "wait"
              THEN check'[c] = [pc |-> pc, client |-> current,
                                met |-> check[c].met \/ replacement.met]
              ELSE check'[c] = check[c]
<1>1. replacement' = NotReplacing /\ NotReplacing \in Replacement
  BY DEF ReplacementSettles, NotReplacing, Replacement
<1>3. ASSUME NEW c \in Checks
      PROVE IF check[c].pc = "wait"
            THEN check'[c] = [pc |-> pc, client |-> current,
                              met |-> check[c].met \/ replacement.met]
            ELSE check'[c] = check[c]
  BY <1>3 DEF ReplacementSettles, Waiting, Ping
<1>4. ASSUME NEW c \in Checks PROVE check'[c] \in HealthCheck
  <2>1. current \in Nat
    BY ClientNumbers
  <2>2. [pc |-> pc, client |-> current, met |-> check[c].met \/ replacement.met]
          \in HealthCheck
    BY <2>1 DEF HealthCheck
  <2> QED
    BY <1>3, <2>2 DEF TypeOK
<1>5. check' = [c \in Checks |-> check'[c]]
  BY DEF ReplacementSettles
<1> QED
  BY <1>1, <1>3, <1>4, <1>5

(* Every step keeps the types: a new client takes the next number.         *)
LEMMA NextType == IInv /\ [Next]_vars => TypeOK'
<1> SUFFICES ASSUME IInv, [Next]_vars PROVE TypeOK'
  OBVIOUS
<1> USE DatabaseAssumption DEF database
<1>0. TypeOK /\ OneReplacement /\ RightsLeft
  BY DEF IInv
<1>1. CASE GoDown
  <2>1. replacement' \in Replacement
    BY <1>0, <1>1, GoingOn DEF GoDown, TypeOK
  <2>2. check' \in [Checks -> HealthCheck]
    <3>1. ASSUME NEW c \in Checks
          PROVE  (check[c].met \/ Pending(check[c])) \in BOOLEAN
      OBVIOUS
    <3> QED
      BY <1>0, <1>1, <3>1, GoingOn DEF GoDown, TypeOK
  <2>3. outages' \in 0..MaxOutages /\ broken' \subseteq 1..created
    BY <1>0, <1>1 DEF GoDown, TypeOK
  <2> QED
    BY <1>0, <1>1, <2>1, <2>2, <2>3 DEF GoDown, TypeOK
<1>2. CASE ComeBack
  BY <1>0, <1>2 DEF ComeBack, TypeOK
<1>3. CASE Connect
  <2>1. replacement' \in Replacement
    BY <1>0, <1>3, GoingOn DEF Connect, ReplacementGoes, TypeOK
  <2>2. open' \subseteq 1..created
    BY <1>0, <1>3 DEF Connect, TypeOK, OneReplacement
  <2> QED
    BY <1>0, <1>3, <2>1, <2>2 DEF Connect, TypeOK
<1>4. CASE ProbeAnswers
  <2>1. replacement' \in Replacement
    BY <1>0, <1>4, GoingOn DEF ProbeAnswers, ReplacementGoes, TypeOK
  <2>2. current' \in 1..created
    BY <1>0, <1>4 DEF ProbeAnswers, TypeOK, OneReplacement
  <2> QED
    BY <1>0, <1>4, <2>1, <2>2 DEF ProbeAnswers, TypeOK
<1>5. CASE ProbeThrows
  <2>1. replacement' \in Replacement
    BY <1>0, <1>5, GoingOn DEF ProbeThrows, ReplacementGoes, TypeOK
  <2> QED
    BY <1>0, <1>5, <2>1 DEF ProbeThrows, TypeOK
<1>6. CASE GiveUp
  BY <1>0, <1>6, SettlingType DEF GiveUp, TypeOK
<1>7. CASE ClosePrevious
  BY <1>0, <1>7, SettlingType DEF ClosePrevious, TypeOK
<1>8. ASSUME NEW c \in Checks, StartCheck(c) PROVE TypeOK'
  <2>1. (~ up) \in BOOLEAN /\ current \in Nat
    BY <1>0 DEF TypeOK
  <2>2. Ping("ping", ~ up) \in HealthCheck
    BY <2>1 DEF Ping, HealthCheck
  <2> QED
    BY <1>0, <1>8, <2>2 DEF StartCheck, TypeOK
<1>9. ASSUME NEW c \in Checks, PingAnswers(c) \/ PingThrowsAgain(c) PROVE TypeOK'
  <2>1. check' \in [Checks -> HealthCheck]
    <3>1. CASE PingAnswers(c)
      BY <1>0, <3>1, GoingOn DEF PingAnswers, Goto, TypeOK
    <3>2. CASE PingThrowsAgain(c)
      BY <1>0, <3>2, GoingOn DEF PingThrowsAgain, Goto, TypeOK
    <3> QED
      BY <1>9, <3>1, <3>2
  <2> QED
    BY <1>0, <1>9, <2>1 DEF PingAnswers, PingThrowsAgain, TypeOK
<1>10. ASSUME NEW c \in Checks, Reconnect(c) PROVE TypeOK'
  <2>1. Cardinality(Pinging) >= 1
    <3>1. c \in Pinging
      BY <1>10 DEF Reconnect, Pinging
    <3> QED
      BY <3>1, PingingFinite, FS_EmptySet
  <2>2. created + 1 <= started + 1
    BY <1>0, <2>1, PingingFinite DEF RightsLeft, TypeOK
  <2>3. check' \in [Checks -> HealthCheck]
    BY <1>0, <1>10, GoingOn DEF Reconnect, Goto, TypeOK
  <2>4. replacement' \in Replacement
    <3>1. (~ up) \in BOOLEAN /\ current \in Nat /\ created + 1 \in Nat
      BY <1>0 DEF TypeOK
    <3>2. [pc |-> "connect", previous |-> current, next |-> created + 1, met |-> ~ up]
            \in Replacement
      BY <3>1 DEF Replacement
    <3> QED
      BY <1>0, <1>10, <3>2 DEF Reconnect, TypeOK
  <2>5. created' \in 1..(started + 1) /\ created <= created'
    BY <1>0, <1>10, <2>2 DEF Reconnect, TypeOK
  <2> QED
    BY <1>0, <1>10, <2>3, <2>4, <2>5 DEF Reconnect, TypeOK
<1>11. CASE UNCHANGED vars
  BY <1>0, <1>11 DEF vars, TypeOK
<1> QED
  BY <1>1, <1>2, <1>3, <1>4, <1>5, <1>6, <1>7, <1>8, <1>9, <1>10, <1>11
     DEF Next, Replaces, Goes

(* Only the start of a check adds a right, and only Reconnect uses one.    *)
LEMMA NextRights == IInv /\ [Next]_vars => RightsLeft'
<1> SUFFICES ASSUME IInv, [Next]_vars PROVE RightsLeft'
  OBVIOUS
<1>0. TypeOK /\ RightsLeft /\ created \in Nat /\ started \in Nat
      /\ IsFiniteSet(Pinging) /\ Cardinality(Pinging) \in Nat
  BY ClientNumbers, PingingFinite DEF IInv
<1>1. ASSUME created' = created, started' = started, Pinging' \subseteq Pinging
      PROVE  RightsLeft'
  <2>1. Cardinality(Pinging') <= Cardinality(Pinging) /\ Cardinality(Pinging') \in Nat
    BY <1>0, <1>1, FS_Subset, FS_CardinalityType
  <2> QED
    BY <1>0, <1>1, <2>1 DEF RightsLeft
<1>2. CASE GoDown \/ ComeBack
  <2>1. Pinging' \subseteq Pinging
    <3>1. CASE GoDown
      <4>1. ASSUME NEW c \in Checks PROVE check'[c].pc = check[c].pc
        BY <1>0, <3>1 DEF GoDown, TypeOK, HealthCheck
      <4> QED
        BY <4>1 DEF Pinging
    <3> QED
      BY <1>2, <3>1 DEF ComeBack, Pinging
  <2> QED
    BY <1>1, <1>2, <2>1 DEF GoDown, ComeBack, database
<1>3. CASE Connect \/ ProbeAnswers \/ ProbeThrows
  <2>1. Pinging' \subseteq Pinging
    BY <1>3 DEF Connect, ProbeAnswers, ProbeThrows, Pinging
  <2> QED
    BY <1>1, <1>3, <2>1 DEF Connect, ProbeAnswers, ProbeThrows
<1>4. ASSUME NEW outcome \in {"down", "ping again"}, ReplacementSettles(outcome)
      PROVE  Pinging' \subseteq Pinging
  BY <1>4 DEF ReplacementSettles, Waiting, Ping, Pinging
<1>5. CASE GiveUp \/ ClosePrevious
  <2>1. Pinging' \subseteq Pinging
    BY <1>4, <1>5 DEF GiveUp, ClosePrevious
  <2> QED
    BY <1>1, <1>5, <2>1 DEF GiveUp, ClosePrevious
<1>6. ASSUME NEW c \in Checks, StartCheck(c) PROVE RightsLeft'
  <2>1. Pinging' = Pinging \cup {c} /\ c \notin Pinging
    BY <1>0, <1>6 DEF StartCheck, Pinging, Ping, TypeOK, HealthCheck
  <2>2. Cardinality(Pinging') = Cardinality(Pinging) + 1
    BY <1>0, <2>1, FS_AddElement
  <2> QED
    BY <1>0, <1>6, <2>2 DEF StartCheck, RightsLeft
<1>7. ASSUME NEW c \in Checks, PingAnswers(c) \/ PingThrowsAgain(c) PROVE RightsLeft'
  <2>1. Pinging' \subseteq Pinging
    BY <1>0, <1>7 DEF PingAnswers, PingThrowsAgain, Goto, Pinging, TypeOK, HealthCheck
  <2> QED
    BY <1>1, <1>7, <2>1 DEF PingAnswers, PingThrowsAgain
<1>8. ASSUME NEW c \in Checks, Reconnect(c) PROVE RightsLeft'
  <2>1. Pinging' = Pinging \ {c} /\ c \in Pinging
    BY <1>0, <1>8 DEF Reconnect, Goto, Pinging, TypeOK, HealthCheck
  <2>2. Cardinality(Pinging') = Cardinality(Pinging) - 1
    BY <1>0, <2>1, FS_RemoveElement
  <2>3. created' <= created + 1 /\ created' \in Nat /\ started' = started
    BY <1>0, <1>8 DEF Reconnect
  <2> QED
    BY <1>0, <2>2, <2>3 DEF RightsLeft
<1>9. CASE UNCHANGED vars
  BY <1>0, <1>9 DEF vars, RightsLeft, Pinging
<1> QED
  BY <1>2, <1>3, <1>5, <1>6, <1>7, <1>8, <1>9 DEF Next, Replaces, Goes

(* A replacement connects a fresh client and disconnects one of the two.   *)
LEMMA NextReplacement == IInv /\ [Next]_vars => OneReplacement'
<1> SUFFICES ASSUME IInv, [Next]_vars PROVE OneReplacement'
  OBVIOUS
<1>0. TypeOK /\ OneReplacement /\ created \in Nat
  BY ClientNumbers DEF IInv
<1> USE DEF TypeOK, Replacement, OneReplacement
<1>1. CASE GoDown
  BY <1>0, <1>1 DEF GoDown
<1>2. CASE ComeBack
  BY <1>0, <1>2 DEF ComeBack
<1>3. CASE Connect
  BY <1>0, <1>3 DEF Connect, ReplacementGoes
<1>4. CASE ProbeAnswers
  BY <1>0, <1>4 DEF ProbeAnswers, ReplacementGoes
<1>5. CASE ProbeThrows
  BY <1>0, <1>5 DEF ProbeThrows, ReplacementGoes
<1>6. CASE GiveUp
  BY <1>0, <1>6 DEF GiveUp, ReplacementSettles, NotReplacing
<1>7. CASE ClosePrevious
  BY <1>0, <1>7 DEF ClosePrevious, ReplacementSettles, NotReplacing
<1>8. ASSUME NEW c \in Checks, StartCheck(c) \/ PingAnswers(c) \/ PingThrowsAgain(c)
      PROVE  OneReplacement'
  BY <1>0, <1>8 DEF StartCheck, PingAnswers, PingThrowsAgain
<1>9. ASSUME NEW c \in Checks, Reconnect(c) PROVE OneReplacement'
  <2>1. open' = open /\ current' = current
    BY <1>9 DEF Reconnect
  <2>2. CASE replacement.pc # "none"
    BY <1>0, <1>9, <2>1, <2>2 DEF Reconnect
  <2>3. CASE replacement.pc = "none"
    <3>1. created' = created + 1 /\ replacement'.pc = "connect"
          /\ replacement'.previous = current /\ replacement'.next = created + 1
      BY <1>9, <2>3 DEF Reconnect, Goto
    <3> QED
      BY <1>0, <2>1, <2>3, <3>1, FreshNumber
  <2> QED
    BY <2>2, <2>3
<1>10. CASE UNCHANGED vars
  BY <1>0, <1>10 DEF vars
<1> QED
  BY <1>1, <1>2, <1>3, <1>4, <1>5, <1>6, <1>7, <1>8, <1>9, <1>10
     DEF Next, Replaces, Goes

(* Every state reachable under the specification satisfies IInv.           *)
LEMMA Invariance == Spec => []IInv
<1>1. IInv /\ [Next]_vars => IInv'
  BY NextType, NextRights, NextReplacement DEF IInv
<1> QED
  BY InitIInv, <1>1, PTL DEF Spec

(* The type invariant: a check is never answered by asking again.          *)
THEOREM TypeCorrect == Spec => []TypeOK
BY Invariance, PTL DEF IInv

(* However many checks fail at once and whatever the outages: when no      *)
(* replacement is under way, the one connected client is this.prisma.      *)
THEOREM NoClientLeaks == Spec => []NothingLeaks
<1>1. IInv => NothingLeaks
  BY DEF IInv, OneReplacement, NothingLeaks
<1> QED
  BY Invariance, <1>1, PTL

(* The services never hold a client that the service has disconnected.     *)
THEOREM CurrentStaysConnected == Spec => []CurrentIsConnected
<1>1. IInv => CurrentIsConnected
  BY DEF IInv, TypeOK, Replacement, OneReplacement, CurrentIsConnected
<1> QED
  BY Invariance, <1>1, PTL
-------------------------------------------------------------------------------
(* The outages that a replacement or a check meets.                        *)
LEMMA NextMet ==
  Graceful /\ IInv /\ OutagesAreMet /\ [Next]_vars => OutagesAreMet'
<1> SUFFICES ASSUME Graceful, IInv, OutagesAreMet, [Next]_vars PROVE OutagesAreMet'
  OBVIOUS
<1>0. TypeOK /\ OneReplacement /\ OutagesAreMet /\ created \in Nat
  BY ClientNumbers DEF IInv
<1> USE DEF Replacement, OutagesAreMet
<1>1. CASE GoDown
  <2>1. replacement'.pc = replacement.pc /\ replacement'.next = replacement.next
        /\ (replacement.pc # "none" => replacement'.met)
    BY <1>0, <1>1 DEF GoDown, TypeOK
  <2>2. ASSUME NEW c \in Checks, check'[c].pc = "ping again" PROVE check'[c].met
    BY <1>0, <1>1, <2>2 DEF GoDown, Pending, TypeOK, HealthCheck
  <2>3. replacement.pc = "connect" => replacement.next \notin broken'
    BY <1>0, <1>1 DEF GoDown, OneReplacement
  <2> QED
    BY <1>0, <2>1, <2>2, <2>3
<1>2. CASE ComeBack
  BY <1>0, <1>2 DEF ComeBack
<1>3. CASE Connect
  BY <1>0, <1>3 DEF Connect, ReplacementGoes, TypeOK, database
<1>4. CASE ProbeAnswers
  BY <1>0, <1>4 DEF ProbeAnswers, ReplacementGoes, TypeOK, database
<1>5. CASE ProbeThrows
  BY <1>0, <1>5 DEF ProbeThrows, Throws, ReplacementGoes, TypeOK, database
<1>6. CASE GiveUp
  BY <1>0, <1>6 DEF GiveUp, ReplacementSettles, NotReplacing, Ping, Waiting, TypeOK, database
<1>7. CASE ClosePrevious
  BY <1>0, <1>7 DEF ClosePrevious, ReplacementSettles, NotReplacing, Ping, Waiting,
                    OneReplacement, TypeOK, database
<1>8. ASSUME NEW c \in Checks, StartCheck(c) PROVE OutagesAreMet'
  BY <1>0, <1>8 DEF StartCheck, Ping, TypeOK, database
<1>9. ASSUME NEW c \in Checks, PingAnswers(c) \/ PingThrowsAgain(c) PROVE OutagesAreMet'
  <2>1. ASSUME NEW d \in Checks, check'[d].pc = "ping again" PROVE check'[d] = check[d]
    BY <1>0, <1>9, <2>1 DEF PingAnswers, PingThrowsAgain, Goto, TypeOK, HealthCheck
  <2>2. UNCHANGED <<up, broken, replacement>>
    BY <1>9 DEF PingAnswers, PingThrowsAgain, database
  <2> QED
    BY <1>0, <2>1, <2>2
<1>10. ASSUME NEW c \in Checks, Reconnect(c) PROVE OutagesAreMet'
  <2>1. ASSUME NEW d \in Checks, check'[d].pc = "ping again" PROVE check'[d] = check[d]
    BY <1>0, <1>10, <2>1 DEF Reconnect, Goto, TypeOK, HealthCheck
  <2>2. UNCHANGED <<up, broken>>
    BY <1>10 DEF Reconnect, database
  <2>3. CASE replacement.pc # "none"
    BY <1>0, <1>10, <2>1, <2>2, <2>3 DEF Reconnect
  <2>4. CASE replacement.pc = "none"
    <3>1. replacement' = [pc |-> "connect", previous |-> current, next |-> created + 1,
                          met |-> ~ up]
      BY <1>10, <2>4 DEF Reconnect
    <3>2. replacement'.pc = "connect" /\ replacement'.next = created + 1
      BY <3>1
    <3>3. replacement'.met = (~ up)
      BY <3>1, Zenon
    <3> QED
      BY <1>0, <2>1, <2>2, <3>2, <3>3, FreshNumber
  <2> QED
    BY <2>3, <2>4
<1>11. CASE UNCHANGED vars
  BY <1>0, <1>11 DEF vars
<1> QED
  BY <1>1, <1>2, <1>3, <1>4, <1>5, <1>6, <1>7, <1>8, <1>9, <1>10, <1>11
     DEF Next, Replaces, Goes

LEMMA NextCause ==
  Graceful /\ IInv /\ OutagesAreMet /\ DownHasACause /\ [Next]_vars => DownHasACause'
<1> SUFFICES ASSUME Graceful, IInv, OutagesAreMet, DownHasACause, [Next]_vars
             PROVE  DownHasACause'
  OBVIOUS
<1>0. TypeOK /\ OutagesAreMet /\ DownHasACause
  BY DEF IInv
<1> USE DEF DownHasACause
<1>1. CASE GoDown
  BY <1>0, <1>1 DEF GoDown, TypeOK, HealthCheck
<1>2. CASE ComeBack \/ Connect \/ ProbeAnswers \/ ProbeThrows \/ UNCHANGED vars
  BY <1>0, <1>2 DEF ComeBack, Connect, ProbeAnswers, ProbeThrows, vars
<1>3. CASE GiveUp
  BY <1>0, <1>3 DEF GiveUp, ReplacementSettles, Ping, Waiting, OutagesAreMet
<1>4. CASE ClosePrevious
  BY <1>0, <1>4 DEF ClosePrevious, ReplacementSettles, Ping, Waiting
<1>5. ASSUME NEW c \in Checks, StartCheck(c) PROVE DownHasACause'
  BY <1>0, <1>5 DEF StartCheck, Ping, TypeOK
<1>6. ASSUME NEW c \in Checks, PingAnswers(c) \/ Reconnect(c) PROVE DownHasACause'
  BY <1>0, <1>6 DEF PingAnswers, Reconnect, Goto, TypeOK, HealthCheck
<1>7. ASSUME NEW c \in Checks, PingThrowsAgain(c) PROVE DownHasACause'
  BY <1>0, <1>7 DEF PingThrowsAgain, Throws, Goto, OutagesAreMet, TypeOK, HealthCheck
<1> QED
  BY <1>1, <1>2, <1>3, <1>4, <1>5, <1>6, <1>7 DEF Next, Replaces, Goes

(* With a driver that ends the queries of a disconnected client, an answer *)
(* "database: down" is never a mere artefact of a concurrent replacement.  *)
THEOREM DownIsCaused == ASSUME Graceful PROVE Spec => []DownHasACause
<1>1. Init => OutagesAreMet /\ DownHasACause
  BY DEF Init, OutagesAreMet, DownHasACause, NotReplacing, Idle
<1>2. IInv /\ OutagesAreMet /\ DownHasACause /\ [Next]_vars
        => OutagesAreMet' /\ DownHasACause'
  BY NextMet, NextCause
<1> QED
  BY Invariance, <1>1, <1>2, PTL DEF Spec
===============================================================================
