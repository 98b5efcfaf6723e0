-------------------------- MODULE DatabaseConnection --------------------------
(***************************************************************************)
(* PrismaService of apps/api: the one client every service reads through   *)
(* prisma.db, and its replacement when a health check finds the database   *)
(* connection lost.  Health checks run concurrently; those that fail while *)
(* a replacement is under way wait for that one.                           *)
(*                                                                         *)
(* Clients are numbered as they are created.  The database goes down and   *)
(* comes back; going down breaks the connections of the clients that are   *)
(* connected, and the driver may or may not mend them afterwards.          *)
(***************************************************************************)
EXTENDS Integers, FiniteSets

CONSTANTS
  Checks,       \* health checks that may run at once
  Graceful,     \* a client that is disconnected still ends its queries in flight
  MaxChecks,    \* bound: health checks started
  MaxOutages,   \* bound: times the database goes down
  Lasting       \* the last outage does not end

ASSUME DatabaseAssumption ==
  /\ IsFiniteSet(Checks) /\ Graceful \in BOOLEAN /\ Lasting \in BOOLEAN
  /\ MaxChecks \in Nat /\ MaxOutages \in Nat

VARIABLES
  up,           \* the database accepts connections
  outages,
  current,      \* this.prisma
  created,      \* clients created so far
  started,      \* health checks started so far
  open,         \* clients connected and not disconnected
  broken,       \* clients whose connections an outage has broken
  replacement,  \* replaceClient: how far it is, the clients, an outage met
  check         \* each health check: how far it is, the client of its ping, an outage met

vars == <<up, outages, current, created, started, open, broken, replacement, check>>
database == <<up, outages>>

Replacement ==
  [pc: {"none", "connect", "probe", "give up", "close previous"},
   previous: Nat, next: Nat, met: BOOLEAN]
HealthCheck ==
  [pc: {"idle", "ping", "wait", "ping again", "ok", "down"}, client: Nat, met: BOOLEAN]

NotReplacing == [pc |-> "none", previous |-> 0, next |-> 0, met |-> FALSE]
Idle == [pc |-> "idle", client |-> 0, met |-> FALSE]

Goto(c, pc) == check' = [check EXCEPT ![c].pc = pc]

\* Starting a ping takes the client that is current then.
Ping(pc, met) == [pc |-> pc, client |-> current, met |-> met]

-------------------------------------------------------------------------------
(* The database.                                                           *)

Pending(h) == h.pc \in {"ping", "wait", "ping again"}

\* What is under way when the database goes down has met an outage.
GoDown ==
  /\ up /\ outages < MaxOutages
  /\ up' = FALSE /\ outages' = outages + 1
  /\ broken' = broken \cup open
  /\ replacement' = [replacement EXCEPT !.met = replacement.pc # "none"]
  /\ check' = [c \in Checks |-> [check[c] EXCEPT !.met = @ \/ Pending(check[c])]]
  /\ UNCHANGED <<current, created, started, open>>

ComeBack ==
  /\ ~ up /\ (Lasting => outages < MaxOutages)
  /\ up' = TRUE
  /\ UNCHANGED <<outages, current, created, started, open, broken, replacement, check>>

\* A query of client k may answer, or throw.
Answers(k) == up /\ (Graceful \/ k \in open)
Throws(k) == ~ up \/ k \in broken \/ (~ Graceful /\ k \notin open)

-------------------------------------------------------------------------------
(* checkConnection, one action per await.                                  *)

\* check() of the health service: the first SELECT 1 is sent.
StartCheck(c) ==
  /\ check[c].pc \in {"idle", "ok", "down"} /\ started < MaxChecks
  /\ started' = started + 1
  /\ check' = [check EXCEPT ![c] = Ping("ping", ~ up)]
  /\ UNCHANGED <<database, current, created, open, broken, replacement>>

PingAnswers(c) ==
  /\ check[c].pc \in {"ping", "ping again"} /\ Answers(check[c].client)
  /\ Goto(c, "ok")
  /\ UNCHANGED <<database, current, created, started, open, broken, replacement>>

\* Mutant: waits although the replacement has settled.
ReconnectJoiningLate(c) ==
  /\ check[c].pc = "ping" /\ Throws(check[c].client)
  /\ Goto(c, "wait")
  /\ IF created > 1
     THEN UNCHANGED <<created, replacement>>
     ELSE /\ created' = created + 1
          /\ replacement' =
               [pc |-> "connect", previous |-> current, next |-> created + 1, met |-> ~ up]
  /\ UNCHANGED <<database, current, started, open, broken>>

\* reconnect(): waits for the replacement under way, or starts one.
Reconnect(c) ==
  /\ check[c].pc = "ping" /\ Throws(check[c].client)
  /\ Goto(c, "wait")
  /\ IF replacement.pc # "none"
     THEN UNCHANGED <<created, replacement>>
     ELSE /\ created' = created + 1
          /\ replacement' =
               [pc |-> "connect", previous |-> current, next |-> created + 1, met |-> ~ up]
  /\ UNCHANGED <<database, current, started, open, broken>>

\* The service answers 503 "database: down".
PingThrowsAgain(c) ==
  /\ check[c].pc = "ping again" /\ Throws(check[c].client)
  /\ Goto(c, "down")
  /\ UNCHANGED <<database, current, created, started, open, broken, replacement>>

-------------------------------------------------------------------------------
(* replaceClient, one action per await.                                    *)

ReplacementGoes(pc) == replacement' = [replacement EXCEPT !.pc = pc]

\* Mutant: the new client is used before it is connected.
ConnectInPlace ==
  /\ replacement.pc = "connect"
  /\ current' = replacement.next
  /\ IF up
     THEN open' = open \cup {replacement.next} /\ ReplacementGoes("probe")
     ELSE open' = open /\ ReplacementGoes("give up")
  /\ UNCHANGED <<database, created, started, broken, check>>

Connect ==
  /\ replacement.pc = "connect"
  /\ IF up
     THEN open' = open \cup {replacement.next} /\ ReplacementGoes("probe")
     ELSE open' = open /\ ReplacementGoes("give up")
  /\ UNCHANGED <<database, current, created, started, broken, check>>

ProbeAnswers ==
  /\ replacement.pc = "probe" /\ Answers(replacement.next)
  /\ current' = replacement.next
  /\ ReplacementGoes("close previous")
  /\ UNCHANGED <<database, created, started, open, broken, check>>

ProbeThrows ==
  /\ replacement.pc = "probe" /\ Throws(replacement.next)
  /\ ReplacementGoes("give up")
  /\ UNCHANGED <<database, current, created, started, open, broken, check>>

Waiting == {c \in Checks : check[c].pc = "wait"}

\* The promise settles and is forgotten (finally); those who wait go on.
ReplacementSettles(pc) ==
  /\ replacement' = NotReplacing
  /\ check' = [c \in Checks |->
       IF c \notin Waiting THEN check[c]
       ELSE Ping(pc, check[c].met \/ replacement.met)]

\* Mutant: a client that could not be probed is left connected.
GiveUpOnly ==
  /\ replacement.pc = "give up"
  /\ ReplacementSettles("down")
  /\ UNCHANGED <<database, current, created, started, open, broken>>

GiveUp ==
  /\ replacement.pc = "give up"
  /\ open' = open \ {replacement.next}
  /\ ReplacementSettles("down")
  /\ UNCHANGED <<database, current, created, started, broken>>

\* Mutant: ends the checks that waited for it without asking again.
ClosePreviousOnly ==
  /\ replacement.pc = "close previous"
  /\ open' = open \ {replacement.previous}
  /\ ReplacementSettles("down")
  /\ UNCHANGED <<database, current, created, started, broken>>

ClosePrevious ==
  /\ replacement.pc = "close previous"
  /\ open' = open \ {replacement.previous}
  /\ ReplacementSettles("ping again")
  /\ UNCHANGED <<database, current, created, started, broken>>

-------------------------------------------------------------------------------
\* onModuleInit has connected the first client.
Init ==
  /\ up = TRUE /\ outages = 0
  /\ current = 1 /\ created = 1 /\ started = 0 /\ open = {1} /\ broken = {}
  /\ replacement = NotReplacing
  /\ check = [c \in Checks |-> Idle]

Replaces ==
  \/ Connect
  \/ ProbeAnswers
  \/ ProbeThrows
  \/ GiveUp
  \/ ClosePrevious

Goes(c) ==
  \/ PingAnswers(c)
  \/ Reconnect(c)
  \/ PingThrowsAgain(c)

Next ==
  \/ GoDown
  \/ ComeBack
  \/ Replaces
  \/ \E c \in Checks : StartCheck(c) \/ Goes(c)

\* Every await of the code ends: the driver answers or throws.
Fairness == WF_vars(Replaces) /\ \A c \in Checks : WF_vars(Goes(c))

Spec == Init /\ [][Next]_vars

LiveSpec == Spec /\ Fairness

-------------------------------------------------------------------------------
TypeOK ==
  /\ up \in BOOLEAN /\ outages \in 0..MaxOutages
  /\ started \in 0..MaxChecks /\ created \in 1..(started + 1) /\ current \in 1..created
  /\ open \subseteq 1..created /\ broken \subseteq 1..created
  /\ replacement \in Replacement
  /\ check \in [Checks -> HealthCheck]

\* No client is lost: once no replacement is under way, the only connected
\* client is the one the services use.  A failed replacement disconnects what
\* it created, a successful one what it replaced.
NothingLeaks == replacement.pc = "none" => open = {current}

\* The services never read through a client that was disconnected, not even
\* while the client is being replaced.
CurrentIsConnected == current \in open

\* A health answer "database: down" has a cause: the database was down at
\* some time during the check, or during the replacement it waited for.
DownHasACause == \A c \in Checks : check[c].pc = "down" => check[c].met

\* Each health check is answered: no check waits for a replacement for ever.
ChecksAreAnswered ==
  \A c \in Checks : check[c].pc = "ping" ~> check[c].pc \in {"ok", "down"}
===============================================================================
