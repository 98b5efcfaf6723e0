----------------------------- MODULE AdminAccess -----------------------------
(***************************************************************************)
(* The administrators of the panel: the first administrator that API       *)
(* processes create as they start, the sessions of the auth service, the   *)
(* guard in front of the administrative routes, and the tabs of one        *)
(* browser, which share its session cookie and not their caches.           *)
(*                                                                         *)
(* An e-mail is a way to write an address; Address is what trim and        *)
(* lower case make of it.  Tokens are numbered as they are issued; a       *)
(* number stands for the token and for its hash.  No code deactivates an   *)
(* administrator, so `active` is left out, and so is lastLoginAt.          *)
(***************************************************************************)
EXTENDS Naturals, FiniteSets

CONSTANTS
  Processes,    \* API processes, each with its environment
  Emails,       \* e-mails of the environments
  Address,      \* normalizeEmail
  Unset,        \* a variable that is not set
  Deployments,  \* environments of the processes, each with what may happen there
  Tabs,
  Nobody        \* waits for the answer of a request that a tab gave up

Settings ==
  [Processes -> [email: Emails \cup {Unset}, password: {"none", "short", "long"}]]

\* Bounds: starts of processes, sessions created, and faults: requests that
\* fail or that a reload gives up, and sessions that expire.
Bounds == [starts: Nat, logins: Nat, faults: Nat]

ASSUME AdminAssumption ==
  /\ Unset \notin Emails /\ Address \in [Emails -> Emails]
  /\ Deployments \subseteq [environment: Settings, left: Bounds] /\ Nobody \notin Tabs

VARIABLES
  environment,  \* ADMIN_BOOTSTRAP_EMAIL and the length of _PASSWORD, per process
  process,      \* how far each process is
  admins,       \* AdminUser rows: their addresses
  sessions,     \* AdminSession rows: their tokens
  issued,       \* tokens issued so far
  expired,      \* tokens whose time is over
  ended,        \* tokens a logout named
  cookie,       \* the session cookie of the browser, 0 for none
  tab,          \* page, cached current user and query of /me of each tab
  posts,        \* logins and logouts in flight
  left          \* what is left of the bounds

bootVars == <<environment, process, admins>>
sessionVars == <<sessions, issued, expired, ended>>
vars == <<bootVars, sessionVars, cookie, tab, posts, left>>

\* A step that one of the bounds counts.
Spends(bound) == left[bound] > 0 /\ left' = [left EXCEPT ![bound] = left[bound] - 1]

Idle == [token |-> 0, answer |-> "idle"]
Closed == [page |-> "closed", me |-> FALSE, query |-> Idle]
AtLogin == [page |-> "login", me |-> FALSE, query |-> Idle]

-------------------------------------------------------------------------------
(* Start of an API process.                                                *)

GoesTo(p, pc) == process' = [process EXCEPT ![p] = pc]

\* Both variables are set, the password with 12 characters, or neither is;
\* with anything else the start throws.
Start(p) ==
  /\ process[p] \in {"down", "refused", "failed"} /\ Spends("starts")
  /\ LET none == environment[p] = [email |-> Unset, password |-> "none"]
         both == environment[p].email # Unset /\ environment[p].password = "long" IN
     \/ none /\ GoesTo(p, "up")
     \/ both /\ GoesTo(p, "count")
     \/ ~ none /\ ~ both /\ GoesTo(p, "refused")
  /\ UNCHANGED <<environment, admins, sessionVars, cookie, tab, posts>>

\* The count of administrators, before the password is hashed.
Count(p) ==
  /\ process[p] = "count"
  /\ GoesTo(p, IF admins = {} THEN "create" ELSE "up")
  /\ UNCHANGED <<environment, admins, sessionVars, cookie, tab, posts, left>>

\* Mutant: the e-mail is stored as it was written.
CreateAsWritten(p) ==
  /\ process[p] = "create"
  /\ IF environment[p].email \in admins
     THEN GoesTo(p, "failed") /\ UNCHANGED admins
     ELSE GoesTo(p, "up") /\ admins' = admins \cup {environment[p].email}
  /\ UNCHANGED <<environment, sessionVars, cookie, tab, posts, left>>

\* The e-mail is unique: of two processes one creates, the other one throws.
CreateAdmin(p) ==
  /\ process[p] = "create"
  /\ LET address == Address[environment[p].email] IN
     IF address \in admins
     THEN GoesTo(p, "failed") /\ UNCHANGED admins
     ELSE GoesTo(p, "up") /\ admins' = admins \cup {address}
  /\ UNCHANGED <<environment, sessionVars, cookie, tab, posts, left>>

Stop(p) ==
  /\ process[p] \in {"count", "create", "up"}
  /\ GoesTo(p, "down")
  /\ UNCHANGED <<environment, admins, sessionVars, cookie, tab, posts, left>>

\* The operator does what the log and .env.example say, and restarts the API.
FollowAdvice(p) ==
  /\ admins # {} /\ environment[p].password # "none" /\ process[p] \in {"up", "down"}
  /\ environment' = [environment EXCEPT ![p].password = "none"]
  /\ GoesTo(p, "down")
  /\ UNCHANGED <<admins, sessionVars, cookie, tab, posts, left>>

-------------------------------------------------------------------------------
(* A tab of the panel.                                                     *)

Answering == \E p \in Processes : process[p] = "up"

Asking == [token |-> cookie, answer |-> "none"]
Asks(t) == tab[t].query.answer = "none"
Waiting(t, kind) == {c \in posts : c.tab = t /\ c.kind = kind}
Posts(t, kind) ==
  posts' = posts \cup {[tab |-> t, kind |-> kind, token |-> cookie, answer |-> "none"]}

\* A page is loaded, with an empty cache: the login page for everybody, the
\* others for who has a cookie.  The requests of the page before have left.
Load(t) ==
  LET given == {c \in posts : c.tab = t} IN
  /\ \/ given = {} /\ UNCHANGED left
     \/ given # {} /\ Spends("faults")
  /\ posts' = (posts \ given) \cup {[c EXCEPT !.tab = Nobody] : c \in given}
  /\ \/ tab' = [tab EXCEPT ![t] = AtLogin]
     \/ cookie # 0 /\ tab' = [tab EXCEPT ![t] =
                                [page |-> "panel", me |-> FALSE, query |-> Asking]]
  /\ UNCHANGED <<bootVars, sessionVars, cookie>>

Submit(t) ==
  /\ tab[t].page = "login" /\ Waiting(t, "login") = {}
  /\ Posts(t, "login")
  /\ UNCHANGED <<bootVars, sessionVars, cookie, tab, left>>

\* After a login the tab goes to the panel, with the user it was answered.
Enter(t) ==
  /\ tab[t].page = "entering"
  /\ tab' = [tab EXCEPT ![t].page = IF cookie = 0 THEN "login" ELSE "panel"]
  /\ UNCHANGED <<bootVars, sessionVars, cookie, posts, left>>

\* The user in the cache is stale, and the shell asks again.
Refetch(t) ==
  /\ tab[t].page \in {"panel", "leaving"} /\ tab[t].query = Idle
  /\ tab' = [tab EXCEPT ![t].query = Asking]
  /\ UNCHANGED <<bootVars, sessionVars, cookie, posts, left>>

\* The menu that sends a logout is disabled until the shell shows another.
SignOut(t) ==
  /\ tab[t].page = "panel" /\ tab[t].me
  /\ tab' = [tab EXCEPT ![t].page = "leaving"]
  /\ Posts(t, "logout")
  /\ UNCHANGED <<bootVars, sessionVars, cookie, left>>

\* The error card asks again, and stays until the answer if there is a user.
Retry(t) ==
  /\ tab[t].page = "error" /\ tab[t].query = Idle
  /\ tab' = [tab EXCEPT ![t].page = IF tab[t].me THEN "error" ELSE "panel",
                        ![t].query = Asking]
  /\ UNCHANGED <<bootVars, sessionVars, cookie, posts, left>>

-------------------------------------------------------------------------------
(* The API answers.                                                        *)

Valid(token) == token \in sessions \ expired

Answers(c, token, answer) ==
  posts' = (posts \ {c}) \cup {[c EXCEPT !.token = token, !.answer = answer]}

\* A login with a right password sweeps expired sessions and creates one.
LogIn(c) ==
  /\ Answering /\ c.kind = "login" /\ c.answer = "none"
  /\ \/ /\ admins # {} /\ Spends("logins")
        /\ issued' = issued + 1
        /\ sessions' = (sessions \ expired) \cup {issued + 1}
        /\ Answers(c, issued + 1, "ok")
     \/ Answers(c, c.token, "401") /\ UNCHANGED <<issued, sessions, left>>
  /\ UNCHANGED <<bootVars, expired, ended, cookie, tab>>

\* Mutant: clears the cookie and keeps the session.
LogOutOfBrowser(c) ==
  /\ Answering /\ c.kind = "logout" /\ c.answer = "none"
  /\ Answers(c, c.token, "ok")
  /\ ended' = ended \cup ({c.token} \ {0})
  /\ UNCHANGED <<bootVars, sessions, issued, expired, cookie, tab, left>>

\* Mutant: deletes every session of the administrator.
LogOutEverywhere(c) ==
  /\ Answering /\ c.kind = "logout" /\ c.answer = "none"
  /\ Answers(c, c.token, "ok")
  /\ sessions' = {}
  /\ ended' = ended \cup ({c.token} \ {0})
  /\ UNCHANGED <<bootVars, issued, expired, cookie, tab, left>>

LogOut(c) ==
  /\ Answering /\ c.kind = "logout" /\ c.answer = "none"
  /\ Answers(c, c.token, "ok")
  /\ sessions' = sessions \ {c.token}
  /\ ended' = ended \cup ({c.token} \ {0})
  /\ UNCHANGED <<bootVars, issued, expired, cookie, tab, left>>

\* The guard and getPublicUser.
Me(t) ==
  /\ Answering /\ Asks(t)
  /\ tab' = [tab EXCEPT ![t].query.answer = IF Valid(tab[t].query.token) THEN "ok" ELSE "401"]
  /\ UNCHANGED <<bootVars, sessionVars, cookie, posts, left>>

Expire(token) ==
  /\ token \notin expired /\ Spends("faults")
  /\ expired' = expired \cup {token}
  /\ UNCHANGED <<bootVars, sessions, issued, ended, cookie, tab, posts>>

CookieExpires ==
  /\ cookie \in expired
  /\ cookie' = 0
  /\ UNCHANGED <<bootVars, sessionVars, tab, posts, left>>

-------------------------------------------------------------------------------
(* The browser gets the answer, and the tab that waits for it.             *)

\* onSuccess of the login page; the answer sets the cookie.
LoggedIn(c) ==
  /\ c.tab # Nobody /\ c.kind = "login" /\ c.answer = "ok"
  /\ cookie' = c.token /\ posts' = posts \ {c}
  /\ tab' = [tab EXCEPT ![c.tab] = [page |-> "entering", me |-> TRUE, query |-> Idle]]
  /\ UNCHANGED <<bootVars, sessionVars, left>>

LoginRefused(c) ==
  /\ c.tab # Nobody /\ c.answer = "401"
  /\ posts' = posts \ {c}
  /\ UNCHANGED <<bootVars, sessionVars, cookie, tab, left>>

\* onSettled of the menu, even of one that the shell no longer shows: the
\* query is removed.  The answer clears the cookie, whatever is in it.
LoggedOut(c) ==
  /\ c.tab # Nobody /\ c.kind = "logout" /\ c.answer = "ok"
  /\ cookie' = 0 /\ posts' = posts \ {c}
  /\ tab' = [tab EXCEPT ![c.tab] = AtLogin]
  /\ UNCHANGED <<bootVars, sessionVars, left>>

\* The fetch of a login or a logout fails, handled or not; after a logout the
\* tab goes to the login page all the same.  The request is still under way.
PostFails(c) ==
  /\ c.tab # Nobody /\ Spends("faults")
  /\ posts' = (posts \ {c}) \cup {[c EXCEPT !.tab = Nobody]}
  /\ IF c.kind = "logout" THEN tab' = [tab EXCEPT ![c.tab] = AtLogin] ELSE UNCHANGED tab
  /\ UNCHANGED <<bootVars, sessionVars, cookie>>

\* The end of a request that no tab waits for: it gets lost, or the browser
\* takes the cookie of its answer.
Unheard(c) ==
  /\ c.tab = Nobody
  /\ posts' = posts \ {c}
  /\ \/ UNCHANGED cookie
     \/ c.answer = "ok" /\ cookie' = IF c.kind = "login" THEN c.token ELSE 0
  /\ UNCHANGED <<bootVars, sessionVars, tab, left>>

\* The query of /me settles.
MeArrives(t, page, me) == tab' = [tab EXCEPT ![t] = [page |-> page, me |-> me, query |-> Idle]]
Shown(t) == IF tab[t].page = "leaving" THEN "leaving" ELSE "panel"

\* Mutant: the shell waits for the next render.
MeAnsweredQuietly(t) ==
  /\ \/ tab[t].query.answer = "ok" /\ MeArrives(t, Shown(t), TRUE)
     \/ tab[t].query.answer = "401" /\ MeArrives(t, tab[t].page, tab[t].me)
  /\ UNCHANGED <<bootVars, sessionVars, cookie, posts, left>>

\* The shell shows the panel, or its effect replaces the page by the login.
MeAnswered(t) ==
  /\ \/ tab[t].query.answer = "ok" /\ MeArrives(t, Shown(t), TRUE)
     \/ tab[t].query.answer = "401" /\ MeArrives(t, "login", tab[t].me)
  /\ UNCHANGED <<bootVars, sessionVars, cookie, posts, left>>

\* No answer of /me arrives, or one that is neither: the error card.
MeFails(t) ==
  /\ tab[t].query # Idle /\ Spends("faults")
  /\ MeArrives(t, "error", tab[t].me)
  /\ UNCHANGED <<bootVars, sessionVars, cookie, posts>>

-------------------------------------------------------------------------------
Init ==
  /\ \E d \in Deployments : environment = d.environment /\ left = d.left
  /\ process = [p \in Processes |-> "down"] /\ admins = {}
  /\ sessions = {} /\ issued = 0 /\ expired = {} /\ ended = {}
  /\ cookie = 0 /\ tab = [t \in Tabs |-> Closed] /\ posts = {}

Boots(p) == Start(p) \/ Count(p) \/ CreateAdmin(p)

Serves(c) == LogIn(c) \/ LogOut(c)

Arrives(c) == LoggedIn(c) \/ LoginRefused(c) \/ LoggedOut(c) \/ PostFails(c) \/ Unheard(c)

Browses(t) ==
  \/ Load(t) \/ Submit(t) \/ Enter(t) \/ Refetch(t) \/ SignOut(t) \/ Retry(t)
  \/ MeAnswered(t) \/ MeFails(t)

Next ==
  \/ \E p \in Processes : Boots(p) \/ Stop(p) \/ FollowAdvice(p)
  \/ \E c \in posts : Serves(c) \/ Arrives(c)
  \/ \E t \in Tabs : Me(t) \/ Browses(t)
  \/ \E token \in 1..issued : Expire(token)
  \/ CookieExpires

\* A request of /me is handled and answered while a process runs.
Fairness == \A t \in Tabs : WF_vars(Me(t)) /\ WF_vars(MeAnswered(t))

Spec == Init /\ [][Next]_vars

LiveSpec == Spec /\ Fairness

-------------------------------------------------------------------------------
Queries(n) == [token: 0..n, answer: {"idle", "none", "ok", "401"}]
TabStates(n) ==
  [page: {"closed", "login", "entering", "panel", "leaving", "error"}, me: BOOLEAN,
   query: Queries(n)]
Calls(n) ==
  [tab: Tabs \cup {Nobody}, kind: {"login", "logout"}, token: 0..n, answer: {"none", "ok", "401"}]

TypeOK ==
  /\ environment \in Settings
  /\ process \in [Processes -> {"down", "refused", "failed", "count", "create", "up"}]
  /\ admins \subseteq Emails /\ issued \in Nat /\ left \in Bounds
  /\ sessions \subseteq 1..issued /\ expired \subseteq 1..issued /\ ended \subseteq 1..issued
  /\ cookie \in 0..issued
  /\ tab \in [Tabs -> TabStates(issued)] /\ posts \subseteq Calls(issued)
  /\ \A t \in Tabs : tab[t].page = "panel" /\ ~ tab[t].me => tab[t].query # Idle

\* Processes that start at once, with the same address written in different
\* ways, create one first administrator.
OneFirstAdmin == Cardinality(admins) <= 1

\* A session ends by a logout that named it or by its time, never by what
\* another tab does: a login there, or the logout of an earlier session that
\* the API handles after a later login, its page long reloaded.
SessionsEndForACause == 1..issued \subseteq sessions \cup ended \cup expired

\* Once the API has handled the logout of a session, /me admits no request
\* that carries its token: not a refetch that was in flight in the tab that
\* logged out, nor one that another tab had sent before with the cookie.
SignedOutIsRefused ==
  [][\A t \in Tabs :
       Asks(t) /\ (tab[t].query.answer = "ok")' => tab[t].query.token \notin ended]_vars

\* A tab does not stay at "Validando sessao": it shows the panel, the login
\* page or the error card, whatever the other tab logs out of meanwhile,
\* unless the API is down or somebody loads the page for ever.
ValidationEnds ==
  \A t \in Tabs :
    \/ tab[t].page = "panel" /\ ~ tab[t].me ~> (tab[t].page # "panel" \/ tab[t].me \/ ~ Answering)
    \/ []<><<Load(t)>>_vars

\* Following the advice to remove ADMIN_BOOTSTRAP_PASSWORD once the first
\* administrator exists leaves an API that starts.
AdviceKeepsApiStarting == \A p \in Processes : process[p] # "refused"
===============================================================================
