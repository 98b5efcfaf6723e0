-------------------------- MODULE AdminAccessProofs --------------------------
(***************************************************************************)
(* The sessions of administrators for any number of tabs, tokens and       *)
(* failed requests, and the first administrator for any number of API      *)
(* processes.  Sessions rest on one fact about tokens: what the cookie,    *)
(* the requests in flight and the logouts name has been issued             *)
(* (SessionTypes), so that a login always makes a session nobody has       *)
(* logged out of.  The types need what each page of a tab implies of its   *)
(* user and its query (Paging).                                            *)
(***************************************************************************)
EXTENDS AdminAccess, FiniteSetTheorems, TLAPS

SessionTypes ==
  /\ issued \in Nat
  /\ sessions \subseteq 1..issued /\ expired \subseteq 1..issued /\ ended \subseteq 1..issued
  /\ cookie \in 0..issued
  /\ tab \in [Tabs -> TabStates(issued)]
  /\ posts \subseteq Calls(issued)

EndedAreGone == ended \cap sessions = {}

SInv == SessionTypes /\ EndedAreGone /\ SessionsEndForACause

(* A process that counts or creates has an e-mail of its environment.      *)
Bootstrapping ==
  /\ environment \in Settings
  /\ process \in [Processes -> {"down", "refused", "failed", "count", "create", "up"}]
  /\ \A p \in Processes : process[p] \in {"count", "create"} => environment[p].email \in Emails
  /\ admins \subseteq {Address[e] : e \in Emails}

(* A panel without a user is asking for one, because a tab goes there with *)
(* the user that its login left.                                           *)
Paging ==
  \A t \in Tabs :
    /\ tab[t].page = "panel" /\ ~ tab[t].me => tab[t].query # Idle
    /\ tab[t].page \in {"entering", "leaving"} => tab[t].me

Counted == left \in Bounds

-------------------------------------------------------------------------------
(* The states of a tab that the actions make.                              *)
LEMMA TabShapes ==
  ASSUME NEW n \in Nat, NEW s \in TabStates(n)
  PROVE  /\ \A page \in {"login", "entering", "panel", "leaving", "error"}, me \in BOOLEAN,
               query \in Queries(n) : [page |-> page, me |-> me, query |-> query] \in TabStates(n)
         /\ Idle \in Queries(n) /\ AtLogin \in TabStates(n)
         /\ \A page \in {"login", "panel", "leaving", "error"} :
              /\ [s EXCEPT !.page = page] \in TabStates(n)
              /\ \A query \in Queries(n) :
                   [s EXCEPT !.page = page, !.query = query] \in TabStates(n)
         /\ \A query \in Queries(n) : [s EXCEPT !.query = query] \in TabStates(n)
         /\ \A answer \in {"ok", "401"} : [s EXCEPT !.query.answer = answer] \in TabStates(n)
         /\ s \in TabStates(n + 1)
<1>1. Idle \in Queries(n)
  BY DEF Idle, Queries
<1>2. \A page \in {"login", "entering", "panel", "leaving", "error"}, me \in BOOLEAN,
        query \in Queries(n) : [page |-> page, me |-> me, query |-> query] \in TabStates(n)
  BY Zenon DEF TabStates
<1>3. AtLogin \in TabStates(n)
  BY <1>1, <1>2 DEF AtLogin
<1>4. \A page \in {"login", "panel", "leaving", "error"} :
        /\ [s EXCEPT !.page = page] \in TabStates(n)
        /\ \A query \in Queries(n) : [s EXCEPT !.page = page, !.query = query] \in TabStates(n)
  BY DEF TabStates
<1>5. \A query \in Queries(n) : [s EXCEPT !.query = query] \in TabStates(n)
  BY DEF TabStates
<1>6. \A answer \in {"ok", "401"} : [s EXCEPT !.query.answer = answer] \in TabStates(n)
  BY DEF TabStates, Queries
<1>7. Queries(n) \subseteq Queries(n + 1)
  BY DEF Queries
<1>8. s \in TabStates(n + 1)
  BY <1>7 DEF TabStates
<1> QED
  BY <1>1, <1>2, <1>3, <1>4, <1>5, <1>6, <1>8

(* A request keeps its shape when its tab gives it up or it is answered.   *)
LEMMA CallShapes ==
  ASSUME NEW n \in Nat, NEW c \in Calls(n)
  PROVE  /\ c.tab \in Tabs \cup {Nobody} /\ c.kind \in {"login", "logout"} /\ c.token \in 0..n
         /\ [c EXCEPT !.tab = Nobody] \in Calls(n)
         /\ \A token \in 0..n, answer \in {"ok", "401"} :
              [c EXCEPT !.token = token, !.answer = answer] \in Calls(n)
         /\ c \in Calls(n + 1)
<1>1. c.tab \in Tabs \cup {Nobody} /\ c.kind \in {"login", "logout"} /\ c.token \in 0..n
  BY DEF Calls
<1>2. [c EXCEPT !.tab = Nobody] \in Calls(n)
  BY DEF Calls
<1>3. ASSUME NEW token \in 0..n, NEW answer \in {"ok", "401"}
      PROVE  [c EXCEPT !.token = token, !.answer = answer] \in Calls(n)
  BY DEF Calls
<1>4. c \in Calls(n + 1)
  <2>1. 0..n \subseteq 0..(n + 1)
    OBVIOUS
  <2> QED
    BY <2>1 DEF Calls
<1> QED
  BY <1>1, <1>2, <1>3, <1>4

-------------------------------------------------------------------------------
LEMMA InitSessions == Init => SInv
BY DEF Init, SInv, SessionTypes, EndedAreGone, SessionsEndForACause, Closed, Idle,
       TabStates, Queries

(* A step that leaves the sessions alone.                                  *)
LEMMA BrowserStep ==
  ASSUME SInv, UNCHANGED sessionVars, cookie' \in 0..issued,
         tab' \in [Tabs -> TabStates(issued)], posts' \subseteq Calls(issued)
  PROVE  SInv'
BY DEF SInv, SessionTypes, EndedAreGone, SessionsEndForACause, sessionVars

LEMMA LogInSessions ==
  ASSUME SInv, NEW c \in posts, LogIn(c)
  PROVE  SInv'
<1>0. SessionTypes /\ issued \in Nat /\ c \in Calls(issued)
  BY DEF SInv, SessionTypes
<1>1. CASE Answers(c, c.token, "401") /\ UNCHANGED <<issued, sessions>>
  <2>1. posts' \subseteq Calls(issued)
    <3>1. [c EXCEPT !.token = c.token, !.answer = "401"] \in Calls(issued)
      BY <1>0 DEF Calls
    <3> QED
      BY <1>0, <1>1, <3>1 DEF Answers, SessionTypes
  <2> QED
    BY <1>0, <1>1, <2>1, BrowserStep DEF LogIn, SessionTypes, sessionVars
<1>2. CASE /\ issued' = issued + 1
           /\ sessions' = (sessions \ expired) \cup {issued + 1}
           /\ Answers(c, issued + 1, "ok")
  <2>1. posts' \subseteq Calls(issued')
    <3>1. \A d \in posts : d \in Calls(issued + 1)
      BY <1>0, CallShapes DEF SessionTypes
    <3>2. [c EXCEPT !.token = issued + 1, !.answer = "ok"] \in Calls(issued + 1)
      <4>1. c \in Calls(issued + 1) /\ issued + 1 \in 0..(issued + 1)
        BY <1>0, <3>1
      <4> QED
        BY <4>1 DEF Calls
    <3> QED
      BY <1>2, <3>1, <3>2 DEF Answers
  <2>2. tab' \in [Tabs -> TabStates(issued')]
    BY <1>0, <1>2, TabShapes DEF LogIn, SessionTypes
  <2>3. /\ sessions' \subseteq 1..issued' /\ expired' \subseteq 1..issued'
        /\ ended' \subseteq 1..issued' /\ cookie' \in 0..issued' /\ issued' \in Nat
    BY <1>0, <1>2 DEF LogIn, SessionTypes
  <2>4. EndedAreGone' /\ SessionsEndForACause'
    BY <1>0, <1>2 DEF LogIn, SInv, SessionTypes, EndedAreGone, SessionsEndForACause
  <2> QED
    BY <2>1, <2>2, <2>3, <2>4 DEF SInv, SessionTypes
<1> QED
  BY <1>1, <1>2 DEF LogIn

LEMMA LogOutSessions ==
  ASSUME SInv, NEW c \in posts, LogOut(c)
  PROVE  SInv'
<1>0. SessionTypes /\ issued \in Nat /\ c \in Calls(issued) /\ c.token \in 0..issued
  BY CallShapes DEF SInv, SessionTypes
<1>1. /\ sessions' = sessions \ {c.token} /\ ended' = ended \cup ({c.token} \ {0})
      /\ UNCHANGED <<issued, expired, cookie, tab>>
  BY DEF LogOut
<1>2. posts' \subseteq Calls(issued)
  <2>1. [c EXCEPT !.token = c.token, !.answer = "ok"] \in Calls(issued)
    BY <1>0 DEF Calls
  <2> QED
    BY <1>0, <2>1 DEF LogOut, Answers, SessionTypes
<1>3. {c.token} \ {0} \subseteq 1..issued
  BY <1>0
<1>4. SessionTypes'
  BY <1>0, <1>1, <1>2, <1>3 DEF SessionTypes
<1>5. EndedAreGone'
  BY <1>0, <1>1 DEF SInv, SessionTypes, EndedAreGone
<1>6. SessionsEndForACause'
  BY <1>0, <1>1 DEF SInv, SessionTypes, SessionsEndForACause
<1> QED
  BY <1>4, <1>5, <1>6 DEF SInv

LEMMA ArrivesSessions ==
  ASSUME SInv, NEW c \in posts, Arrives(c)
  PROVE  SInv'
<1>0. /\ SessionTypes /\ issued \in Nat /\ c \in Calls(issued) /\ cookie \in 0..issued
      /\ tab \in [Tabs -> TabStates(issued)] /\ posts \subseteq Calls(issued)
  BY DEF SInv, SessionTypes
<1>1. c.token \in 0..issued /\ [c EXCEPT !.tab = Nobody] \in Calls(issued)
  BY <1>0, CallShapes
<1>2. posts' \subseteq Calls(issued)
  BY <1>0, <1>1 DEF Arrives, LoggedIn, LoginRefused, LoggedOut, PostFails, Unheard
<1>3. cookie' \in 0..issued
  BY <1>0, <1>1 DEF Arrives, LoggedIn, LoginRefused, LoggedOut, PostFails, Unheard
<1>4. tab' \in [Tabs -> TabStates(issued)]
  <2>1. CASE LoggedIn(c)
    <3>1. [page |-> "entering", me |-> TRUE, query |-> Idle] \in TabStates(issued)
      BY <1>0 DEF TabStates, Queries, Idle
    <3> QED
      BY <1>0, <2>1, <3>1 DEF LoggedIn
  <2>2. CASE LoggedOut(c) \/ PostFails(c)
    <3>1. AtLogin \in TabStates(issued)
      BY <1>0 DEF AtLogin, TabStates, Queries, Idle
    <3> QED
      BY <1>0, <2>2, <3>1 DEF LoggedOut, PostFails
  <2>3. CASE LoginRefused(c) \/ Unheard(c)
    BY <1>0, <2>3 DEF LoginRefused, Unheard
  <2> QED
    BY <2>1, <2>2, <2>3 DEF Arrives
<1>5. UNCHANGED sessionVars
  BY DEF Arrives, LoggedIn, LoginRefused, LoggedOut, PostFails, Unheard
<1> QED
  BY <1>2, <1>3, <1>4, <1>5, BrowserStep

LEMMA BrowsesSessions ==
  ASSUME SInv, NEW t \in Tabs, Me(t) \/ Browses(t)
  PROVE  SInv'
<1>0. /\ SessionTypes /\ issued \in Nat /\ cookie \in 0..issued
      /\ tab \in [Tabs -> TabStates(issued)] /\ tab[t] \in TabStates(issued)
      /\ posts \subseteq Calls(issued) /\ tab[t].me \in BOOLEAN
  BY DEF SInv, SessionTypes, TabStates
<1>1. Asking \in Queries(issued) /\ Idle \in Queries(issued)
  BY <1>0 DEF Asking, Idle, Queries
<1>2. tab' \in [Tabs -> TabStates(issued)]
  <2>1. CASE Load(t)
    BY <1>0, <1>1, <2>1, TabShapes DEF Load
  <2>2. CASE Submit(t)
    BY <1>0, <2>2 DEF Submit
  <2>3. CASE Enter(t) \/ SignOut(t)
    <3>1. \A page \in {"login", "panel", "leaving"} :
            [tab[t] EXCEPT !.page = page] \in TabStates(issued)
      BY <1>0, TabShapes
    <3> QED
      BY <1>0, <2>3, <3>1 DEF Enter, SignOut
  <2>4. CASE Refetch(t)
    BY <1>0, <1>1, <2>4, TabShapes DEF Refetch
  <2>5. CASE Retry(t)
    BY <1>0, <1>1, <2>5, TabShapes DEF Retry
  <2>6. CASE MeAnswered(t) \/ MeFails(t)
    <3>1. PICK page \in {"login", "panel", "leaving", "error"}, me \in BOOLEAN :
            MeArrives(t, page, me)
      BY <1>0, <2>6 DEF MeAnswered, MeFails, Shown
    <3>2. [page |-> page, me |-> me, query |-> Idle] \in TabStates(issued)
      BY <1>0, <1>1, TabShapes
    <3> QED
      BY <1>0, <3>1, <3>2 DEF MeArrives
  <2>7. CASE Me(t)
    BY <1>0, <2>7, TabShapes DEF Me
  <2> QED
    BY <2>1, <2>2, <2>3, <2>4, <2>5, <2>6, <2>7 DEF Browses
<1>3. posts' \subseteq Calls(issued)
  <2>1. CASE Load(t)
    BY <1>0, <2>1, CallShapes DEF Load
  <2>2. CASE Submit(t) \/ SignOut(t)
    <3>1. \A kind \in {"login", "logout"} :
            [tab |-> t, kind |-> kind, token |-> cookie, answer |-> "none"] \in Calls(issued)
      BY <1>0 DEF Calls
    <3> QED
      BY <1>0, <2>2, <3>1 DEF Submit, SignOut, Posts
  <2> QED
    BY <1>0, <2>1, <2>2 DEF Browses, Me, Enter, Refetch, Retry, MeAnswered, MeFails
<1>4. UNCHANGED <<sessionVars, cookie>>
  BY DEF Browses, Me, Load, Submit, Enter, Refetch, SignOut, Retry, MeAnswered, MeFails
<1> QED
  BY <1>0, <1>2, <1>3, <1>4, BrowserStep

LEMMA NextSessions == SInv /\ [Next]_vars => SInv'
<1> SUFFICES ASSUME SInv, [Next]_vars PROVE SInv'
  OBVIOUS
<1>1. ASSUME NEW c \in posts, Serves(c) \/ Arrives(c) PROVE SInv'
  BY <1>1, LogInSessions, LogOutSessions, ArrivesSessions DEF Serves
<1>2. ASSUME NEW t \in Tabs, Me(t) \/ Browses(t) PROVE SInv'
  BY <1>2, BrowsesSessions
<1>3. ASSUME NEW token \in 1..issued, Expire(token) PROVE SInv'
  BY <1>3 DEF Expire, SInv, SessionTypes, EndedAreGone, SessionsEndForACause
<1>4. CASE CookieExpires
  BY <1>4 DEF CookieExpires, SInv, SessionTypes, EndedAreGone, SessionsEndForACause, sessionVars
<1>5. ASSUME NEW p \in Processes, Boots(p) \/ Stop(p) \/ FollowAdvice(p) PROVE SInv'
  BY <1>5 DEF Boots, Start, Count, CreateAdmin, Stop, FollowAdvice, SInv, SessionTypes,
              EndedAreGone, SessionsEndForACause, sessionVars
<1>6. CASE UNCHANGED vars
  BY <1>6 DEF vars, SInv, SessionTypes, EndedAreGone, SessionsEndForACause, sessionVars
<1> QED
  BY <1>1, <1>2, <1>3, <1>4, <1>5, <1>6 DEF Next

LEMMA SessionInvariance == Spec => []SInv
BY InitSessions, NextSessions, PTL DEF Spec

(* No session ends but by a logout that named it or by its time, however   *)
(* the tabs' logins and logouts are interleaved, in whatever order the API *)
(* handles them, and whichever tab is gone or answer lost meanwhile.       *)
THEOREM SessionsEndOnlyForACause == Spec => []SessionsEndForACause
BY SessionInvariance, PTL DEF SInv

(* What a step makes of the query of a tab, if the guard does not answer.  *)
LEMMA QueriesAreAsked ==
  ASSUME SInv, NEW t \in Tabs,
         \/ \E c \in posts : Serves(c) \/ Arrives(c)
         \/ \E u \in Tabs : Browses(u)
  PROVE  tab'[t].query \in {tab[t].query, Idle, Asking}
<1>0. tab \in [Tabs -> TabStates(issued)] /\ posts \subseteq Calls(issued)
  BY DEF SInv, SessionTypes
<1>1. ASSUME NEW c \in posts, Serves(c) \/ Arrives(c)
      PROVE  tab'[t].query \in {tab[t].query, Idle, Asking}
  <2>1. CASE Serves(c) \/ LoginRefused(c) \/ Unheard(c)
    BY <2>1 DEF Serves, LogIn, LogOut, LoginRefused, Unheard
  <2>2. CASE LoggedIn(c)
    BY <1>0, <2>2 DEF LoggedIn
  <2>3. CASE LoggedOut(c) \/ PostFails(c)
    BY <1>0, <2>3 DEF LoggedOut, PostFails, AtLogin
  <2> QED
    BY <1>1, <2>1, <2>2, <2>3 DEF Arrives
<1>2. ASSUME NEW u \in Tabs, Browses(u)
      PROVE  tab'[t].query \in {tab[t].query, Idle, Asking}
  <2>0. tab[u] \in TabStates(issued)
    BY <1>0
  <2>1. CASE Load(u)
    BY <1>0, <2>1 DEF Load, AtLogin
  <2>2. CASE Submit(u)
    BY <2>2 DEF Submit
  <2>3. CASE Enter(u) \/ SignOut(u)
    BY <1>0, <2>0, <2>3 DEF Enter, SignOut, TabStates
  <2>4. CASE Refetch(u) \/ Retry(u)
    BY <1>0, <2>0, <2>4 DEF Refetch, Retry, TabStates
  <2>5. CASE MeAnswered(u) \/ MeFails(u)
    BY <1>0, <2>5 DEF MeAnswered, MeFails, MeArrives
  <2> QED
    BY <1>2, <2>1, <2>2, <2>3, <2>4, <2>5 DEF Browses
<1> QED
  BY <1>1, <1>2

(* Only the guard admits, and it admits nobody who has logged out.         *)
LEMMA AdmittedAreNotEnded ==
  SInv /\ [Next]_vars =>
    \A t \in Tabs : Asks(t) /\ (tab[t].query.answer = "ok")' => tab[t].query.token \notin ended
<1> SUFFICES ASSUME SInv, [Next]_vars, NEW t \in Tabs, Asks(t), tab'[t].query.answer = "ok"
             PROVE  tab[t].query.token \notin ended
  OBVIOUS
<1>0. tab \in [Tabs -> TabStates(issued)]
  BY DEF SInv, SessionTypes
<1>1. tab'[t].query \notin {tab[t].query, Idle, Asking}
  BY DEF Asks, Idle, Asking
<1>2. ASSUME NEW u \in Tabs, Me(u) PROVE tab[t].query.token \notin ended
  <2>1. u = t
    BY <1>0, <1>1, <1>2 DEF Me
  <2>2. tab[t].query \in Queries(issued)
    BY <1>0 DEF TabStates
  <2>3. Valid(tab[t].query.token)
    BY <1>0, <1>2, <2>1, <2>2 DEF Me, TabStates, Queries
  <2> QED
    BY <2>3 DEF Valid, SInv, EndedAreGone
<1>3. tab' # tab
  BY <1>1
<1> QED
  BY <1>1, <1>2, <1>3, QueriesAreAsked
     DEF Next, Expire, CookieExpires, Boots, Start, Count, CreateAdmin, Stop, FollowAdvice, vars

(* The guard never admits a token that a logout has named, whichever tab   *)
(* asks, and whenever it sent the request.                                 *)
THEOREM SignedOutStaysOut == Spec => SignedOutIsRefused
<1>1. SInv /\ [Next]_vars =>
        [\A t \in Tabs :
           Asks(t) /\ (tab[t].query.answer = "ok")' => tab[t].query.token \notin ended]_vars
  BY AdmittedAreNotEnded
<1> QED
  BY SessionInvariance, <1>1, PTL DEF Spec, SignedOutIsRefused

-------------------------------------------------------------------------------
LEMMA BootstrapInvariance == Spec => []Bootstrapping
<1>1. Init => Bootstrapping
  BY AdminAssumption DEF Init, Bootstrapping, Settings, Settings, Settings, Settings
<1>2. Bootstrapping /\ [Next]_vars => Bootstrapping'
  <2> SUFFICES ASSUME Bootstrapping, [Next]_vars PROVE Bootstrapping'
    OBVIOUS
  <2> USE AdminAssumption DEF Bootstrapping, Settings, Settings, Settings, Settings
  <2>1. ASSUME NEW p \in Processes, Start(p) PROVE Bootstrapping'
    BY <2>1 DEF Start, GoesTo
  <2>2. ASSUME NEW p \in Processes, Count(p) PROVE Bootstrapping'
    BY <2>2 DEF Count, GoesTo
  <2>3. ASSUME NEW p \in Processes, CreateAdmin(p) PROVE Bootstrapping'
    BY <2>3 DEF CreateAdmin, GoesTo
  <2>4. ASSUME NEW p \in Processes, Stop(p) \/ FollowAdvice(p) PROVE Bootstrapping'
    BY <2>4 DEF Stop, FollowAdvice, GoesTo
  <2>5. CASE UNCHANGED bootVars
    BY <2>5 DEF bootVars
  <2> QED
    BY <2>1, <2>2, <2>3, <2>4, <2>5
       DEF Next, Boots, Serves, Arrives, LogIn, LogOut, Me, LoggedIn, LoginRefused, LoggedOut,
           PostFails, Unheard, Browses, Load, Submit, Enter, Refetch, SignOut, Retry, MeAnswered,
           MeFails, Expire, CookieExpires, vars
<1> QED
  BY <1>1, <1>2, PTL DEF Spec

(* However many processes start at once: if their environments name one    *)
(* address, in whatever spelling, there is one first administrator.        *)
THEOREM BootstrapCreatesOne ==
  ASSUME \A e, f \in Emails : Address[e] = Address[f]
  PROVE  Spec => []OneFirstAdmin
<1>1. Bootstrapping => OneFirstAdmin
  <2> SUFFICES ASSUME Bootstrapping PROVE OneFirstAdmin
    OBVIOUS
  <2>1. CASE admins = {}
    BY <2>1, FS_EmptySet DEF OneFirstAdmin
  <2>2. ASSUME NEW a \in admins PROVE admins = {a}
    BY <2>2 DEF Bootstrapping
  <2>3. ASSUME NEW a \in admins PROVE OneFirstAdmin
    BY <2>2, FS_Singleton DEF OneFirstAdmin
  <2> QED
    BY <2>1, <2>3
<1> QED
  BY BootstrapInvariance, <1>1, PTL
-------------------------------------------------------------------------------
LEMMA CountedInvariance == Spec => []Counted
<1>1. Init => Counted
  BY AdminAssumption DEF Init, Counted
<1>2. Counted /\ [Next]_vars => Counted'
  <2> SUFFICES ASSUME Counted, [Next]_vars PROVE Counted'
    OBVIOUS
  <2>1. ASSUME NEW bound \in {"starts", "logins", "faults"}, Spends(bound) PROVE Counted'
    BY <2>1 DEF Spends, Counted, Bounds
  <2>2. CASE UNCHANGED left
    BY <2>2 DEF Counted
  <2> QED
    BY <2>1, <2>2
       DEF Next, Boots, Start, Count, CreateAdmin, Stop, FollowAdvice, Serves, LogIn, LogOut,
           Arrives, LoggedIn, LoginRefused, LoggedOut, PostFails, Unheard, Me, Browses, Load,
           Submit, Enter, Refetch, SignOut, Retry, MeAnswered, MeFails, Expire, CookieExpires,
           vars
<1> QED
  BY <1>1, <1>2, PTL DEF Spec

(* The tab that a step changes, and what it may become.                    *)
LEMMA PagingStep ==
  ASSUME Paging, NEW t \in Tabs, NEW s, tab \in [Tabs -> TabStates(issued)],
         tab' = [tab EXCEPT ![t] = s],
         /\ s.page = "panel" /\ ~ s.me => s.query # Idle
         /\ s.page \in {"entering", "leaving"} => s.me
  PROVE  Paging'
BY DEF Paging

LEMMA ArrivesPaging ==
  ASSUME SInv, Paging, NEW c \in posts, Arrives(c)
  PROVE  Paging'
<1>0. tab \in [Tabs -> TabStates(issued)] /\ c.tab \in Tabs \cup {Nobody}
  BY CallShapes DEF SInv, SessionTypes
<1>1. CASE LoggedIn(c)
  BY <1>0, <1>1, PagingStep DEF LoggedIn
<1>2. CASE LoggedOut(c) \/ (PostFails(c) /\ tab' # tab)
  BY <1>0, <1>2, PagingStep DEF LoggedOut, PostFails, AtLogin
<1>3. CASE UNCHANGED tab
  BY <1>3 DEF Paging
<1> QED
  BY <1>1, <1>2, <1>3 DEF Arrives, LoginRefused, Unheard

LEMMA BrowsesPaging ==
  ASSUME SInv, Paging, NEW t \in Tabs, Me(t) \/ Browses(t)
  PROVE  Paging'
<1>0. tab \in [Tabs -> TabStates(issued)] /\ tab[t] \in TabStates(issued)
  BY DEF SInv, SessionTypes
<1>1. CASE Me(t)
  <2>1. PICK answer \in {"ok", "401"} : tab' = [tab EXCEPT ![t].query.answer = answer]
    BY <1>1 DEF Me
  <2> DEFINE s == [tab[t] EXCEPT !.query.answer = answer]
  <2>2. tab' = [tab EXCEPT ![t] = s]
    BY <1>0, <2>1
  <2>3. s.page = tab[t].page /\ s.me = tab[t].me /\ s.query.answer = answer
    BY <1>0 DEF TabStates, Queries
  <2>4. s.query # Idle
    BY <2>3 DEF Idle
  <2> HIDE DEF s
  <2> QED
    BY <1>0, <2>2, <2>3, <2>4, PagingStep DEF Paging
<1>2. CASE Load(t)
  BY <1>0, <1>2, PagingStep DEF Load, AtLogin, Asking, Idle
<1>3. CASE Enter(t)
  <2> DEFINE s == [tab[t] EXCEPT !.page = IF cookie = 0 THEN "login" ELSE "panel"]
  <2>1. tab' = [tab EXCEPT ![t] = s] /\ tab[t].me
    BY <1>0, <1>3 DEF Enter, Paging
  <2>2. s.me = tab[t].me /\ s.page \in {"login", "panel"}
    BY <1>0 DEF TabStates
  <2> HIDE DEF s
  <2> QED
    BY <1>0, <2>1, <2>2, PagingStep
<1>4. CASE SignOut(t)
  <2> DEFINE s == [tab[t] EXCEPT !.page = "leaving"]
  <2>1. tab' = [tab EXCEPT ![t] = s] /\ tab[t].me
    BY <1>0, <1>4 DEF SignOut
  <2>2. s.me = tab[t].me /\ s.page = "leaving"
    BY <1>0 DEF TabStates
  <2> HIDE DEF s
  <2> QED
    BY <1>0, <2>1, <2>2, PagingStep
<1>5. CASE Refetch(t)
  <2> DEFINE s == [tab[t] EXCEPT !.query = Asking]
  <2>1. tab' = [tab EXCEPT ![t] = s]
    BY <1>0, <1>5 DEF Refetch
  <2>2. s.me = tab[t].me /\ s.page = tab[t].page /\ s.query # Idle
    BY <1>0 DEF TabStates, Asking, Idle
  <2> HIDE DEF s
  <2> QED
    BY <1>0, <2>1, <2>2, PagingStep DEF Paging
<1>6. CASE Retry(t)
  <2> DEFINE s == [tab[t] EXCEPT !.page = IF tab[t].me THEN "error" ELSE "panel",
                                 !.query = Asking]
  <2>1. tab' = [tab EXCEPT ![t] = s]
    BY <1>0, <1>6 DEF Retry
  <2>2. s.page \in {"error", "panel"} /\ s.query # Idle
    BY <1>0 DEF TabStates, Asking, Idle
  <2> HIDE DEF s
  <2> QED
    BY <1>0, <2>1, <2>2, PagingStep
<1>7. CASE MeAnswered(t) \/ MeFails(t)
  BY <1>0, <1>7, PagingStep DEF MeAnswered, MeFails, MeArrives, Shown
<1>8. CASE Submit(t)
  BY <1>8 DEF Submit, Paging
<1> QED
  BY <1>1, <1>2, <1>3, <1>4, <1>5, <1>6, <1>7, <1>8 DEF Browses

LEMMA NextPaging == SInv /\ Paging /\ [Next]_vars => Paging'
<1> SUFFICES ASSUME SInv, Paging, [Next]_vars PROVE Paging'
  OBVIOUS
<1>1. CASE UNCHANGED tab
  BY <1>1 DEF Paging
<1> QED
  BY <1>1, ArrivesPaging, BrowsesPaging
     DEF Next, Serves, LogIn, LogOut, Expire, CookieExpires, Boots, Start, Count, CreateAdmin,
         Stop, FollowAdvice, vars

(* Types, and a panel that shows no user yet is waiting for the answer to  *)
(* its request: no tab stays at the validation without asking.             *)
THEOREM TypeCorrect == Spec => []TypeOK
<1>1. Init => Paging
  BY DEF Init, Paging, Closed
<1>2. SInv /\ Paging /\ Bootstrapping /\ Counted => TypeOK
  BY AdminAssumption DEF SInv, SessionTypes, Paging, Bootstrapping, Counted, TypeOK
<1> QED
  BY SessionInvariance, BootstrapInvariance, CountedInvariance, <1>1, NextPaging, <1>2, PTL
     DEF Spec
===============================================================================
