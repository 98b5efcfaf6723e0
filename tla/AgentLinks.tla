----------------------------- MODULE AgentLinks -----------------------------
(***************************************************************************)
(* What enrollment promises.  An agent has at most one activation code     *)
(* that counts, the last one issued for it; the code is exchanged, once,   *)
(* for a credential nobody had before, and that credential alone is the    *)
(* link of the agent from then on, until it is revoked or the next code is *)
(* exchanged.  Nothing here knows of requests, machines, transactions or   *)
(* lost answers: module AgentAccess implements this specification.         *)
(***************************************************************************)
EXTENDS Naturals

CONSTANTS Agents, Codes, Tokens

VARIABLES
    issued,   \* the codes that were ever issued
    current,  \* current[a]: the code that counts for a, or 0
    bought,   \* bought[c]: the credential c was exchanged for, or 0
    link      \* link[a]: the enrolled credential that speaks for a, or 0

vars == <<issued, current, bought, link>>

Init ==
    /\ issued = {}
    /\ current = [a \in Agents |-> 0]
    /\ bought = [c \in Codes |-> 0]
    /\ link = [a \in Agents |-> 0]

Issue(a) == \E c \in Codes \ issued :
    /\ issued' = issued \cup {c}
    /\ current' = [current EXCEPT ![a] = c]
    /\ UNCHANGED <<bought, link>>

Exchange(a) == \E t \in Tokens :
    /\ current[a] # 0
    /\ \A c \in Codes : bought[c] # t
    /\ bought[current[a]] = 0
    /\ bought' = [bought EXCEPT ![current[a]] = t]
    /\ link' = [link EXCEPT ![a] = t]
    /\ current' = [current EXCEPT ![a] = 0]
    /\ UNCHANGED issued

Unlink(a) ==
    /\ link[a] # 0
    /\ link' = [link EXCEPT ![a] = 0]
    /\ UNCHANGED <<issued, current, bought>>

Next == \E a \in Agents : Issue(a) \/ Exchange(a) \/ Unlink(a)

Spec == Init /\ [][Next]_vars
=============================================================================
