-------------------------- MODULE InstanceLockProofs --------------------------
(***************************************************************************)
(* The lock of the agent for any number of processes.  That a settled lock *)
(* is respected follows from what a settled owner can rely on: while it    *)
(* lives the file carries its PID, and everybody else is on the way to     *)
(* read it, or has read it (SettledOwnersAreSeen).                         *)
(***************************************************************************)
EXTENDS InstanceLock, TLAPS

LockFile == [creator : Processes, pid : Processes \cup {NoPid}]
Settled(q) == pc[q] = "owner" /\ \E p \in Processes : q \in found[p]

(* An owner that somebody was started under is still the owner, or over.   *)
FoundWereOwners ==
    \A p \in Processes : \A q \in found[p] : q # p /\ pc[q] \in {"owner", "gone"}

SettledOwnersAreSeen ==
    \A q \in Processes : Settled(q) =>
        /\ file = [creator |-> q, pid |-> q]
        /\ \A r \in Processes \ {q} :
              /\ pc[r] \notin {"write", "remove", "owner"}
              /\ pc[r] = "decide" => existingPid[r] = q

(* Who is about to remove the file a second time has been refused before.  *)
AttemptsCounted ==
    \A p \in Processes : pc[p] = "remove" => attempt[p] = 0

IInv == TypeOK /\ AttemptsCounted /\ FoundWereOwners /\ SettledOwnersAreSeen

-------------------------------------------------------------------------------
LEMMA InitIInv == Init => IInv
BY DEF Init, IInv, TypeOK, AttemptsCounted, FoundWereOwners, SettledOwnersAreSeen, Settled, Trying

LEMMA NextType == TypeOK /\ AttemptsCounted /\ [Next]_vars => TypeOK' /\ AttemptsCounted'
<1> SUFFICES ASSUME TypeOK, AttemptsCounted, [Next]_vars
             PROVE  TypeOK' /\ AttemptsCounted'
  OBVIOUS
<1> USE LockAssumption DEF TypeOK, AttemptsCounted, Trying, LockFile
<1>1. ASSUME NEW p \in Processes, Start(p) PROVE TypeOK' /\ AttemptsCounted'
  <2>1. met' \in [Processes -> SUBSET Processes]
    BY <1>1 DEF Start
  <2>2. found' \in [Processes -> SUBSET Processes]
    BY <1>1 DEF Start
  <2> QED
    BY <1>1, <2>1, <2>2 DEF Start
<1>2. ASSUME NEW p \in Processes, Open(p) PROVE TypeOK' /\ AttemptsCounted'
  BY <1>2 DEF Open
<1>3. ASSUME NEW p \in Processes, WritePid(p) PROVE TypeOK' /\ AttemptsCounted'
  <2>1. file' \in {NoFile} \cup LockFile
    BY <1>3 DEF WritePid
  <2> QED
    BY <1>3, <2>1 DEF WritePid
<1>4. ASSUME NEW p \in Processes, ReadPid(p) PROVE TypeOK' /\ AttemptsCounted'
  BY <1>4 DEF ReadPid
<1>5. ASSUME NEW p \in Processes, Decide(p) PROVE TypeOK' /\ AttemptsCounted'
  BY <1>5 DEF Decide
<1>6. ASSUME NEW p \in Processes, Remove(p) PROVE TypeOK' /\ AttemptsCounted'
  BY <1>6 DEF Remove
<1>7. ASSUME NEW p \in Processes, Release(p) \/ Crash(p) PROVE TypeOK' /\ AttemptsCounted'
  BY <1>7 DEF Release, Crash
<1>8. CASE UNCHANGED vars
  BY <1>8 DEF vars
<1> QED
  BY <1>1, <1>2, <1>3, <1>4, <1>5, <1>6, <1>7, <1>8 DEF Next, Acquire

LEMMA NextFound == TypeOK /\ FoundWereOwners /\ [Next]_vars => FoundWereOwners'
<1> SUFFICES ASSUME TypeOK, FoundWereOwners, [Next]_vars PROVE FoundWereOwners'
  OBVIOUS
<1> USE DEF TypeOK, FoundWereOwners
<1>1. ASSUME NEW p \in Processes, Start(p) PROVE FoundWereOwners'
  BY <1>1 DEF Start, Undisputed
<1>2. ASSUME NEW p \in Processes, Acquire(p) PROVE FoundWereOwners'
  BY <1>2 DEF Acquire, Open, WritePid, ReadPid, Decide, Remove
<1>3. ASSUME NEW p \in Processes, Release(p) \/ Crash(p) PROVE FoundWereOwners'
  BY <1>3 DEF Release, Crash
<1>4. CASE UNCHANGED vars
  BY <1>4 DEF vars
<1> QED
  BY <1>1, <1>2, <1>3, <1>4 DEF Next

(* A settled owner stays visible: no step of another process touches the   *)
(* file, and one that reads it finds the owner's PID.                      *)
LEMMA NextSeen == IInv /\ [Next]_vars => SettledOwnersAreSeen'
<1> SUFFICES ASSUME IInv, [Next]_vars, NEW q \in Processes, Settled(q)'
             PROVE  /\ file' = [creator |-> q, pid |-> q]
                    /\ \A r \in Processes \ {q} :
                          /\ pc'[r] \notin {"write", "remove", "owner"}
                          /\ pc'[r] = "decide" => existingPid'[r] = q
  BY DEF SettledOwnersAreSeen
<1>0. TypeOK /\ FoundWereOwners /\ SettledOwnersAreSeen
  BY DEF IInv
<1> USE LockAssumption DEF TypeOK, Trying, Alive
<1>1. ASSUME NEW p \in Processes, Start(p) PROVE Settled(q) \/ Undisputed(q)
  BY <1>0, <1>1 DEF Start, Settled
<1>2. ASSUME found' = found PROVE pc[q] = "owner" => Settled(q)
  BY <1>2 DEF Settled
<1>3. ASSUME NEW p \in Processes, Start(p)
      PROVE  /\ file' = [creator |-> q, pid |-> q]
             /\ \A r \in Processes \ {q} :
                   /\ pc'[r] \notin {"write", "remove", "owner"}
                   /\ pc'[r] = "decide" => existingPid'[r] = q
  <2>1. file = [creator |-> q, pid |-> q] /\
        \A r \in Processes \ {q} :
           /\ pc[r] \notin {"write", "remove", "owner"}
           /\ pc[r] = "decide" => existingPid[r] = q
    BY <1>0, <1>1, <1>3 DEF Undisputed, SettledOwnersAreSeen
  <2> QED
    BY <1>0, <1>3, <2>1 DEF Start
<1>4. ASSUME found' = found PROVE Settled(q)
  BY <1>0, <1>4 DEF Settled, FoundWereOwners, Next, Acquire, Start, Open, WritePid, ReadPid, Decide,
                    Remove, Release, Crash, vars
<1>5. ASSUME found' = found
      PROVE  /\ file = [creator |-> q, pid |-> q] /\ pc[q] = "owner"
             /\ \A r \in Processes \ {q} :
                   /\ pc[r] \notin {"write", "remove", "owner"}
                   /\ pc[r] = "decide" => existingPid[r] = q
  BY <1>0, <1>4, <1>5 DEF SettledOwnersAreSeen, Settled
<1>6. ASSUME NEW p \in Processes, Acquire(p)
      PROVE  /\ file' = [creator |-> q, pid |-> q]
             /\ \A r \in Processes \ {q} :
                   /\ pc'[r] \notin {"write", "remove", "owner"}
                   /\ pc'[r] = "decide" => existingPid'[r] = q
  <2>1. found' = found /\ p # q
    BY <1>5, <1>6 DEF Acquire, Open, WritePid, ReadPid, Decide, Remove
  <2>2. file # NoFile /\ file.pid = q
    BY <1>5, <2>1
  <2>3. CASE Open(p) \/ ReadPid(p)
    BY <1>0, <1>5, <2>1, <2>2, <2>3 DEF Open, ReadPid
  <2>4. CASE Decide(p)
    <3>1. existingPid[p] = q /\ IsProcessRunning(existingPid[p])
      BY <1>5, <2>1, <2>4 DEF Decide, IsProcessRunning
    <3> QED
      BY <1>0, <1>5, <2>1, <2>4, <3>1 DEF Decide
  <2>5. CASE WritePid(p) \/ Remove(p)
    BY <1>5, <2>1, <2>5 DEF WritePid, Remove
  <2> QED
    BY <1>6, <2>3, <2>4, <2>5 DEF Acquire
<1>7. ASSUME NEW p \in Processes, Release(p) \/ Crash(p)
      PROVE  /\ file' = [creator |-> q, pid |-> q]
             /\ \A r \in Processes \ {q} :
                   /\ pc'[r] \notin {"write", "remove", "owner"}
                   /\ pc'[r] = "decide" => existingPid'[r] = q
  <2>1. p # q
    BY <1>0, <1>7 DEF Release, Crash, Settled
  <2> QED
    BY <1>0, <1>5, <1>7, <2>1 DEF Release, Crash
<1>8. CASE UNCHANGED vars
  BY <1>5, <1>8 DEF vars
<1> QED
  BY <1>3, <1>6, <1>7, <1>8 DEF Next

LEMMA Invariance == Spec => []IInv
<1>1. IInv /\ [Next]_vars => IInv'
  BY NextType, NextFound, NextSeen DEF IInv
<1> QED
  BY InitIInv, <1>1, PTL DEF Spec

(* Types, and with them the bound of the loop: nobody tries a third time.  *)
THEOREM TypeCorrect == Spec => []TypeOK
BY Invariance, PTL DEF IInv

(* A process that starts when the owner's PID is in the file and no other  *)
(* process is alive (Undisputed) does not become an owner beside it,       *)
(* however many start after it.  With another process alive that found an  *)
(* earlier lock stale, and is about to remove it, this does not hold.      *)
THEOREM SettledLockHolds == Spec => []SettledLockIsRespected
<1>1. IInv => SettledLockIsRespected
  BY DEF IInv, TypeOK, FoundWereOwners, SettledOwnersAreSeen, Settled, SettledLockIsRespected
<1> QED
  BY Invariance, <1>1, PTL
===============================================================================
