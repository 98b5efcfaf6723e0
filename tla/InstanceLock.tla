---------------------------- MODULE InstanceLock ----------------------------
(***************************************************************************)
(* The lock file that keeps a machine to one Agent process:                *)
(* acquireAgentSingleInstanceLock, and its release at the end of main      *)
(* (apps/agent/src/runtime/agent-single-instance-lock.ts, cli.ts).         *)
(*                                                                         *)
(* The file is created exclusively, and its content, the PID of the owner, *)
(* is written by a second call: between the two the file is there and      *)
(* says nothing.  A process that finds the file reads it, decides, and     *)
(* removes it if it takes it for stale; each call is an action, for other  *)
(* processes run in between.  A write goes to the file the process has     *)
(* created, also when that file has been removed and its name belongs to   *)
(* another.                                                                *)
(*                                                                         *)
(* A process is its PID and runs once; PIDs are not used again.            *)
(***************************************************************************)
EXTENDS Naturals

CONSTANTS
    Processes,  \* the processes started in the life of the machine
    NoPid,      \* an unreadable PID
    NoFile

ASSUME LockAssumption ==
    /\ NoPid \notin Processes
    /\ NoFile \notin [creator : Processes, pid : Processes \cup {NoPid}]

VARIABLES
    file,     \* what the name of the lock file denotes
    pc,       \* where each process is
    attempt,  \* the pass of the loop, 0 or 1
    existingPid,
    met,      \* history: the others alive at some time since p was started
    found     \* history: the undisputed owners p was started under

vars == <<file, pc, attempt, existingPid, met, found>>

Trying == {"open", "write", "read", "decide", "remove"}
Alive(p) == pc[p] \in Trying \cup {"owner"}

TypeOK ==
    /\ file \in {NoFile} \cup [creator : Processes, pid : Processes \cup {NoPid}]
    /\ pc \in [Processes -> Trying \cup {"off", "owner", "refused", "gone"}]
    /\ attempt \in [Processes -> 0..1]
    /\ existingPid \in [Processes -> Processes \cup {NoPid}]
    /\ met \in [Processes -> SUBSET Processes]
    /\ found \in [Processes -> SUBSET Processes]

Init ==
    /\ file = NoFile
    /\ pc = [p \in Processes |-> "off"]
    /\ attempt = [p \in Processes |-> 0]
    /\ existingPid = [p \in Processes |-> NoPid]
    /\ met = [p \in Processes |-> {}]
    /\ found = [p \in Processes |-> {}]

(* q owns the lock, its PID is in the file, and nobody else is about.      *)
Undisputed(q) ==
    /\ pc[q] = "owner"
    /\ file = [creator |-> q, pid |-> q]
    /\ \A r \in Processes \ {q} : ~Alive(r)

Start(p) ==
    /\ pc[p] = "off"
    /\ pc' = [pc EXCEPT ![p] = "open"]
    /\ met' = [q \in Processes |->
                  CASE q = p -> {r \in Processes : Alive(r)}
                    [] q # p /\ Alive(q) -> met[q] \cup {p}
                    [] OTHER -> met[q]]
    /\ found' = [found EXCEPT ![p] = {q \in Processes : Undisputed(q)}]
    /\ UNCHANGED <<file, attempt, existingPid>>

(* Mutant: opened with 'w'.                                                *)
OpenOverwriting(p) ==
    /\ pc[p] = "open"
    /\ file' = [creator |-> p, pid |-> NoPid]
    /\ pc' = [pc EXCEPT ![p] = "write"]
    /\ UNCHANGED <<attempt, existingPid, met, found>>

(* open(filePath, 'wx')                                                    *)
Open(p) ==
    /\ pc[p] = "open"
    /\ IF file = NoFile
         THEN /\ file' = [creator |-> p, pid |-> NoPid]
              /\ pc' = [pc EXCEPT ![p] = "write"]
         ELSE pc' = [pc EXCEPT ![p] = "read"] /\ UNCHANGED file
    /\ UNCHANGED <<attempt, existingPid, met, found>>

WritePid(p) ==
    /\ pc[p] = "write"
    /\ pc' = [pc EXCEPT ![p] = "owner"]
    /\ file' = IF file # NoFile /\ file.creator = p THEN [file EXCEPT !.pid = p]
                                                    ELSE file
    /\ UNCHANGED <<attempt, existingPid, met, found>>

(* readPid: null for a file that is gone, or empty.                        *)
ReadPid(p) ==
    /\ pc[p] = "read"
    /\ pc' = [pc EXCEPT ![p] = "decide"]
    /\ existingPid' = [existingPid EXCEPT ![p] = IF file = NoFile THEN NoPid
                                                                  ELSE file.pid]
    /\ UNCHANGED <<file, attempt, met, found>>

IsProcessRunning(pid) == pid # NoPid /\ Alive(pid)

(* Mutant: a lock file without a readable PID is respected.                *)
DecideTrustingEmpty(p) ==
    /\ pc[p] = "decide"
    /\ pc' = [pc EXCEPT ![p] =
                IF existingPid[p] = NoPid \/ Alive(existingPid[p]) THEN "refused"
                                                                 ELSE "remove"]
    /\ UNCHANGED <<file, attempt, existingPid, met, found>>

Decide(p) ==
    /\ pc[p] = "decide"
    /\ pc' = [pc EXCEPT ![p] =
                IF IsProcessRunning(existingPid[p]) \/ attempt[p] = 1
                  THEN "refused" ELSE "remove"]
    /\ UNCHANGED <<file, attempt, existingPid, met, found>>

(* rm(filePath): whatever file has the name by now.                        *)
Remove(p) ==
    /\ pc[p] = "remove"
    /\ file' = NoFile
    /\ attempt' = [attempt EXCEPT ![p] = @ + 1]
    /\ pc' = [pc EXCEPT ![p] = "open"]
    /\ UNCHANGED <<existingPid, met, found>>

(* main is over: the lock is released, whosever file it is.                *)
Release(p) ==
    /\ pc[p] = "owner"
    /\ file' = NoFile
    /\ pc' = [pc EXCEPT ![p] = "gone"]
    /\ UNCHANGED <<attempt, existingPid, met, found>>

(* The process is killed, or a file operation throws: the file stays.      *)
Crash(p) ==
    /\ Alive(p)
    /\ pc' = [pc EXCEPT ![p] = "gone"]
    /\ UNCHANGED <<file, attempt, existingPid, met, found>>

Acquire(p) == Open(p) \/ WritePid(p) \/ ReadPid(p) \/ Decide(p) \/ Remove(p)

Next == \E p \in Processes : Start(p) \/ Acquire(p) \/ Release(p) \/ Crash(p)

(* A file operation that was started comes to an end.                      *)
Spec == Init /\ [][Next]_vars /\ \A p \in Processes : WF_vars(Acquire(p))

-----------------------------------------------------------------------------
(* Properties *)

(* What the test at agent-single-instance-lock.test.ts:13 says of the      *)
(* lock: a second process does not acquire it while the first lives.       *)
SingleOwner ==
    \A p, q \in Processes : pc[p] = "owner" /\ pc[q] = "owner" => p = q

(* What is true of it: a process started under an owner that was alone and *)
(* whose PID was in the file does not become an owner beside it, however   *)
(* many are started at the same time, and whatever becomes of them.        *)
SettledLockIsRespected ==
    \A p \in Processes :
        pc[p] = "owner" => \A q \in found[p] : pc[q] # "owner"

(* Whatever dead processes have left behind, their PID or an empty file, a *)
(* process that is started afterwards and meets no other gets the lock.    *)
StaleLockIsReclaimed ==
    \A p \in Processes :
        pc[p] = "open" /\ met[p] = {} ~>
            pc[p] \in {"owner", "gone"} \/ met[p] # {}
=============================================================================
