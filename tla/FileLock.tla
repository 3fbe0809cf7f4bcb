------------------------------ MODULE FileLock ------------------------------
(***************************************************************************)
(* The cross-process lock of src/storage/file-lock.ts: a lock is a         *)
(* directory next to the file it protects, published by renaming a         *)
(* complete private claim directory over the lock path, released by        *)
(* removing the owner marker and then the empty directory, and reclaimed   *)
(* by any waiter once the owner's process is known to be dead.             *)
(*                                                                         *)
(* Every file system call is one atomic step, so all interleavings of the  *)
(* calls of the processes are explored; a process can die between any two  *)
(* of its calls.  The marker of a claim carries the claim's own unique     *)
(* name (a random UUID in the code), here the pair of the process and the  *)
(* number of its call to withFileLockSync.                                 *)
(***************************************************************************)
EXTENDS Naturals

CONSTANTS Procs,            \* operating system processes, named by their pid
          MaxCalls,         \* bound: calls of withFileLockSync per process
          RenameOverEmpty,  \* TRUE on POSIX: rename replaces an empty directory
          PidReuse,         \* TRUE: a new process may get the pid of a dead one
          LegacyMarker      \* the owner.json of the previous lock format

ASSUME MaxCallsAssumption == MaxCalls \in Nat
ASSUME PlatformAssumption == RenameOverEmpty \in BOOLEAN /\ PidReuse \in BOOLEAN

Claims == Procs \X (1 .. MaxCalls)

ASSUME LegacyAssumption == LegacyMarker \notin Claims

\* What a lock directory may contain, and what readOwner can report.
Markers == Claims \cup {LegacyMarker}
None == <<>>
ASSUME NoneAssumption == None \notin Markers

VARIABLES lockDir,   \* is the lock path "absent" or "present"
          markers,   \* the files in the lock directory
          pc,        \* where each process is in withFileLockSync
          calls,     \* how often each process has called withFileLockSync
          listed,    \* the one file name readdirSync returned inside readOwner
          observed,  \* the owner whose liveness a waiter is about to test
          live       \* the processes that are running

vars == <<lockDir, markers, pc, calls, listed, observed, live>>

\* The claim of the call that process p is in (owner.instance).
Claim(p) == <<p, calls[p]>>

Waiting == {"rename", "exists", "list", "read", "probe", "relist", "reread",
            "unlink", "rmdir", "rmdirEmpty"}
Holding == {"work", "checkList", "checkRead", "retire"}
Stages == {"idle", "retired", "changed", "dead"} \cup Waiting \cup Holding

TypeOK == /\ lockDir \in {"absent", "present"}
          /\ markers \in SUBSET Markers
          /\ pc \in [Procs -> Stages]
          /\ calls \in [Procs -> 0 .. MaxCalls]
          /\ listed \in [Procs -> Markers \cup {None}]
          /\ observed \in [Procs -> Markers \cup {None}]
          /\ live \in SUBSET Procs

\* The lock path may be absent, left empty by a process that died between
\* retiring its marker and rmdir, or hold a lock of the previous version.
Init == /\ \/ lockDir = "absent" /\ markers = {}
           \/ lockDir = "present" /\ markers \in {{}, {LegacyMarker}}
        /\ pc = [p \in Procs |-> "idle"]
        /\ calls = [p \in Procs |-> 0]
        /\ listed = [p \in Procs |-> None]
        /\ observed = [p \in Procs |-> None]
        /\ live = Procs

-----------------------------------------------------------------------------
Goto(p, stage) == pc' = [pc EXCEPT ![p] = stage]

lockUnchanged == UNCHANGED <<lockDir, markers>>

\* rmdirSync succeeds on an empty directory only; every other outcome leaves
\* the path as it is (removeEmptyLock).
RemoveEmptyLock == /\ lockDir' = IF markers = {} THEN "absent" ELSE lockDir
                   /\ UNCHANGED markers

\* The file readdirSync reports when the directory holds exactly one.
OnlyFile == IF \E m \in markers : markers = {m}
            THEN CHOOSE m \in markers : TRUE
            ELSE None

\* readOwner, first system call: readdirSync.
List(p, stage) == /\ listed' = [listed EXCEPT ![p] = OnlyFile]
                  /\ Goto(p, stage)
                  /\ lockUnchanged
                  /\ UNCHANGED <<calls, observed, live>>

\* readOwner, second system call: readFileSync of the listed name. A file
\* that is gone by now, and a marker that is not an owner record of this
\* version, read as null.
ReadOwner(p) == IF listed[p] \in markers \cap Claims THEN listed[p] ELSE None

-----------------------------------------------------------------------------

\* A process builds its claim directory off to the side; nobody else sees it.
PrepareClaim(p) == /\ pc[p] = "idle"
                   /\ calls[p] < MaxCalls
                   /\ calls' = [calls EXCEPT ![p] = @ + 1]
                   /\ Goto(p, "rename")
                   /\ lockUnchanged
                   /\ UNCHANGED <<listed, observed, live>>

\* renameSync(claimPath, lockPath)
RenameClaim(p) ==
    /\ pc[p] = "rename"
    /\ IF lockDir = "absent" \/ (RenameOverEmpty /\ markers = {})
       THEN /\ lockDir' = "present"
            /\ markers' = {Claim(p)}
            /\ Goto(p, "work")
       ELSE lockUnchanged /\ Goto(p, "exists")
    /\ UNCHANGED <<calls, listed, observed, live>>

\* The call throws before it published anything - the deadline passed at the
\* head of the retry loop, or a file system call failed for a reason other
\* than contention - and removes its private claim directory.
AcquisitionFails(p) ==
    /\ pc[p] \in {"rename", "exists", "unlink", "rmdir", "rmdirEmpty"}
    /\ Goto(p, "idle")
    /\ lockUnchanged
    /\ UNCHANGED <<calls, listed, observed, live>>

\* existsSync(lockPath) after the rename was refused.
LookAtLock(p) == /\ pc[p] = "exists"
                 /\ Goto(p, IF lockDir = "present" THEN "list" ELSE "rename")
                 /\ lockUnchanged
                 /\ UNCHANGED <<calls, listed, observed, live>>

ListLock(p) == pc[p] = "list" /\ List(p, "read")

\* observed = readOwner(lockPath), and the branch on it.
ReadLockOwner(p) ==
    /\ pc[p] = "read"
    /\ observed' = [observed EXCEPT ![p] = ReadOwner(p)]
    /\ Goto(p, IF ReadOwner(p) = None THEN "rmdirEmpty" ELSE "probe")
    /\ lockUnchanged
    /\ UNCHANGED <<calls, listed, live>>

\* Faulty: an ownerless directory is left for somebody else to remove.
LeaveOwnerless(p) == /\ pc[p] = "rmdirEmpty"
                     /\ Goto(p, "rename")
                     /\ lockUnchanged
                     /\ UNCHANGED <<calls, listed, observed, live>>

\* An ownerless directory: finish the removal its last owner left undone.
RemoveOwnerless(p) == /\ pc[p] = "rmdirEmpty"
                      /\ RemoveEmptyLock
                      /\ Goto(p, "rename")
                      /\ UNCHANGED <<calls, listed, observed, live>>

\* reclaimDeadLock: isAlive(observed.pid)
ProbeOwner(p) == /\ pc[p] = "probe"
                 /\ Goto(p, IF observed[p][1] \in live THEN "rename" ELSE "relist")
                 /\ lockUnchanged
                 /\ UNCHANGED <<calls, listed, observed, live>>

RelistLock(p) == pc[p] = "relist" /\ List(p, "reread")

\* reclaimDeadLock: the owner must still be the one that was observed.
RereadOwner(p) ==
    /\ pc[p] = "reread"
    /\ Goto(p, IF ReadOwner(p) = observed[p] THEN "unlink" ELSE "rename")
    /\ lockUnchanged
    /\ UNCHANGED <<calls, listed, observed, live>>

\* Faulty: the stable lock path is emptied, whoever owns it by now.
UnlinkAnyMarker(p) ==
    /\ pc[p] = "unlink"
    /\ markers' = {}
    /\ Goto(p, "rmdir")
    /\ UNCHANGED <<lockDir, calls, listed, observed, live>>

\* reclaimDeadLock: unlinkSync of the observed generation's own marker.
UnlinkDeadMarker(p) ==
    /\ pc[p] = "unlink"
    /\ markers' = markers \ {observed[p]}
    /\ Goto(p, IF observed[p] \in markers THEN "rmdir" ELSE "rename")
    /\ UNCHANGED <<lockDir, calls, listed, observed, live>>

RemoveReclaimed(p) == /\ pc[p] = "rmdir"
                      /\ RemoveEmptyLock
                      /\ Goto(p, "rename")
                      /\ UNCHANGED <<calls, listed, observed, live>>

-----------------------------------------------------------------------------
\* work() returned or threw; the finally block starts.
FinishWork(p) == /\ pc[p] = "work"
                 /\ Goto(p, "checkList")
                 /\ lockUnchanged
                 /\ UNCHANGED <<calls, listed, observed, live>>

ListOwnLock(p) == pc[p] = "checkList" /\ List(p, "checkRead")

\* The owner must still be this claim, or the call throws "ownership changed".
CheckOwnership(p) ==
    /\ pc[p] = "checkRead"
    /\ Goto(p, IF ReadOwner(p) = Claim(p) THEN "retire" ELSE "changed")
    /\ lockUnchanged
    /\ UNCHANGED <<calls, listed, observed, live>>

\* unlinkSync of the own marker: the lock is free from here on.
RetireMarker(p) == /\ pc[p] = "retire"
                   /\ markers' = markers \ {Claim(p)}
                   /\ Goto(p, "retired")
                   /\ UNCHANGED <<lockDir, calls, listed, observed, live>>

RemoveReleased(p) == /\ pc[p] = "retired"
                     /\ RemoveEmptyLock
                     /\ Goto(p, "idle")
                     /\ UNCHANGED <<calls, listed, observed, live>>

\* rmdirSync refused with EPERM, EACCES or EBUSY (removeEmptyLock returns
\* false): the empty directory stays, and the caller goes on as usual.
RmdirRefused(p) ==
    /\ pc[p] \in {"rmdir", "rmdirEmpty", "retired"}
    /\ Goto(p, IF pc[p] = "retired" THEN "idle" ELSE "rename")
    /\ lockUnchanged
    /\ UNCHANGED <<calls, listed, observed, live>>

\* A process is killed at any point; what it left on disk stays there.
Die(p) == /\ p \in live
          /\ live' = live \ {p}
          /\ Goto(p, "dead")
          /\ lockUnchanged
          /\ UNCHANGED <<calls, listed, observed>>

\* A new process starts under a dead one's pid and shares no memory with it.
\* Its claims are new ones: instances are never reused.
Restart(p) == /\ PidReuse /\ p \notin live
              /\ live' = live \cup {p}
              /\ Goto(p, "idle")
              /\ lockUnchanged
              /\ UNCHANGED <<calls, listed, observed>>

\* The work itself is a parameter of the lock: a module that gives it a body
\* composes Acquire, FinishWork and Release with its own steps.
Acquire(p) == \/ PrepareClaim(p) \/ RenameClaim(p) \/ AcquisitionFails(p)
              \/ LookAtLock(p) \/ ListLock(p) \/ ReadLockOwner(p)
              \/ RemoveOwnerless(p) \/ ProbeOwner(p) \/ RelistLock(p)
              \/ RereadOwner(p) \/ UnlinkDeadMarker(p) \/ RemoveReclaimed(p)

Release(p) == \/ ListOwnLock(p) \/ CheckOwnership(p)
              \/ RetireMarker(p) \/ RemoveReleased(p)

Next == \E p \in Procs : \/ Acquire(p) \/ FinishWork(p) \/ Release(p)
                         \/ RmdirRefused(p) \/ Die(p) \/ Restart(p)

Spec == Init /\ [][Next]_vars

-----------------------------------------------------------------------------
\* At most one process is between publishing its claim and retiring it,
\* whatever dies in between and however many waiters reclaim a dead owner's
\* lock at once (withFileLockSync: "run work while holding").
MutualExclusion == \A p, q \in Procs :
    pc[p] \in Holding /\ pc[q] \in Holding => p = q

\* The finally block never finds somebody else's marker: no reclaimer ever
\* removes or replaces the lock of a process that is still running, so the
\* "File lock ownership changed" error is unreachable.
OwnershipNeverChanges == \A p \in Procs : pc[p] # "changed"

\* One process holds the lock, and holds it until it lets go of it.
LockIsSafe == MutualExclusion /\ OwnershipNeverChanges

\* A process that is not killed keeps executing its own calls. Starting a
\* call, giving up at the deadline, dying and restarting are never promised.
Progress(p) == /\ pc[p] # "idle"
               /\ \/ RenameClaim(p) \/ LookAtLock(p) \/ ListLock(p)
                  \/ ReadLockOwner(p) \/ RemoveOwnerless(p) \/ ProbeOwner(p)
                  \/ RelistLock(p) \/ RereadOwner(p) \/ UnlinkDeadMarker(p)
                  \/ RemoveReclaimed(p) \/ FinishWork(p) \/ Release(p)

\* A transient rmdir refusal does not repeat forever.
Fairness == \A p \in Procs : /\ WF_vars(Progress(p))
                             /\ SF_vars(RemoveOwnerless(p))

FairSpec == Spec /\ Fairness

Waiters == {p \in Procs : pc[p] \in Waiting}
Holders == {p \in Procs : pc[p] \in Holding}

\* The pid in a dead owner's marker belongs to a new process: nothing a waiter
\* can read tells it from the owner, and it waits for its deadline.
PidTaken == \E m \in markers \cap Claims :
                m[1] \in live /\ ~(m = Claim(m[1]) /\ pc[m[1]] \in Holding)

\* No debris wedges the lock: once somebody waits, somebody gets in, or every
\* waiter has died or given up - whichever process died and left a marker or
\* an empty directory behind (a legacy lock and a reused pid are the
\* exceptions the code accepts).
LockIsNeverWedged ==
    (Waiters # {} /\ LegacyMarker \notin markers)
        ~> (Holders # {} \/ Waiters = {} \/ PidTaken)
=============================================================================
