--------------------------- MODULE FileLockProofs ---------------------------
(***************************************************************************)
(* Mutual exclusion of the file lock, for any number of processes and      *)
(* calls, on either platform, with or without reuse of process ids.        *)
(***************************************************************************)
EXTENDS FileLock, TLAPS

\* A claim that was published once: a later call of its process has begun, or
\* the call that made it is past the rename. It can never be published again.
Published(m) == /\ m[2] <= calls[m[1]]
                /\ m[2] = calls[m[1]] => pc[m[1]] \notin Waiting

\* The call that published m is not running any more.
Abandoned(m) == m[2] = calls[m[1]] => pc[m[1]] \notin Holding

DeadProcessesAreStopped == \A p \in Procs : p \notin live => pc[p] = "dead"

CallsAreCounted == \A p \in Procs :
    pc[p] \in Waiting \cup Holding => calls[p] # 0

AbsentLockIsEmpty == lockDir = "absent" => markers = {}

HolderOwnsLock == \A p \in Procs :
    pc[p] \in Holding => lockDir = "present" /\ markers = {Claim(p)}

MarkersArePublished == \A m \in markers \cap Claims : Published(m)

ListedIsPublished == \A p \in Procs :
    listed[p] \in Claims => Published(listed[p])

ListedIsOwn == \A p \in Procs :
    pc[p] = "checkRead" => listed[p] = Claim(p)

ObservedIsPublished == \A p \in Procs :
    pc[p] \in {"probe", "relist", "reread", "unlink"} =>
        observed[p] \in Claims /\ Published(observed[p])

\* Only a claim whose call is over is ever about to be unlinked.
ObservedIsAbandoned == \A p \in Procs :
    pc[p] \in {"relist", "reread", "unlink"} => Abandoned(observed[p])

IInv == /\ TypeOK
        /\ DeadProcessesAreStopped
        /\ CallsAreCounted
        /\ AbsentLockIsEmpty
        /\ HolderOwnsLock
        /\ MarkersArePublished
        /\ ListedIsPublished
        /\ ListedIsOwn
        /\ ObservedIsPublished
        /\ ObservedIsAbandoned
        /\ OwnershipNeverChanges

-----------------------------------------------------------------------------
(***************************************************************************)
(* What the two system calls of readOwner report.                          *)
(***************************************************************************)
\* readdirSync reports a file of the directory, and reports the only file
\* there is when there is exactly one.
LEMMA OnlyFileReported ==
    /\ OnlyFile \in markers \cup {None}
    /\ \A m : markers = {m} => OnlyFile = m
BY DEF OnlyFile

\* readFileSync reports an owner only when its marker is in the directory now.
LEMMA ReadOwnerReported ==
    ASSUME NEW p \in Procs
    PROVE  /\ ReadOwner(p) \in (markers \cap Claims) \cup {None}
           /\ listed[p] \in markers \cap Claims => ReadOwner(p) = listed[p]
           /\ ReadOwner(p) # None => ReadOwner(p) = listed[p]
BY DEF ReadOwner

\* The initial states satisfy the invariant: nobody holds, waits or observes.
LEMMA InitIInv == Init => IInv
<1> SUFFICES ASSUME Init PROVE IInv
    OBVIOUS
<1> USE LegacyAssumption, MaxCallsAssumption, NoneAssumption
<1>1. TypeOK
  BY DEF Init, TypeOK, Stages, Markers
<1>2. \A p \in Procs : pc[p] = "idle" /\ p \in live /\ listed[p] \notin Claims
  BY DEF Init, Markers
<1>3. markers \cap Claims = {}
  BY DEF Init
<1>4. QED
  BY <1>1, <1>2, <1>3 DEF Init, IInv, DeadProcessesAreStopped, CallsAreCounted, AbsentLockIsEmpty,
     HolderOwnsLock, MarkersArePublished, ListedIsPublished, ListedIsOwn,
     ObservedIsPublished, ObservedIsAbandoned, OwnershipNeverChanges, Holding, Waiting

\* Every step of every process preserves the invariant.
LEMMA NextIInv == IInv /\ [Next]_vars => IInv'
<1> SUFFICES ASSUME IInv, [Next]_vars PROVE IInv'
    OBVIOUS
<1> USE LegacyAssumption, MaxCallsAssumption, NoneAssumption
<1> USE DEF IInv, TypeOK, DeadProcessesAreStopped, CallsAreCounted, AbsentLockIsEmpty,
     HolderOwnsLock, MarkersArePublished, ListedIsPublished, ListedIsOwn,
     ObservedIsPublished, ObservedIsAbandoned, OwnershipNeverChanges,
     Published, Abandoned, Claim, Claims, Markers, Stages, Waiting, Holding,
     Goto, lockUnchanged
<1>1. ASSUME NEW p \in Procs, PrepareClaim(p) PROVE IInv'
  BY <1>1 DEF PrepareClaim
<1>2. ASSUME NEW p \in Procs, RenameClaim(p) PROVE IInv'
  <2>1. CASE lockDir = "absent" \/ (RenameOverEmpty /\ markers = {})
    <3>1. markers = {} /\ pc' = [pc EXCEPT ![p] = "work"]
      BY <1>2, <2>1 DEF RenameClaim
    <3>2. \A q \in Procs : pc[q] \notin Holding
      BY <3>1
    <3>3. lockDir' = "present" /\ markers' = {Claim(p)} /\ Claim(p)' = Claim(p)
      BY <1>2, <2>1 DEF RenameClaim
    <3>4. Claim(p) \in Claims /\ pc[p] = "rename"
      BY <1>2 DEF RenameClaim
    <3>5. HolderOwnsLock' /\ TypeOK'
      BY <1>2, <3>1, <3>2, <3>3, <3>4 DEF RenameClaim
    <3>6. MarkersArePublished'
      BY <1>2, <3>1, <3>3 DEF RenameClaim
    <3>7. QED
      BY <1>2, <3>1, <3>3, <3>5, <3>6 DEF RenameClaim
  <2>2. CASE ~(lockDir = "absent" \/ (RenameOverEmpty /\ markers = {}))
    BY <1>2, <2>2 DEF RenameClaim
  <2>3. QED
    BY <2>1, <2>2
<1>3. ASSUME NEW p \in Procs, AcquisitionFails(p) PROVE IInv'
  BY <1>3 DEF AcquisitionFails
<1>4. ASSUME NEW p \in Procs, LookAtLock(p) PROVE IInv'
  BY <1>4 DEF LookAtLock
<1>5. ASSUME NEW p \in Procs, ListLock(p) PROVE IInv'
  BY <1>5, OnlyFileReported DEF ListLock, List
<1>6. ASSUME NEW p \in Procs, ReadLockOwner(p) PROVE IInv'
  BY <1>6, ReadOwnerReported DEF ReadLockOwner
<1>7. ASSUME NEW p \in Procs, RemoveOwnerless(p) PROVE IInv'
  <2>1. /\ markers' = markers
        /\ lockDir' = lockDir \/ (markers = {} /\ lockDir' = "absent")
    BY <1>7 DEF RemoveOwnerless, RemoveEmptyLock
  <2>2. HolderOwnsLock'
    BY <1>7, <2>1 DEF RemoveOwnerless
  <2>3. AbsentLockIsEmpty'
    BY <1>7, <2>1 DEF RemoveOwnerless
  <2>4. TypeOK'
    BY <1>7, <2>1 DEF RemoveOwnerless
  <2>5. QED
    BY <1>7, <2>1, <2>2, <2>3, <2>4 DEF RemoveOwnerless
<1>8. ASSUME NEW p \in Procs, ProbeOwner(p) PROVE IInv'
  BY <1>8 DEF ProbeOwner
<1>9. ASSUME NEW p \in Procs, RelistLock(p) PROVE IInv'
  BY <1>9, OnlyFileReported DEF RelistLock, List
<1>10. ASSUME NEW p \in Procs, RereadOwner(p) PROVE IInv'
  BY <1>10, ReadOwnerReported DEF RereadOwner
<1>11. ASSUME NEW p \in Procs, UnlinkDeadMarker(p) PROVE IInv'
  BY <1>11 DEF UnlinkDeadMarker
<1>12. ASSUME NEW p \in Procs, RemoveReclaimed(p) PROVE IInv'
  <2>1. /\ markers' = markers
        /\ lockDir' = lockDir \/ (markers = {} /\ lockDir' = "absent")
    BY <1>12 DEF RemoveReclaimed, RemoveEmptyLock
  <2>2. HolderOwnsLock'
    BY <1>12, <2>1 DEF RemoveReclaimed
  <2>3. AbsentLockIsEmpty'
    BY <1>12, <2>1 DEF RemoveReclaimed
  <2>4. TypeOK'
    BY <1>12, <2>1 DEF RemoveReclaimed
  <2>5. QED
    BY <1>12, <2>1, <2>2, <2>3, <2>4 DEF RemoveReclaimed
<1>13. ASSUME NEW p \in Procs, FinishWork(p) PROVE IInv'
  BY <1>13 DEF FinishWork
<1>14. ASSUME NEW p \in Procs, ListOwnLock(p) PROVE IInv'
  <2>1. markers = {Claim(p)}
    BY <1>14 DEF ListOwnLock
  <2>2. OnlyFile = Claim(p)
    BY <2>1, OnlyFileReported
  <2>3. Claim(p) \in markers \cap Claims
    BY <2>1, <1>14 DEF ListOwnLock
  <2>4. QED
    BY <1>14, <2>2, <2>3 DEF ListOwnLock, List
<1>15. ASSUME NEW p \in Procs, CheckOwnership(p) PROVE IInv'
  <2>1. listed[p] = Claim(p) /\ markers = {Claim(p)}
    BY <1>15 DEF CheckOwnership
  <2>2. Claim(p) \in Claims
    BY <1>15 DEF CheckOwnership
  <2>3. ReadOwner(p) = Claim(p)
    BY <2>1, <2>2, ReadOwnerReported
  <2>4. QED
    BY <1>15, <2>3 DEF CheckOwnership
<1>16. ASSUME NEW p \in Procs, RetireMarker(p) PROVE IInv'
  BY <1>16 DEF RetireMarker
<1>17. ASSUME NEW p \in Procs, RemoveReleased(p) PROVE IInv'
  <2>1. /\ markers' = markers
        /\ lockDir' = lockDir \/ (markers = {} /\ lockDir' = "absent")
    BY <1>17 DEF RemoveReleased, RemoveEmptyLock
  <2>2. HolderOwnsLock'
    BY <1>17, <2>1 DEF RemoveReleased
  <2>3. AbsentLockIsEmpty'
    BY <1>17, <2>1 DEF RemoveReleased
  <2>4. TypeOK'
    BY <1>17, <2>1 DEF RemoveReleased
  <2>5. QED
    BY <1>17, <2>1, <2>2, <2>3, <2>4 DEF RemoveReleased
<1>18. ASSUME NEW p \in Procs, Die(p) PROVE IInv'
  BY <1>18 DEF Die
<1>19. ASSUME NEW p \in Procs, Restart(p) PROVE IInv'
  BY <1>19 DEF Restart
<1>20. ASSUME NEW p \in Procs, RmdirRefused(p) PROVE IInv'
  BY <1>20 DEF RmdirRefused
<1>21. CASE UNCHANGED vars
  BY <1>21 DEF vars
<1>22. QED
  BY <1>1, <1>2, <1>3, <1>4, <1>5, <1>6, <1>7, <1>8, <1>9, <1>10, <1>11, <1>12, <1>13, <1>14, <1>15, <1>16, <1>17, <1>18, <1>19, <1>20, <1>21 DEF Next, Acquire, Release

\* The lock protocol keeps its inductive invariant.
THEOREM LockInvariant == Spec => []IInv
BY InitIInv, NextIInv, PTL DEF Spec

\* Two processes never hold the lock at once (withFileLockSync), whatever
\* dies, however many waiters reclaim the same dead lock, on either platform.
THEOREM LockMutualExclusion == Spec => []MutualExclusion
<1>1. IInv => MutualExclusion
  <2> SUFFICES ASSUME HolderOwnsLock, NEW p \in Procs, NEW q \in Procs,
                      pc[p] \in Holding, pc[q] \in Holding
               PROVE  p = q
    BY DEF IInv, MutualExclusion
  <2>1. {Claim(p)} = {Claim(q)}
    BY DEF HolderOwnsLock
  <2>2. Claim(p) = Claim(q)
    BY <2>1
  <2>3. QED
    BY <2>2 DEF Claim
<1>2. QED
  BY <1>1, LockInvariant, PTL

\* The release of a lock always finds its own marker, so the error
\* "File lock ownership changed" of withFileLockSync is unreachable.
THEOREM LockOwnershipNeverChanges == Spec => []OwnershipNeverChanges
<1>1. IInv => OwnershipNeverChanges
  BY DEF IInv
<1>2. QED
  BY <1>1, LockInvariant, PTL

\* The two together: no two processes are inside the lock, and whoever is
\* inside finds its own marker when it leaves.
THEOREM LockStaysSafe == Spec => []LockIsSafe
BY LockMutualExclusion, LockOwnershipNeverChanges, PTL DEF LockIsSafe
=============================================================================
