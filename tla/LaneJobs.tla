------------------------------ MODULE LaneJobs ------------------------------
(***************************************************************************)
(* The jobs of several `llm-relay mcp` processes on one machine: the       *)
(* LaneJobStore of each process (src/mcp/lane-runner.ts), the journal of   *)
(* running jobs (job-journal.ts) and the archive of ended ones             *)
(* (job-archive.ts) that they all share.  Each file is changed by locked   *)
(* read-merge-rename transactions, one atomic step each; a process may be  *)
(* killed between any two of them, and a transaction may fail.  A process  *)
(* is single-threaded, so what it still has to do about an ended job       *)
(* (archive it, then clear its journal row) comes before anything else     *)
(* it does: todo holds that continuation.                                  *)
(***************************************************************************)
EXTENDS Integers, FiniteSets

CONSTANTS Procs,          \* the MCP processes, each with its own pid and instance
          Jobs,           \* the job ids; a created id is never used again
          MaxArchived,    \* MAX_ARCHIVED_JOBS
          MaxJobsTime,        \* bound: the clock
          WritesMayFail   \* TRUE: a transaction on a file can fail

None == "none"
Never == -1

ASSUME JobsAssumption == /\ None \notin Procs
                         /\ MaxArchived \in Nat \ {0}
                         /\ MaxJobsTime \in Nat
                         /\ WritesMayFail \in BOOLEAN

VARIABLES clock,
          proc,       \* the life of each process
          held,       \* LaneJobStore.jobs and brokerExecutions
          own,        \* JobJournal.rows: the rows this process publishes
          orphans,    \* startupOrphans still to be adopted
          todo,       \* the continuation of a terminal transition
          journal,    \* the journal file
          archive,    \* the archive file
          startedAt,  \* when each job was created
          daemon      \* the daemon's execution of each job

files == <<journal, archive>>
memory == <<held, own, orphans, todo>>
jobsVars == <<clock, proc, held, own, orphans, todo, journal, archive, startedAt, daemon>>

Ended == {"completed", "failed", "cancelled", "killed"}

\* A job of a store: its status, its end, whether the daemon owns its process
\* tree, whether it came from another process, whether its tree delta is still
\* to be recorded.
Job(status, endedAt, execution, restored, tree) ==
    [status |-> status, endedAt |-> endedAt, execution |-> execution,
     restored |-> restored, tree |-> tree]
NoJob == Job(None, Never, FALSE, FALSE, FALSE)

Row(owner, execution) == [owner |-> owner, execution |-> execution]
NoRow == Row(None, FALSE)

Record(status, endedAt) == [status |-> status, endedAt |-> endedAt]
NoRecord == Record(None, Never)

\* What is left of a terminal transition: first the archive, then the row.
Nothing == [step |-> None, job |-> None, owner |-> None]
Archiving(j, owner) == [step |-> "archive", job |-> j, owner |-> owner]
Clearing(j, owner) == [step |-> "clear", job |-> j, owner |-> owner]

JobsInit ==
    /\ clock = 0
    /\ proc = [p \in Procs |-> "unborn"]
    /\ held = [p \in Procs |-> [j \in Jobs |-> NoJob]]
    /\ own = [p \in Procs |-> [j \in Jobs |-> NoRow]]
    /\ orphans = [p \in Procs |-> {}]
    /\ todo = [p \in Procs |-> Nothing]
    /\ journal = [j \in Jobs |-> NoRow]
    /\ archive = [j \in Jobs |-> NoRecord]
    /\ startedAt = [j \in Jobs |-> Never]
    /\ daemon = [j \in Jobs |-> "idle"]

Alive(p) == proc[p] \notin {"unborn", "dead"}
Holds(p, j) == held[p][j].status # None
Running(p, j) == held[p][j].status = "running"
Serving(p) == proc[p] = "up" /\ todo[p] = Nothing

\* ownedElsewhere: the owner is another process, and it is alive.
OwnedElsewhere(row, p) == row.owner # p /\ row.owner # None /\ Alive(row.owner)

-----------------------------------------------------------------------------
(* The two files.                                                          *)

\* The journal after a write of p: every row of another process, and p's own.
Rewritten(p, rows) ==
    [j \in Jobs |-> IF rows[j] # NoRow THEN rows[j]
                    ELSE IF journal[j].owner = p THEN NoRow ELSE journal[j]]

\* persist: best-effort, a failure changes nothing and is not reported.
Persist(p, rows) == \/ journal' = Rewritten(p, rows)
                    \/ WritesMayFail /\ UNCHANGED journal

\* boundedRows: the newest MaxArchived records by their end.  The sort is
\* stable and a new record comes last, so it outlives those that ended with it.
Bounded(records, kept) ==
    LET there == {j \in Jobs : records[j] # NoRecord}
    IN /\ Cardinality(kept) = IF Cardinality(there) <= MaxArchived
                              THEN Cardinality(there) ELSE MaxArchived
       /\ \A j \in kept, other \in there \ kept :
             /\ records[other].endedAt <= records[j].endedAt
             /\ records[other].endedAt = records[j].endedAt => archive[other] # NoRecord

\* archive.write: the record over the archive of this moment, then the bound.
WriteArchive(j, record) ==
    LET merged == [archive EXCEPT ![j] = record]
    IN \E kept \in SUBSET {k \in Jobs : merged[k] # NoRecord} :
          /\ Bounded(merged, kept)
          /\ archive' = [k \in Jobs |-> IF k \in kept THEN merged[k] ELSE NoRecord]

\* Faulty: the row is cleared whatever became of the archive.
RecordAndClear(p) ==
    /\ todo[p].step = "archive"
    /\ LET j == todo[p].job
       IN \/ WriteArchive(j, Record(held[p][j].status, held[p][j].endedAt))
          \/ WritesMayFail /\ UNCHANGED archive
    /\ todo' = [todo EXCEPT ![p] = Clearing(@.job, @.owner)]
    /\ UNCHANGED <<clock, proc, held, own, orphans, journal, startedAt, daemon>>

\* archive.record of an ended job; only a committed write goes on to the row.
RecordJob(p) ==
    /\ todo[p].step = "archive"
    /\ LET j == todo[p].job
       IN \/ /\ WriteArchive(j, Record(held[p][j].status, held[p][j].endedAt))
             /\ todo' = [todo EXCEPT ![p] = Clearing(@.job, @.owner)]
          \/ /\ WritesMayFail
             /\ todo' = [todo EXCEPT ![p] = Nothing]
             /\ UNCHANGED archive
    /\ UNCHANGED <<clock, proc, held, own, orphans, journal, startedAt, daemon>>

\* journal.clear: a row this process does not publish is left alone.
ClearRow(p) ==
    /\ todo[p].step = "clear" /\ todo[p].owner = p
    /\ LET j == todo[p].job
       IN IF own[p][j] = NoRow
          THEN UNCHANGED <<own, journal>>
          ELSE /\ own' = [own EXCEPT ![p][j] = NoRow]
               /\ Persist(p, [own[p] EXCEPT ![j] = NoRow])
    /\ todo' = [todo EXCEPT ![p] = Nothing]
    /\ UNCHANGED <<clock, proc, held, orphans, archive, startedAt, daemon>>

\* journal.clearOrphan: the row is removed if it is still the dead owner's.
ClearOrphan(p) ==
    /\ todo[p].step = "clear" /\ todo[p].owner # p
    /\ LET j == todo[p].job
       IN \/ journal' = [journal EXCEPT ![j] = IF @.owner = todo[p].owner THEN NoRow ELSE @]
          \/ WritesMayFail /\ UNCHANGED journal
    /\ todo' = [todo EXCEPT ![p] = Nothing]
    /\ UNCHANGED <<clock, proc, held, own, orphans, archive, startedAt, daemon>>

-----------------------------------------------------------------------------
(* A process starts.                                                       *)

\* restoreArchive: the ended jobs of earlier processes.
Boot(p) ==
    /\ proc[p] = "unborn"
    /\ proc' = [proc EXCEPT ![p] = "restored"]
    /\ held' = [held EXCEPT ![p] = [j \in Jobs |->
                  IF archive[j] = NoRecord THEN NoJob
                  ELSE Job(archive[j].status, archive[j].endedAt, FALSE, TRUE, FALSE)]]
    /\ UNCHANGED <<clock, own, orphans, todo, files, startedAt, daemon>>

\* readOnce: the rows whose owner is gone.  The pid of an owner that is gone
\* may have been given to another program, which hides the row for now.
ReadJournal(p) ==
    /\ proc[p] = "restored"
    /\ proc' = [proc EXCEPT ![p] = "adopting"]
    /\ \E hidden \in SUBSET Procs :
          orphans' = [orphans EXCEPT ![p] =
             {[job |-> j, row |-> journal[j]] :
                j \in {k \in Jobs : /\ journal[k] # NoRow
                                    /\ ~OwnedElsewhere(journal[k], p)
                                    /\ journal[k].owner \notin hidden}}]
    /\ UNCHANGED <<clock, held, own, todo, files, startedAt, daemon>>

Adopting(p) == proc[p] = "adopting" /\ todo[p] = Nothing

Taken(p, o) == orphans' = [orphans EXCEPT ![p] = @ \ {o}]

\* A job the archive already reported is skipped; its row stays.
SkipOrphan(p) ==
    \E o \in orphans[p] :
       /\ Adopting(p)
       /\ Holds(p, o.job)
       /\ Taken(p, o)
       /\ UNCHANGED <<clock, proc, held, own, todo, files, startedAt, daemon>>

\* A local job died with its process: it is reported killed, at the only time
\* the row knows.
AdoptLocal(p) ==
    \E o \in orphans[p] :
       /\ Adopting(p)
       /\ ~Holds(p, o.job)
       /\ ~o.row.execution
       /\ Taken(p, o)
       /\ held' = [held EXCEPT ![p][o.job] =
                     Job("killed", startedAt[o.job], FALSE, FALSE, TRUE)]
       /\ todo' = [todo EXCEPT ![p] = Archiving(o.job, o.row.owner)]
       /\ UNCHANGED <<clock, proc, own, files, startedAt, daemon>>

\* Faulty: the claim trusts what was read at startup.
ClaimStale(p) ==
    \E o \in orphans[p] :
       /\ Adopting(p)
       /\ ~Holds(p, o.job)
       /\ o.row.execution
       /\ Taken(p, o)
       /\ journal' = [journal EXCEPT ![o.job] = Row(p, TRUE)]
       /\ own' = [own EXCEPT ![p][o.job] = Row(p, TRUE)]
       /\ held' = [held EXCEPT ![p][o.job] = Job("running", Never, TRUE, TRUE, TRUE)]
       /\ UNCHANGED <<clock, proc, todo, archive, startedAt, daemon>>

\* claimBrokerOrphan and adoptBrokerRunning: the row as it is now, unless
\* another process that is alive has claimed it or it is gone.
ClaimOrphan(p) ==
    \E o \in orphans[p] :
       /\ Adopting(p)
       /\ ~Holds(p, o.job)
       /\ o.row.execution
       /\ Taken(p, o)
       /\ LET j == o.job
          IN \/ /\ journal[j].execution
                /\ ~OwnedElsewhere(journal[j], p)
                /\ journal' = [journal EXCEPT ![j].owner = p]
                /\ own' = [own EXCEPT ![p][j] = Row(p, TRUE)]
                /\ held' = [held EXCEPT ![p][j] = Job("running", Never, TRUE, TRUE, TRUE)]
             \/ /\ \/ ~journal[j].execution
                   \/ OwnedElsewhere(journal[j], p)
                   \/ WritesMayFail
                /\ UNCHANGED <<journal, own, held>>
       /\ UNCHANGED <<clock, proc, todo, archive, startedAt, daemon>>

\* Every orphan is dealt with: the process serves its host.
Ready(p) ==
    /\ Adopting(p)
    /\ orphans[p] = {}
    /\ proc' = [proc EXCEPT ![p] = "up"]
    /\ UNCHANGED <<clock, memory, files, startedAt, daemon>>

-----------------------------------------------------------------------------
(* A job runs.                                                             *)

\* create: the row is published before any lane runs.
Create(p, j) ==
    /\ Serving(p)
    /\ startedAt[j] = Never
    /\ startedAt' = [startedAt EXCEPT ![j] = clock]
    /\ held' = [held EXCEPT ![p][j] = Job("running", Never, FALSE, FALSE, TRUE)]
    /\ own' = [own EXCEPT ![p][j] = Row(p, FALSE)]
    /\ Persist(p, own'[p])
    /\ UNCHANGED <<clock, proc, orphans, todo, archive, daemon>>

\* noteBrokerExecution: the daemon will own the next attempt; the row says so
\* before the start is sent.
NoteExecution(p, j) ==
    /\ Serving(p)
    /\ Running(p, j) /\ ~held[p][j].execution
    /\ daemon[j] = "idle"
    /\ held' = [held EXCEPT ![p][j].execution = TRUE]
    /\ own' = [own EXCEPT ![p][j].execution = TRUE]
    /\ Persist(p, own'[p])
    /\ UNCHANGED <<clock, proc, orphans, todo, archive, startedAt, daemon>>

\* The start reaches the daemon.
StartExecution(p, j) ==
    /\ Serving(p)
    /\ Running(p, j) /\ held[p][j].execution /\ ~held[p][j].restored
    /\ daemon[j] = "idle"
    /\ daemon' = [daemon EXCEPT ![j] = "running"]
    /\ UNCHANGED <<clock, proc, memory, files, startedAt>>

\* clearBrokerExecution and setCurrentLane: the attempt is over and the walk
\* goes on without the daemon.
ContinueLocally(p, j) ==
    /\ Serving(p)
    /\ Running(p, j) /\ held[p][j].execution /\ ~held[p][j].restored
    /\ daemon[j] \notin {"idle", "running"}
    /\ held' = [held EXCEPT ![p][j].execution = FALSE]
    /\ own' = [own EXCEPT ![p][j].execution = FALSE]
    /\ Persist(p, own'[p])
    /\ UNCHANGED <<clock, proc, orphans, todo, archive, startedAt, daemon>>

\* The end of a job in its store; its report is archived next.
End(p, j, status) ==
    /\ held' = [held EXCEPT ![p][j] = Job(status, clock, FALSE, @.restored, @.tree)]
    /\ todo' = [todo EXCEPT ![p] = Archiving(j, p)]
    /\ UNCHANGED <<clock, proc, own, orphans, files, startedAt, daemon>>

\* complete and fail, with reap: a lane of this process, or a daemon lane the
\* walk has waited for.
CompleteJob(p, j) ==
    /\ Serving(p)
    /\ Running(p, j) /\ ~held[p][j].restored
    /\ held[p][j].execution => daemon[j] \notin {"idle", "running"}
    /\ \E status \in {"completed", "failed"} : End(p, j, status)

\* refreshBrokerJob with applyBrokerSnapshot and markBrokerKilled: a claimed
\* job takes the daemon's verdict, and is killed only if the daemon has none.
RefreshBrokerJob(p, j) ==
    /\ Serving(p)
    /\ Running(p, j) /\ held[p][j].execution /\ held[p][j].restored
    /\ daemon[j] # "running"
    /\ End(p, j, IF daemon[j] \in Ended THEN daemon[j] ELSE "killed")

\* cancel: only a lane of this process; cancelAll at shutdown does the same.
CancelJob(p, j) ==
    /\ proc[p] \in {"up", "stopping"} /\ todo[p] = Nothing
    /\ Running(p, j) /\ ~held[p][j].execution
    /\ End(p, j, "cancelled")

\* toolCancel of a daemon lane: the daemon stops a running one, answers with
\* the end of one that has ended, and does not know any other.
CancelExecution(p, j) ==
    /\ Serving(p)
    /\ Running(p, j) /\ held[p][j].execution
    /\ daemon' = [daemon EXCEPT ![j] = IF @ = "running" THEN "cancelled" ELSE @]
    /\ LET status == IF daemon'[j] \in Ended THEN daemon'[j] ELSE "killed"
       IN held' = [held EXCEPT ![p][j] = Job(status, clock, FALSE, @.restored, @.tree)]
    /\ todo' = [todo EXCEPT ![p] = Archiving(j, p)]
    /\ UNCHANGED <<clock, proc, own, orphans, files, startedAt>>

\* noteTreeDelta: an ended job is archived once more, which also retries an
\* archive write that failed.
NoteTreeDelta(p, j) ==
    /\ Serving(p)
    /\ Holds(p, j) /\ held[p][j].tree
    /\ held' = [held EXCEPT ![p][j].tree = FALSE]
    /\ todo' = [todo EXCEPT ![p] = IF Running(p, j) THEN Nothing ELSE Archiving(j, p)]
    /\ UNCHANGED <<clock, proc, own, orphans, files, startedAt, daemon>>

\* find: a job this store does not hold is read from the archive, and kept.
Find(p, j) ==
    /\ Serving(p)
    /\ ~Holds(p, j)
    /\ archive[j] # NoRecord
    /\ held' = [held EXCEPT ![p][j] =
                  Job(archive[j].status, archive[j].endedAt, FALSE, TRUE, FALSE)]
    /\ UNCHANGED <<clock, proc, own, orphans, todo, files, startedAt, daemon>>

-----------------------------------------------------------------------------
(* Processes end; the daemon and the clock go on.                          *)

\* shutdown: the local jobs are cancelled first, one transition each.
StopServing(p) ==
    /\ Serving(p)
    /\ proc' = [proc EXCEPT ![p] = "stopping"]
    /\ UNCHANGED <<clock, memory, files, startedAt, daemon>>

Forget(p) == /\ proc' = [proc EXCEPT ![p] = "dead"]
             /\ held' = [held EXCEPT ![p] = [j \in Jobs |-> NoJob]]
             /\ own' = [own EXCEPT ![p] = [j \in Jobs |-> NoRow]]
             /\ orphans' = [orphans EXCEPT ![p] = {}]
             /\ todo' = [todo EXCEPT ![p] = Nothing]
             /\ UNCHANGED <<clock, files, startedAt, daemon>>

Exit(p) == /\ proc[p] = "stopping" /\ todo[p] = Nothing
           /\ \A j \in Jobs : Running(p, j) => held[p][j].execution
           /\ Forget(p)

\* The process is killed, with no handler run.
Crash(p) == Alive(p) /\ Forget(p)

\* A lane of the daemon ends; an ended one is pruned, and a restart of the
\* daemon loses the running ones too.
DaemonStep(j) ==
    /\ \/ /\ daemon[j] = "running"
          /\ \E status \in {"completed", "failed", "gone"} :
                daemon' = [daemon EXCEPT ![j] = status]
       \/ /\ daemon[j] \in Ended
          /\ daemon' = [daemon EXCEPT ![j] = "gone"]
    /\ UNCHANGED <<clock, proc, memory, files, startedAt>>

JobsTick ==
    /\ clock < MaxJobsTime
    /\ clock' = clock + 1
    /\ UNCHANGED <<proc, memory, files, startedAt, daemon>>

JobsNext ==
    \/ \E p \in Procs :
          \/ Boot(p) \/ ReadJournal(p) \/ SkipOrphan(p) \/ AdoptLocal(p)
          \/ ClaimOrphan(p) \/ Ready(p)
          \/ RecordJob(p) \/ ClearRow(p) \/ ClearOrphan(p)
          \/ StopServing(p) \/ Exit(p) \/ Crash(p)
    \/ \E p \in Procs, j \in Jobs :
          \/ Create(p, j) \/ NoteExecution(p, j) \/ StartExecution(p, j)
          \/ ContinueLocally(p, j) \/ CompleteJob(p, j) \/ RefreshBrokerJob(p, j)
          \/ CancelJob(p, j) \/ CancelExecution(p, j) \/ NoteTreeDelta(p, j)
          \/ Find(p, j)
    \/ \E j \in Jobs : DaemonStep(j)
    \/ JobsTick

JobsSpec == JobsInit /\ [][JobsNext]_jobsVars

-----------------------------------------------------------------------------
JobTypeOK ==
    /\ clock \in 0 .. MaxJobsTime
    /\ proc \in [Procs -> {"unborn", "restored", "adopting", "up", "stopping", "dead"}]
    /\ \A p \in Procs, j \in Jobs :
          /\ held[p][j].status \in Ended \cup {None, "running"}
          /\ held[p][j].endedAt \in 0 .. MaxJobsTime <=> held[p][j].status \in Ended
          /\ held[p][j].execution => held[p][j].status = "running"
          /\ own[p][j] \in {NoRow, Row(p, FALSE), Row(p, TRUE)}
    /\ \A j \in Jobs :
          /\ archive[j] = NoRecord \/ archive[j].status \in Ended
          /\ journal[j].owner \in Procs \cup {None}
          /\ daemon[j] \in {"idle", "running", "gone"} \cup Ended

\* "It cannot lose the handle entirely": whatever processes crash, whatever
\* writes fail and whoever adopts, a journal row goes away only once the
\* archive has the job's report, and no write erases another process's row.
HandleIsNeverLost ==
    [][\A j \in Jobs : (journal[j] # NoRow /\ journal'[j] = NoRow)
                           => archive'[j] # NoRecord]_jobsVars

\* "A second process never reports a live job of the first as killed": as long
\* as the process that created a job is alive and runs it, no file and no
\* process says that it was killed.
LiveJobIsNotKilled ==
    \A p \in Procs, j \in Jobs :
       (Running(p, j) /\ ~held[p][j].restored)
          => /\ archive[j].status # "killed"
             /\ \A q \in Procs : held[q][j].status # "killed"

\* A daemon execution whose MCP process died has one collector, however many
\* processes start at the same time: adoption claims the row atomically.
OneCollector ==
    \A p, q \in Procs, j \in Jobs :
       (Running(p, j) /\ Running(q, j)) => p = q

\* A job has one process that answers for it, and no other says how it ended.
OneProcessAnswers == LiveJobIsNotKilled /\ OneCollector

\* The execution survives its MCP process: as long as the journal names it and
\* the daemon runs it, no process reports the job killed.
RestartKeepsDaemonWork ==
    [][\A j \in Jobs : (/\ journal[j].execution /\ daemon[j] = "running"
                        /\ archive'[j] # archive[j])
                          => archive'[j].status # "killed"]_jobsVars

\* What a caller was promised outlives the process that promised it: the handle,
\* and the work the daemon does under it.
JobsOutliveTheirProcess == HandleIsNeverLost /\ RestartKeepsDaemonWork
=============================================================================
