--------------------------- MODULE AccountingStore --------------------------
(***************************************************************************)
(* The request ledger on disk (src/accounting-store.ts).  A finished       *)
(* request is a fact of the day it ended: it is counted in the shard of    *)
(* that day and in the lifetime totals, in memory, and a debounced flush   *)
(* writes the dirty shards, oldest first, and then the lifetime file.      *)
(* Each write is atomic and can fail; the flush is not, and the process    *)
(* can die between two writes.  After the facts are durable the flush      *)
(* prunes shards older than the retention: it moves a durable cursor and   *)
(* then unlinks.  The clock can be set back and forth.                     *)
(*                                                                         *)
(* A flush is one synchronous call: nothing else runs until it returns, so *)
(* every other action waits for stage "idle".                              *)
(***************************************************************************)
EXTENDS Integers, Sequences, FiniteSets, FiniteSetsExt

CONSTANTS Facts,          \* requests that finish
          MaxDay,         \* bound: days
          RetentionDays,  \* retentionDays
          RetentionBatch, \* shards one retention step may name (127)
          QueueLimit,     \* pendingRequestLimit
          ReadsMayFail,   \* TRUE: a shard can be unreadable for a while
          CrashStages     \* the stages of a flush the process can die in

ASSUME StoreAssumption == /\ MaxDay \in Nat \ {0}
                          /\ RetentionDays \in Nat \ {0}
                          /\ RetentionBatch \in Nat \ {0}
                          /\ QueueLimit \in Nat
                          /\ ReadsMayFail \in BOOLEAN

Days == 1 .. MaxDay
NoDay == 0                   \* no day
Lifetime == MaxDay + 1      \* the lifetime file, written after the shards

VARIABLES today,
          seen,      \* the latest day the clock has shown
          endedOn,   \* the day each request ended, NoDay before it does
          days,      \* the shards held in memory: the requests each one counts
          cached,    \* which shards are held
          dirtyDays,
          lifetime,  \* counted, first and last day, retention cursor
          dirtyLifetime,
          queued,    \* finished requests whose shard could not be read
          trusted,   \* trustedDate
          pendingRetention,
          timer,     \* which timer is armed: the debounce, a retry or none
          stage,     \* idle, or what the running flush is doing
          left,      \* the files the stage has still to write or unlink
          todo,      \* queued work the flush has still to look at
          diskDays, diskShards, diskLifetime,
          pruned     \* the requests whose shard retention has unlinked

ledgerMemory == <<days, cached, dirtyDays, lifetime, dirtyLifetime, queued, trusted,
            pendingRetention, timer>>
ledgerDisk == <<diskDays, diskShards, diskLifetime, pruned>>
ledgerVars == <<today, seen, endedOn, days, cached, dirtyDays, lifetime, dirtyLifetime, queued, trusted,
          pendingRetention, timer, stage, left, todo, diskDays, diskShards, diskLifetime,
          pruned>>

EmptyLifetime == [counted |-> {}, first |-> NoDay, last |-> NoDay, from |-> NoDay]

LedgerInit ==
    /\ today = 1
    /\ seen = 1
    /\ endedOn = [r \in Facts |-> NoDay]
    /\ days = [d \in Days |-> {}]
    /\ cached = {}
    /\ dirtyDays = {}
    /\ lifetime = EmptyLifetime
    /\ dirtyLifetime = "no"
    /\ queued = <<>>
    /\ trusted = NoDay
    /\ pendingRetention = NoDay
    /\ timer = "none"
    /\ stage = "idle"
    /\ left = {}
    /\ todo = <<>>
    /\ diskDays = [d \in Days |-> {}]
    /\ diskShards = {}
    /\ diskLifetime = EmptyLifetime
    /\ pruned = {}

-----------------------------------------------------------------------------
Later(a, b) == IF a >= b THEN a ELSE b
Earlier(a, b) == IF a = NoDay \/ (b # NoDay /\ b < a) THEN b ELSE a

\* retentionCutoff: the first day that is kept.  Days before the first one of
\* the model hold nothing.
Cutoff(date) == Later(date - (RetentionDays - 1), 1)

\* retentionNeedsWork
NeedsWork(cutoff) == lifetime.from = NoDay \/ lifetime.from < cutoff

\* queueRetentionForDate, as the cutoff it leaves pending.
Queued(cutoff) == IF NeedsWork(cutoff) THEN Later(pendingRetention, cutoff)
                  ELSE pendingRetention

\* loadDayForWrite: a shard that is not held is read; an unreadable one fails.
LoadedDay(d) == IF d \in cached THEN days[d] ELSE diskDays[d]
MayFailToLoad(d) == ReadsMayFail /\ d \notin cached /\ d \in diskShards

\* applyTerminal of a fact whose shard is loaded, with addLifetime and
\* revisitLateRetentionDate: a fact behind the retention cursor moves the
\* cursor back, and an expired one asks for retention by the clock.
Applied(r, d) ==
    LET late == lifetime.from # NoDay /\ d < lifetime.from
    IN /\ days' = [days EXCEPT ![d] = LoadedDay(d) \cup {r}]
       /\ cached' = cached \cup {d}
       /\ dirtyDays' = dirtyDays \cup {d}
       /\ lifetime' = [counted |-> lifetime.counted \cup {r},
                       first |-> Earlier(lifetime.first, d),
                       last |-> Later(lifetime.last, d),
                       from |-> IF late THEN d ELSE lifetime.from]
       /\ dirtyLifetime' = "yes"
       /\ pendingRetention' = IF late /\ d < Cutoff(today)
                              THEN Later(pendingRetention, Cutoff(today))
                              ELSE pendingRetention
       /\ timer' = "debounce"
       /\ UNCHANGED trusted

\* A fact whose shard cannot be read: the loss is noted in the lifetime file,
\* and the fact waits.
NotApplied(r) == /\ dirtyLifetime' = "yes"
                 /\ queued' = IF Len(queued) < QueueLimit THEN Append(queued, r) ELSE queued
                 /\ UNCHANGED <<days, cached, dirtyDays, lifetime, trusted,
                                pendingRetention, timer>>

\* onRequestCompleted: the request ends now.
CompleteRequest(r) ==
    /\ stage = "idle" /\ endedOn[r] = NoDay
    /\ endedOn' = [endedOn EXCEPT ![r] = today]
    /\ \/ Applied(r, today) /\ UNCHANGED queued
       \/ MayFailToLoad(today) /\ NotApplied(r)
    /\ UNCHANGED <<today, seen, stage, left, todo, ledgerDisk>>

\* rememberKnownDay: a shard that is not dirty may be dropped from memory.
Evict(d) == /\ stage = "idle" /\ d \in cached \ dirtyDays
            /\ \A i \in DOMAIN queued : endedOn[queued[i]] # d
            /\ cached' = cached \ {d}
            /\ UNCHANGED <<today, seen, endedOn, days, dirtyDays, lifetime, dirtyLifetime, queued,
                           trusted, pendingRetention, timer, stage, left, todo, ledgerDisk>>

-----------------------------------------------------------------------------
\* flush, by the debounce, a retry or the shutdown: the timers are cleared and
\* the queue is looked at first.
FlushLedger == /\ stage = "idle"
         /\ stage' = "drain"
         /\ timer' = "none"
         /\ todo' = queued
         /\ queued' = <<>>
         /\ UNCHANGED <<today, seen, endedOn, days, cached, dirtyDays, lifetime, dirtyLifetime,
                        trusted, pendingRetention, left, ledgerDisk>>

\* drainQueued
Drain == /\ stage = "drain" /\ todo # <<>>
         /\ todo' = Tail(todo)
         /\ LET r == Head(todo)
            IN \/ Applied(r, endedOn[r]) /\ UNCHANGED queued
               \/ MayFailToLoad(endedOn[r]) /\ NotApplied(r)
         /\ UNCHANGED <<today, seen, endedOn, stage, left, ledgerDisk>>

\* Faulty: a failed flush is left to the next request.
FailWithoutRetry == /\ stage' = "idle"
                    /\ left' = {}
                    /\ UNCHANGED timer

\* fail: the flush stops and is retried.
Fail == /\ stage' = "idle"
        /\ left' = {}
        /\ timer' = "retry"

\* The queue must be empty for the facts to be written.
Drained == /\ stage = "drain" /\ todo = <<>>
           /\ \/ /\ queued # <<>>
                 /\ Fail
              \/ /\ queued = <<>>
                 /\ stage' = "facts"
                 /\ left' = dirtyDays \cup (IF dirtyLifetime = "yes" THEN {Lifetime} ELSE {})
                 /\ UNCHANGED timer
           /\ UNCHANGED <<today, seen, endedOn, days, cached, dirtyDays, lifetime, dirtyLifetime,
                          queued, trusted, pendingRetention, todo, ledgerDisk>>

\* The file a flush writes next: the shards in order, then the lifetime file.
FactOrder(files) == Min(files)

\* One atomic write of the flush, or its failure.
WriteFact ==
    /\ stage = "facts" /\ left # {}
    /\ \/ LET file == FactOrder(left)
          IN /\ left' = left \ {file}
             /\ IF file = Lifetime
                THEN diskLifetime' = lifetime /\ UNCHANGED <<diskDays, diskShards, pruned>>
                ELSE /\ diskDays' = [diskDays EXCEPT ![file] = days[file]]
                     /\ diskShards' = diskShards \cup {file}
                     /\ UNCHANGED <<diskLifetime, pruned>>
             /\ UNCHANGED <<stage, timer>>
       \/ Fail /\ UNCHANGED ledgerDisk
    /\ UNCHANGED <<today, seen, endedOn, days, cached, dirtyDays, lifetime, dirtyLifetime, queued,
                   trusted, pendingRetention, todo>>

\* advanceTrustedDate: the newest day just committed that the clock has reached.
Advanced == LET committed == {d \in dirtyDays : d <= today}
            IN IF committed = {} \/ (trusted # NoDay /\ Max(committed) <= trusted)
               THEN NoDay ELSE Max(committed)

\* The facts are durable: retention is decided.
Committed ==
    /\ stage = "facts" /\ left = {}
    /\ dirtyDays' = {}
    /\ dirtyLifetime' = "no"
    /\ trusted' = IF Advanced # NoDay THEN Advanced ELSE trusted
    /\ LET recovered == IF trusted # NoDay /\ trusted <= today
                        THEN Queued(Cutoff(trusted)) ELSE pendingRetention
           pending == IF Advanced # NoDay /\ NeedsWork(Cutoff(Advanced))
                      THEN Later(recovered, Cutoff(Advanced)) ELSE recovered
       IN IF pending = NoDay \/ ~NeedsWork(pending)
          THEN pendingRetention' = NoDay /\ stage' = "idle"
          ELSE pendingRetention' = pending /\ stage' = "plan"
    /\ UNCHANGED <<today, seen, endedOn, days, cached, lifetime, queued, timer, left, todo, ledgerDisk>>

\* retentionCandidates: from the cursor, or the first request, up to the cutoff.
Expired == LET start == IF lifetime.from # NoDay THEN lifetime.from ELSE lifetime.first
           IN IF start = NoDay THEN {}
              ELSE {d \in Days : start <= d /\ d < pendingRetention}
Candidates == {d \in Expired : Cardinality({e \in Expired : e <= d}) <= RetentionBatch}
PlanIsFull == Candidates # Expired

\* The cursor a retention step leaves.
NextFrom == IF Candidates # {} THEN Max(Candidates) + 1
            ELSE Later(lifetime.from, pendingRetention)

\* commitRetention: the cursor is written first, then the shards are unlinked.
Plan == /\ stage = "plan"
        /\ stage' = "retention"
        /\ left' = Candidates \cup {Lifetime}
        /\ UNCHANGED <<today, seen, endedOn, ledgerMemory, todo, ledgerDisk>>

Retain ==
    /\ stage = "retention" /\ left # {}
    /\ \/ LET file == IF Lifetime \in left THEN Lifetime ELSE Min(left)
          IN /\ left' = left \ {file}
             /\ IF file = Lifetime
                THEN /\ diskLifetime' = [lifetime EXCEPT !.from = NextFrom]
                     /\ UNCHANGED <<diskDays, diskShards, pruned>>
                ELSE /\ diskDays' = [diskDays EXCEPT ![file] = {}]
                     /\ diskShards' = diskShards \ {file}
                     /\ pruned' = pruned \cup diskDays[file]
                     /\ UNCHANGED diskLifetime
             /\ UNCHANGED <<stage, timer>>
       \/ Fail /\ UNCHANGED ledgerDisk
    /\ UNCHANGED <<today, seen, endedOn, days, cached, dirtyDays, lifetime, dirtyLifetime, queued,
                   trusted, pendingRetention, todo>>

\* applyRetentionPlan; what the batch could not name is retried.
Retained ==
    /\ stage = "retention" /\ left = {}
    /\ lifetime' = [lifetime EXCEPT !.from = NextFrom]
    /\ cached' = cached \ Candidates
    /\ days' = [d \in Days |-> IF d \in Candidates THEN {} ELSE days[d]]
    /\ pendingRetention' = IF PlanIsFull THEN pendingRetention ELSE NoDay
    /\ timer' = IF PlanIsFull THEN "retry" ELSE timer
    /\ stage' = "idle"
    /\ UNCHANGED <<today, seen, endedOn, dirtyDays, dirtyLifetime, queued, trusted, left, todo, ledgerDisk>>

-----------------------------------------------------------------------------
\* The process dies and starts again: loadFixedSnapshots reads the lifetime
\* file and today's shard, and takes the trusted day from the last request.
CrashLedger ==
    /\ stage \in CrashStages
    /\ stage' = "idle"
    /\ left' = {} /\ todo' = <<>> /\ queued' = <<>>
    /\ lifetime' = diskLifetime
    /\ dirtyLifetime' = "no" /\ dirtyDays' = {}
    /\ cached' = {today}
    /\ days' = [d \in Days |-> IF d = today THEN diskDays[d] ELSE {}]
    /\ trusted' = diskLifetime.last
    /\ pendingRetention' =
          IF /\ diskLifetime.last # NoDay /\ diskLifetime.last <= today
             /\ diskLifetime.from = NoDay \/ diskLifetime.from < Cutoff(diskLifetime.last)
          THEN Cutoff(diskLifetime.last) ELSE NoDay
    /\ timer' = "none"
    /\ UNCHANGED <<today, seen, endedOn, ledgerDisk>>

\* The day changes, or the clock is set.
SetClock(d) == /\ stage = "idle" /\ d # today
               /\ today' = d /\ seen' = Later(seen, d)
               /\ UNCHANGED <<endedOn, ledgerMemory, stage, left, todo, ledgerDisk>>

LedgerNext ==
    \/ \E r \in Facts : CompleteRequest(r)
    \/ \E d \in Days : Evict(d)
    \/ FlushLedger
    \/ Drain
    \/ Drained
    \/ WriteFact
    \/ Committed
    \/ Plan
    \/ Retain
    \/ Retained
    \/ CrashLedger
    \/ \E d \in Days : SetClock(d)

LedgerSpec == LedgerInit /\ [][LedgerNext]_ledgerVars

-----------------------------------------------------------------------------
Totals == [counted : SUBSET Facts, first : 0 .. MaxDay, last : 0 .. MaxDay,
           from : 0 .. MaxDay + 1]

LedgerTypes ==
    /\ today \in Days /\ seen \in Days
    /\ endedOn \in [Facts -> Days \cup {NoDay}]
    /\ days \in [Days -> SUBSET Facts]
    /\ cached \subseteq Days /\ dirtyDays \subseteq cached
    /\ lifetime \in Totals
    /\ dirtyLifetime \in {"yes", "no"}
    /\ trusted \in 0 .. MaxDay /\ pendingRetention \in 0 .. MaxDay
    /\ timer \in {"none", "debounce", "retry"}
    /\ stage \in {"idle", "drain", "facts", "plan", "retention"}
    /\ left \subseteq Days \cup {Lifetime}
    /\ diskDays \in [Days -> SUBSET Facts]
    /\ diskShards \subseteq Days
    /\ diskLifetime \in Totals
    /\ Len(queued) + Len(todo) <= QueueLimit

\* A fact the durable totals count is in the durable shard of its day, or that
\* shard was pruned: whatever write the process dies after, the totals are
\* never ahead of the shards.
TotalsNeverAhead ==
    \A r \in diskLifetime.counted : r \in diskDays[endedOn[r]] \cup pruned

\* Nothing waits in memory without a flush to come: a dirty shard always has a
\* timer armed, after a failed write, a failed unlink and a partial batch too.
DirtyIsScheduled == (stage = "idle" /\ dirtyDays # {}) => timer # "none"

\* With nothing dirty the files are the memory: no acknowledged fact is missing
\* from them.  Only a retention step that failed half way leaves memory a shard
\* whose file it has already unlinked.
CleanIsDurable ==
    stage = "idle" =>
        /\ \A d \in cached \ dirtyDays : days[d] = diskDays[d] \/ days[d] \subseteq pruned
        /\ dirtyLifetime = "no" => lifetime.counted = diskLifetime.counted

\* A finished request is in memory with a flush to come, or on disk (the three above).
FactsAreKept == TotalsNeverAhead /\ DirtyIsScheduled /\ CleanIsDurable

\* Retention never takes a day of the window that ends at the latest day the
\* clock has shown, however the clock is set afterwards, whatever a crash
\* interrupted and whichever facts had to wait for their shard.
RetentionKeepsTheWindow == \A r \in pruned : endedOn[r] < Cutoff(seen)

\* Nothing a caller was told is stored is lost, to a crash, a failure or retention.
StoreKeepsTheWindow == FactsAreKept /\ RetentionKeepsTheWindow
=============================================================================
