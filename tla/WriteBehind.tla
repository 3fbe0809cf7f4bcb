----------------------------- MODULE WriteBehind ----------------------------
(***************************************************************************)
(* The debounced writes of src/write-behind.ts, used by every store that   *)
(* keeps its state in memory and a copy of it in a file (breaker cells,    *)
(* lane affinity, lane statistics, exhaustion, catalog, probe cache).      *)
(* Each change re-arms a short timer; the first change since the last      *)
(* write also bounds how long the timer may be put off.  A write is        *)
(* atomic and best-effort (atomicWriteJsonSync): it can fail silently.     *)
(* The process may crash at any time, or stop after flushing every store.  *)
(***************************************************************************)
EXTENDS Integers

CONSTANTS Stores,         \* the stores with a timer of their own
          Contents,       \* what a store can hold
          Empty,          \* what a store holds on its first start
          FlushDelay,     \* DEFAULT_FLUSH_DELAY_MS
          MaxFlushDelay,  \* MAX_FLUSH_DELAY_MS
          MaxTime,        \* bound: the clock
          WritesMayFail   \* TRUE: the file system can refuse a write

Never == -1
Times == 0 .. MaxTime

ASSUME DelayAssumption == /\ FlushDelay \in Nat
                          /\ MaxFlushDelay \in Nat
                          /\ FlushDelay <= MaxFlushDelay
                          /\ MaxTime \in Nat
ASSUME ContentAssumption == Empty \in Contents /\ WritesMayFail \in BOOLEAN

VARIABLES now,
          memory,      \* the state each store serves from
          disk,        \* the file of each store
          dirtySince,  \* when the first change since the last write was made
          fireAt,      \* when the armed timer fires
          lastWrite    \* did the last write of the store reach its file

timerVars == <<dirtySince, fireAt>>
vars == <<now, memory, disk, dirtySince, fireAt, lastWrite>>

Init == /\ now = 0
        /\ memory = [s \in Stores |-> Empty]
        /\ disk = [s \in Stores |-> Empty]
        /\ dirtySince = [s \in Stores |-> Never]
        /\ fireAt = [s \in Stores |-> Never]
        /\ lastWrite = [s \in Stores |-> "done"]

Dirty(s) == dirtySince[s] # Never

\* The delay of the timer a change arms.
Delay(since) ==
    LET remaining == IF now - since >= MaxFlushDelay THEN 0
                     ELSE MaxFlushDelay - (now - since)
    IN IF FlushDelay <= remaining THEN FlushDelay ELSE remaining

\* Faulty: every change starts the debounce again, and the age of the oldest
\* change is forgotten.
TouchRestartingTheClock(s) ==
    /\ dirtySince' = [dirtySince EXCEPT ![s] = IF Dirty(s) THEN @ ELSE now]
    /\ fireAt' = [fireAt EXCEPT ![s] = now + FlushDelay]

\* touch
Touch(s) ==
    LET since == IF Dirty(s) THEN dirtySince[s] ELSE now
    IN /\ dirtySince' = [dirtySince EXCEPT ![s] = since]
       /\ fireAt' = [fireAt EXCEPT ![s] = now + Delay(since)]

\* A store changes its state and touches its timer.
Change(s, content) == /\ memory' = [memory EXCEPT ![s] = content]
                      /\ Touch(s)
                      /\ UNCHANGED <<now, disk, lastWrite>>

\* The write of a timer that has been cleared first: the file is replaced by
\* the state of this moment, or left alone when the write fails.
Write(s) ==
    \/ /\ disk' = [disk EXCEPT ![s] = memory[s]]
       /\ lastWrite' = [lastWrite EXCEPT ![s] = "done"]
    \/ /\ WritesMayFail
       /\ lastWrite' = [lastWrite EXCEPT ![s] = "failed"]
       /\ UNCHANGED disk

\* clear, then the flush.
Flush(s) == /\ dirtySince' = [dirtySince EXCEPT ![s] = Never]
            /\ fireAt' = [fireAt EXCEPT ![s] = Never]
            /\ Write(s)

\* The timer fires.
Fire(s) == /\ Dirty(s)
           /\ now >= fireAt[s]
           /\ Flush(s)
           /\ UNCHANGED <<now, memory>>

\* flushNow, for the eager paths and the shutdown of one store.
FlushNow(s) == /\ Dirty(s)
               /\ Flush(s)
               /\ UNCHANGED <<now, memory>>

\* Stop the process and start it again: every store restores its file.
Restore == /\ memory' = disk'
           /\ dirtySince' = [s \in Stores |-> Never]
           /\ fireAt' = [s \in Stores |-> Never]

\* flushAll at a graceful shutdown: every dirty store is written, a write that
\* fails stops no other one; then the process restarts.
Shutdown == \E failing \in SUBSET {s \in Stores : Dirty(s) /\ WritesMayFail} :
               /\ disk' = [s \in Stores |-> IF Dirty(s) /\ s \notin failing
                                            THEN memory[s] ELSE disk[s]]
               /\ lastWrite' = [s \in Stores |-> "done"]
               /\ Restore
               /\ UNCHANGED now

\* The process is killed and started again.
Crash == /\ UNCHANGED <<now, disk>>
         /\ lastWrite' = [s \in Stores |-> "done"]
         /\ Restore

\* The event loop runs a timer that is due before time goes on.
Tick == /\ now < MaxTime
        /\ \A s \in Stores : Dirty(s) => now < fireAt[s]
        /\ now' = now + 1
        /\ UNCHANGED <<memory, disk, dirtySince, fireAt, lastWrite>>

Next == \/ \E s \in Stores, content \in Contents : Change(s, content)
        \/ \E s \in Stores : Fire(s)
        \/ \E s \in Stores : FlushNow(s)
        \/ Shutdown
        \/ Crash
        \/ Tick

Spec == Init /\ [][Next]_vars

-----------------------------------------------------------------------------
TypeOK == /\ now \in Times
          /\ memory \in [Stores -> Contents]
          /\ disk \in [Stores -> Contents]
          /\ dirtySince \in [Stores -> Times \cup {Never}]
          /\ fireAt \in [Stores -> Int]
          /\ lastWrite \in [Stores -> {"done", "failed"}]

\* The armed timer belongs to an unwritten change and fires before the oldest
\* one is too old.
TimerIsArmed == \A s \in Stores :
                   /\ Dirty(s) <=> fireAt[s] # Never
                   /\ Dirty(s) => /\ dirtySince[s] <= now
                                  /\ now <= fireAt[s]
                                  /\ fireAt[s] <= dirtySince[s] + MaxFlushDelay

\* "A bounded crash window": however steadily a store changes, no change is
\* older than MAX_FLUSH_DELAY_MS before it is written.
CrashWindowIsBounded ==
    \A s \in Stores : Dirty(s) => now - dirtySince[s] <= MaxFlushDelay

\* A store whose timer is clean has its state in its file, unless its last
\* write failed: so a crash outside the window and a graceful shutdown lose
\* nothing.
CleanMeansWritten ==
    \A s \in Stores : (~Dirty(s) /\ lastWrite[s] = "done") => disk[s] = memory[s]

\* A store is in its file, or has been out of it for less than the window.
StoreIsWritten == CrashWindowIsBounded /\ CleanMeansWritten
=============================================================================
