------------------------- MODULE BreakerPersistence -------------------------
(***************************************************************************)
(* The circuit breaker with its file (src/breaker-persistence.ts): every   *)
(* notification of the breaker touches a write-behind timer, the flush     *)
(* writes the rows of all cells, and a start restores them.  A restart     *)
(* ends all attempts: handles, leases and the log of starts live only in   *)
(* memory.                                                                 *)
(***************************************************************************)
EXTENDS CircuitBreaker

CONSTANTS FlushDelay, MaxFlushDelay,
          MaxRestarts,    \* bound: process restarts
          WritesMayFail

ASSUME PersistAssumption == /\ FlushDelay \in Nat
                            /\ MaxFlushDelay \in Nat
                            /\ FlushDelay <= MaxFlushDelay
                            /\ MaxRestarts \in Nat

VARIABLES file,        \* the rows in breaker-state.json
          dirtySince, fireAt, lastWrite,  \* the write-behind timer
          restarts     \* how often the process was started again

persistVars == <<file, dirtySince, fireAt, lastWrite>>
allVars == <<vars, persistVars, restarts>>

Store == {"breaker"}

\* exportState: every field of every cell.
Rows == cells

\* The write-behind timer with the breaker's cells as the store it guards.
Timer == INSTANCE WriteBehind
           WITH Stores <- Store, Contents <- [Targets -> CellStates],
                Empty <- [c \in Targets |-> Fresh],
                memory <- [s \in Store |-> Rows], disk <- file

PersistInit == /\ Init
               /\ file = [s \in Store |-> Rows]
               /\ dirtySince = [s \in Store |-> Timer!Never]
               /\ fireAt = [s \in Store |-> Timer!Never]
               /\ lastWrite = [s \in Store |-> "done"]
               /\ restarts = 0

\* The listener installBreakerPersistence registers.
Listen == IF notice' = "changed" THEN Timer!Touch("breaker")
          ELSE UNCHANGED <<dirtySince, fireAt>>

\* Faulty: only the cells that are cooling are put back.
RestoredWhileCooling(row) == IF row.cooldownUntil > now THEN row ELSE Fresh

\* restoreState: a row of the file becomes the cell, its cooldown lapsed or
\* not. At a start there is no live cell the file could not overwrite.
Restored(row) == row

\* The breaker of a new process: createServer installs the persistence before
\* any request is served.
NewProcess ==
    /\ restarts < MaxRestarts
    /\ restarts' = restarts + 1
    /\ cells' = [c \in Targets |-> Restored(file'["breaker"][c])]
    /\ attempts' = [i \in AttemptIds |-> Unused]
    /\ issued' = 0
    /\ inFlight' = [k \in Credentials |-> 0]
    /\ starts' = [c \in Targets |-> <<>>]
    /\ generation' = 1
    /\ notice' = "silent"
    /\ dirtySince' = [s \in Store |-> Timer!Never]
    /\ fireAt' = [s \in Store |-> Timer!Never]
    /\ lastWrite' = [s \in Store |-> "done"]
    /\ UNCHANGED now

\* The relay never calls reset, which clears the breaker between tests and tells
\* no listener.
BreakerStep == /\ AttemptStep \/ CellStep
               /\ Listen
               /\ UNCHANGED <<file, lastWrite, restarts>>

Fire == /\ UNCHANGED <<cells, attempts, issued, inFlight, starts, generation, restarts>>
        /\ notice' = "silent"
        /\ Timer!Fire("breaker")

\* flushBreakerPersistence when the process is told to stop.
Shutdown == /\ file' = IF Timer!Dirty("breaker") THEN [s \in Store |-> Rows] ELSE file
            /\ NewProcess

Crash == /\ UNCHANGED file
         /\ NewProcess

PersistTick == /\ Tick
               /\ Timer!Dirty("breaker") => now < fireAt["breaker"]
               /\ UNCHANGED <<persistVars, restarts>>

PersistNext == BreakerStep \/ Fire \/ Shutdown \/ Crash \/ PersistTick

PersistSpec == PersistInit /\ [][PersistNext]_allVars

-----------------------------------------------------------------------------
Cooldowns(rows) == [c \in Targets |-> [rows[c] EXCEPT !.quota = NoQuota]]

\* What the persistence promises about the part a restart needs: it is a store
\* behind the write-behind timer, whatever the breaker does to it.
Saved == INSTANCE WriteBehind
           WITH Stores <- Store,
                Contents <- {Cooldowns(rows) : rows \in [Targets -> CellStates]},
                Empty <- Cooldowns([c \in Targets |-> Fresh]),
                memory <- [s \in Store |-> Cooldowns(Rows)],
                disk <- [s \in Store |-> Cooldowns(file[s])]

PersistTypeOK == /\ TypeOK
                 /\ file \in [Store -> [Targets -> CellStates]]
                 /\ restarts \in 0 .. MaxRestarts

\* When the timer is clean and its last write succeeded, the file holds what
\* the breaker knows: cooldowns, ladders, failure counts and credential faults.
\* So a graceful restart is invisible to the ladder ("a restart is not a
\* success"), and a crash loses at most the flush window.
CleanMeansSaved ==
    (~Timer!Dirty("breaker") /\ lastWrite["breaker"] = "done")
      => Cooldowns(file["breaker"]) = Cooldowns(Rows)
=============================================================================
