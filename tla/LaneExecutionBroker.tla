------------------------ MODULE LaneExecutionBroker -------------------------
(***************************************************************************)
(* The daemon's lane execution broker (src/lane-execution-broker.ts).  It  *)
(* starts a lane under an id the caller chose, so that a start can be sent *)
(* again after a lost answer, answers status polls, cancels, and keeps a   *)
(* bounded number of ended executions for a caller that comes back late.   *)
(* A status poll awaits the lane's activity between finding the execution  *)
(* and reading it; the lane, a cancel and another start run meanwhile.     *)
(*                                                                         *)
(* Each launch is an object of its own: the broker's map can drop one and  *)
(* a poll that found it before still reads it.                             *)
(***************************************************************************)
EXTENDS Integers, FiniteSets

CONSTANTS ExecutionIds,  \* the ids callers choose
          Signatures,    \* what startSignature tells apart
          MaxTerminal,   \* MAX_BROKER_TERMINAL_EXECUTIONS
          MaxLaunches,   \* bound: lanes launched
          MaxTime        \* bound: the clock

ASSUME BrokerAssumption == /\ MaxTerminal \in Nat
                           /\ MaxLaunches \in Nat
                           /\ MaxTime \in Nat

Launches == 1 .. MaxLaunches
Absent == 0
NotEnded == -1
Times == 0 .. MaxTime

\* How a lane process ends: its exit code is 0 or not, or its own timeout
\* stopped it (with any exit code).
NoResult == [code |-> "none", timedOut |-> "none"]
Results == [code : {"zero", "nonzero"}, timedOut : {"yes", "no"}]
Statuses == {"running", "completed", "failed", "timed_out", "cancelled"}

VARIABLES now,
          stored,      \* the StoredExecution of each launch
          launched,    \* how many lanes have been launched
          executions,  \* the broker's map: id to launch, or Absent
          polls        \* launches whose status poll awaits the lane's activity

vars == <<now, stored, launched, executions, polls>>

Unlaunched == [id |-> "none", signature |-> "none", status |-> "unlaunched",
               endedAt |-> NotEnded, handle |-> "null", result |-> NoResult,
               cancelRequested |-> "no"]

Init == /\ now = 0
        /\ stored = [l \in Launches |-> Unlaunched]
        /\ launched = 0
        /\ executions = [id \in ExecutionIds |-> Absent]
        /\ polls = {}

Known(id) == executions[id] # Absent
Stored(id) == stored[executions[id]]

-----------------------------------------------------------------------------
\* Faulty: an execution may go as soon as it is cancelled, its lane still alive.
PrunableWhenCancelled(objects, map) ==
    {l \in {k \in Launches : objects[k].status # "unlaunched"} :
        map[objects[l].id] = l /\ objects[l].status # "running"}

\* The executions prune may drop: ended, and their lane is gone.
Prunable(objects, map) ==
    {l \in {k \in Launches : objects[k].status # "unlaunched"} :
        /\ map[objects[l].id] = l
        /\ objects[l].status # "running"
        /\ objects[l].handle = "null"}

\* Oldest end first; the sort is stable over the map's insertion order.
EndedBefore(objects, k, l) ==
    \/ objects[k].endedAt < objects[l].endedAt
    \/ objects[k].endedAt = objects[l].endedAt /\ k < l

\* prune: the map after the oldest ended executions beyond the limit are gone.
Pruned(objects, map) ==
    LET prunable == Prunable(objects, map)
        newer(l) == {k \in prunable : EndedBefore(objects, l, k)}
        dropped == {l \in prunable : Cardinality(newer(l)) >= MaxTerminal}
    IN [id \in ExecutionIds |-> IF map[id] \in dropped THEN Absent ELSE map[id]]

\* What the launcher does with a start the broker has not seen: it resolves the
\* lane against the live configuration, refuses (working directory, read-only
\* boundary, no such lane, no invocation, no process), throws, or launches.
LaunchOutcomes == {"launched", "launch failed", "refused"}

\* start: what the broker answers, and what it does.
StartAnswer(id, signature) ==
    IF ~Known(id) THEN LaunchOutcomes
    ELSE IF Stored(id).signature = signature THEN {"existing"} ELSE {"conflict"}

Start(id, signature, answer) ==
    /\ answer \in StartAnswer(id, signature)
    /\ answer = "launched" => launched < MaxLaunches
    /\ IF answer = "launched"
       THEN LET l == launched + 1
            IN /\ launched' = l
               /\ stored' = [stored EXCEPT ![l] =
                                [Unlaunched EXCEPT !.id = id, !.signature = signature,
                                                   !.status = "running", !.handle = "live"]]
               /\ executions' = [executions EXCEPT ![id] = l]
       ELSE UNCHANGED <<stored, launched, executions>>
    /\ UNCHANGED <<now, polls>>

\* The status of a result that nobody asked to cancel.
TerminalStatus(result) == IF result.timedOut = "yes" THEN "timed_out"
                          ELSE IF result.code = "zero" THEN "completed" ELSE "failed"

\* Faulty: a lane that ends after it was cancelled takes its own status.
SettledOverCancel(execution, result) ==
    [execution EXCEPT !.result = result, !.handle = "null",
                      !.status = TerminalStatus(result), !.endedAt = now]

\* A cancelled execution keeps its status and its end, and takes the result.
Settled(execution, result) ==
    LET asked == execution.cancelRequested = "yes"
    IN [execution EXCEPT
           !.result = result,
           !.handle = "null",
           !.status = IF asked THEN execution.status ELSE TerminalStatus(result),
           !.endedAt = IF asked THEN execution.endedAt ELSE now]

\* settle: the lane process has ended (or its promise was rejected, which is a
\* nonzero code).
Settle(l, result) ==
    LET objects == [stored EXCEPT ![l] = Settled(stored[l], result)]
    IN /\ stored[l].handle = "live"
       /\ stored' = objects
       /\ executions' = Pruned(objects, executions)
       /\ UNCHANGED <<now, launched, polls>>

\* An execution that is told to stop; the kill itself may fail, and the lane
\* then ends whenever it ends.
Cancelled(execution) ==
    [execution EXCEPT !.cancelRequested = "yes", !.status = "cancelled", !.endedAt = now]

\* cancel
Cancel(id) ==
    /\ IF Known(id) /\ Stored(id).status = "running"
       THEN LET objects == [stored EXCEPT ![executions[id]] = Cancelled(@)]
            IN /\ stored' = objects
               /\ executions' = Pruned(objects, executions)
       ELSE UNCHANGED <<stored, executions>>
    /\ UNCHANGED <<now, launched, polls>>

\* status: an unknown id is answered at once, a known one is sampled first.
BeginStatus(id) == /\ Known(id)
                   /\ executions[id] \notin polls
                   /\ polls' = polls \cup {executions[id]}
                   /\ UNCHANGED <<now, stored, launched, executions>>

\* The activity has arrived and the snapshot is taken from the same object.
AnswerStatus(l) == /\ l \in polls
                   /\ polls' = polls \ {l}
                   /\ UNCHANGED <<now, stored, launched, executions>>

\* shutdown of the daemon, which exits: every running lane is cancelled and the
\* next daemon starts with an empty map.  A lane that was told to stop is gone.
Shutdown == /\ stored' = [l \in Launches |->
                 LET execution == IF stored[l].status = "running"
                                  THEN Cancelled(stored[l]) ELSE stored[l]
                 IN [execution EXCEPT !.handle = "null"]]
            /\ executions' = [id \in ExecutionIds |-> Absent]
            /\ polls' = {}
            /\ UNCHANGED <<now, launched>>

Tick == /\ now < MaxTime
        /\ now' = now + 1
        /\ UNCHANGED <<stored, launched, executions, polls>>

Next == \/ \E id \in ExecutionIds, signature \in Signatures :
              \E answer \in StartAnswer(id, signature) : Start(id, signature, answer)
        \/ \E id \in ExecutionIds : Cancel(id)
        \/ \E id \in ExecutionIds : BeginStatus(id)
        \/ \E l \in Launches : AnswerStatus(l)
        \/ \E l \in Launches, result \in Results : Settle(l, result)
        \/ Shutdown
        \/ Tick

Spec == Init /\ [][Next]_vars

-----------------------------------------------------------------------------
Executions == [id : ExecutionIds \cup {"none"}, signature : Signatures \cup {"none"},
               status : Statuses \cup {"unlaunched"}, endedAt : Times \cup {NotEnded},
               handle : {"live", "null"}, result : Results \cup {NoResult},
               cancelRequested : {"yes", "no"}]

TypeOK == /\ now \in Times
          /\ stored \in [Launches -> Executions]
          /\ launched \in 0 .. MaxLaunches
          /\ executions \in [ExecutionIds -> 0 .. MaxLaunches]
          /\ polls \subseteq Launches

\* parseLaneExecutionSnapshot: what the caller's parser demands of a snapshot.
\* A snapshot carries a result exactly when the object has one.
Parses(execution) ==
    /\ execution.status \in Statuses
    /\ execution.status = "running" <=> execution.endedAt = NotEnded
    /\ execution.status = "running" => execution.result = NoResult
    /\ execution.status \notin {"running", "cancelled"} => execution.result # NoResult
    /\ execution.status = "completed" =>
           execution.result.code = "zero" /\ execution.result.timedOut = "no"
    /\ execution.status = "failed" =>
           execution.result.code = "nonzero" /\ execution.result.timedOut = "no"
    /\ execution.status = "timed_out" => execution.result.timedOut = "yes"

\* Whatever happened between a poll and its answer (a cancel, a late result, a
\* prune, another start of the id), no object the broker can answer from yields
\* a snapshot the caller would refuse as invalid: a refusal is polled again for
\* ever.
EverySnapshotParses ==
    \A l \in Launches :
        ((l \in polls) \/ (\E id \in ExecutionIds : executions[id] = l)) => Parses(stored[l])

\* An id never has two lanes alive, however often its start is sent and
\* although ended executions are forgotten: a lane that was cancelled but still
\* runs is not forgotten.
OneLaneAlivePerId ==
    \A k, l \in Launches :
        (/\ stored[k].handle = "live"
         /\ stored[l].handle = "live"
         /\ stored[k].id = stored[l].id) => k = l

\* Every id has at most one lane, and whatever is told of it can be read.
ExecutionsAreSound == EverySnapshotParses /\ OneLaneAlivePerId

\* What a step leaves alone of an execution that has ended.
EndStands ==
    \A l \in Launches :
        stored[l].status \notin {"unlaunched", "running"} =>
            /\ stored'[l].status = stored[l].status
            /\ stored'[l].endedAt = stored[l].endedAt
            /\ stored[l].result # NoResult => stored'[l].result = stored[l].result

\* Once an execution has ended its status and the time of its end are final, and
\* so is its result: a late settlement of a cancelled lane only adds the result.
EndIsFinal == [][EndStands]_vars
=============================================================================
