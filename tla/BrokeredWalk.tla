---------------------------- MODULE BrokeredWalk ----------------------------
(***************************************************************************)
(* One dispatched job: the MCP server walks a ladder of lanes              *)
(* (src/mcp/server.ts), each run by the daemon's broker when it can be     *)
(* reached and by the server itself otherwise.  Four loops of the server   *)
(* talk to the daemon at once: the walk (probe and start), the waiter of   *)
(* each lane (waitBrokerLane), the stopper of a lane that is given up      *)
(* (stopBrokerLane) and the dispatch_cancel tool.  Any request or answer   *)
(* may be lost; the daemon may restart.                                    *)
(*                                                                         *)
(* A lane is attempted once per walk, so its name stands for the           *)
(* execution id of its attempt too.                                        *)
(***************************************************************************)
EXTENDS Integers, Sequences, FiniteSets

CONSTANTS Ladder,        \* the lanes in the walk's order, each once
          MaxTerminal, MaxLaunches, MaxTime,  \* of the broker
          MaxRestarts,   \* bound: restarts of the daemon
          MaxCancels     \* bound: calls of dispatch_cancel

Lanes == {Ladder[i] : i \in 1 .. Len(Ladder)}
None == "none"

ASSUME LadderAssumption == /\ Len(Ladder) \in Nat \ {0}
                           /\ \A i, j \in 1 .. Len(Ladder) : Ladder[i] = Ladder[j] => i = j
                           /\ None \notin Lanes
ASSUME WalkBounds == /\ MaxTerminal \in Nat /\ MaxLaunches \in Nat /\ MaxTime \in Nat
                     /\ MaxRestarts \in Nat /\ MaxCancels \in Nat

VARIABLES now, stored, launched, executions, polls,  \* the broker
          job,      \* the job of the store: status, current lane, brokerExecution
          row,      \* its journal row: None, "local", or the execution it names
          walk,     \* where the walk is: pc, index in the ladder, outcome
          waiter,   \* the waitBrokerLane of each lane
          outcome,  \* what each lane's waiter or local process returned
          local,    \* the local process of each lane
          mail,     \* the outstanding request of each loop
          restarts, cancels

brokerVars == <<now, stored, launched, executions, polls>>
vars == <<brokerVars, job, row, walk, waiter, outcome, local, mail, restarts, cancels>>

Broker == INSTANCE LaneExecutionBroker
             WITH ExecutionIds <- Lanes, Signatures <- {"start"}

\* The loops that send requests, each awaiting one answer at a time.
Walker == <<"walk", None>>
Tool == <<"tool", None>>
Waiter(lane) == <<"wait", lane>>
Stopper(lane) == <<"stop", lane>>
Loops == {Walker, Tool} \cup {Waiter(lane) : lane \in Lanes} \cup {Stopper(lane) : lane \in Lanes}

Idle == [state |-> "idle", action |-> None, id |-> None, reply |-> None]
Sent(action, id) == [state |-> "sent", action |-> action, id |-> id, reply |-> None]
Answered(action, id, reply) ==
    [state |-> "answered", action |-> action, id |-> id, reply |-> reply]

\* What the client makes of an answer: a snapshot's status (with an answer a
\* cancelled lane still gave told apart), a rejection, or no usable answer.
Snapshots == Broker!Statuses \cup {"cancelled with answer"}
Rejections == {"404", "503", "400", "409"}
Replies == Snapshots \cup Rejections \cup {"unavailable"}

Init == /\ Broker!Init
        /\ job = [status |-> None, lane |-> None, execution |-> None]
        /\ row = None
        /\ walk = [pc |-> "none", at |-> 1, outcome |-> None]
        /\ waiter = [lane \in Lanes |-> "none"]
        /\ outcome = [lane \in Lanes |-> None]
        /\ local = [lane \in Lanes |-> "none"]
        /\ mail = [a \in Loops |-> Idle]
        /\ restarts = 0
        /\ cancels = 0

Running == job.status = "running"
Lane == Ladder[walk.at]
IsLast == walk.at = Len(Ladder)

-----------------------------------------------------------------------------
\* The job store's part (LaneJobStore), journal and archive writes included.

\* reap: the local process is killed, the record archived, the row cleared.
Ended(status) == /\ job' = [job EXCEPT !.status = status, !.execution = None]
                 /\ row' = None
                 /\ local' = [lane \in Lanes |->
                                 IF local[lane] = "running" THEN "ended" ELSE local[lane]]

\* Faulty: the end of the walk overwrites a cancellation.
EndAnyway(status) == Ended(status)

\* complete and fail: a job the caller cancelled stays cancelled.
EndUnlessCancelled(status) ==
    IF job.status = "cancelled" THEN UNCHANGED <<job, row, local>> ELSE Ended(status)

\* setCurrentLane
SetCurrentLane(lane) == /\ job' = [job EXCEPT !.lane = lane, !.execution = None]
                        /\ row' = "local"

\* noteBrokerExecution: written before the start is sent.
NoteBrokerExecution(lane) ==
    IF Running THEN /\ job' = [job EXCEPT !.execution = lane]
                    /\ row' = lane
    ELSE UNCHANGED <<job, row>>

\* clearBrokerExecution: whatever execution the job names.
ClearBrokerExecution ==
    IF Running THEN /\ job' = [job EXCEPT !.execution = None]
                    /\ row' = "local"
    ELSE UNCHANGED <<job, row>>

\* applyBrokerSnapshot: only for the execution the job names.
ApplySnapshot(id, reply) ==
    IF job.execution = id /\ job.lane = id /\ reply # "running"
    THEN /\ job' = [job EXCEPT !.execution = None,
                               !.status = IF reply = "cancelled with answer" THEN "cancelled"
                                          ELSE reply]
         /\ row' = None
         /\ UNCHANGED local
    ELSE UNCHANGED <<job, row, local>>

\* markBrokerKilled
MarkBrokerKilled ==
    IF Running /\ job.execution # None
    THEN /\ job' = [job EXCEPT !.status = "killed", !.execution = None]
         /\ row' = None
    ELSE UNCHANGED <<job, row>>

-----------------------------------------------------------------------------
\* The daemon's end of a request (POST /mcp/lane-execution).

SnapshotOf(execution) ==
    IF execution.status = "cancelled" /\ execution.result = [code |-> "zero", timedOut |-> "no"]
    THEN "cancelled with answer" ELSE execution.status

\* A request is handled; its answer arrives or is lost on the way.
Arrive(a, reply) ==
    \E seen \in {reply, "unavailable"} :
        mail' = [mail EXCEPT ![a] = Answered(@.action, @.id, seen)]

ServeStart(a) ==
    LET id == mail[a].id
    IN \E answer \in Broker!StartAnswer(id, "start") :
          /\ Broker!Start(id, "start", answer)
          /\ Arrive(a, CASE answer = "launched" -> "running"
                         [] answer = "existing" -> SnapshotOf(Broker!Stored(id))
                         [] answer = "launch failed" -> "503"
                         [] answer = "refused" -> "400"
                         [] answer = "conflict" -> "409")

ServeStatus(a) ==
    LET id == mail[a].id
    IN /\ Arrive(a, IF Broker!Known(id) THEN SnapshotOf(Broker!Stored(id)) ELSE "404")
       /\ UNCHANGED brokerVars

ServeCancel(a) ==
    LET id == mail[a].id
    IN /\ Broker!Cancel(id)
       /\ Arrive(a, IF ~Broker!Known(id) THEN "404"
                    ELSE IF Broker!Stored(id).status = "running" THEN "cancelled"
                    ELSE SnapshotOf(Broker!Stored(id)))

Serve(a) == /\ mail[a].state = "sent"
            /\ \/ mail[a].action = "start" /\ ServeStart(a)
               \/ mail[a].action = "status" /\ ServeStatus(a)
               \/ mail[a].action = "cancel" /\ ServeCancel(a)
            /\ UNCHANGED <<job, row, walk, waiter, outcome, local, restarts, cancels>>

\* The daemon cannot be reached, or the request timed out before it was handled.
Unreachable(a) == /\ mail[a].state = "sent"
                  /\ mail' = [mail EXCEPT ![a] = Answered(@.action, @.id, "unavailable")]
                  /\ UNCHANGED <<brokerVars, job, row, walk, waiter, outcome, local,
                                 restarts, cancels>>

\* A lane process of the daemon ends; it always does, at its timeout at the latest.
LaneEnds(l) == /\ \E result \in {[code |-> "zero", timedOut |-> "no"],
                                 [code |-> "nonzero", timedOut |-> "no"]} :
                     Broker!Settle(l, result)
               /\ UNCHANGED <<job, row, walk, waiter, outcome, local, mail, restarts, cancels>>

\* The daemon stops, killing its lanes, and a new one starts.
DaemonRestarts == /\ restarts < MaxRestarts
                  /\ restarts' = restarts + 1
                  /\ Broker!Shutdown
                  /\ UNCHANGED <<job, row, walk, waiter, outcome, local, mail, cancels>>

-----------------------------------------------------------------------------
\* toolDispatch: the job is created and journalled; a waitMs that cannot be
\* honoured is refused after that, and the walk never starts.
Dispatch == /\ walk.pc = "none"
            /\ job' = [status |-> "running", lane |-> Ladder[1], execution |-> None]
            /\ row' = "local"
            /\ \E pc \in {"pick", "refused"} : walk' = [walk EXCEPT !.pc = pc]
            /\ UNCHANGED <<brokerVars, waiter, outcome, local, mail, restarts, cancels>>

\* runWalk at the top of its loop: over when the job has ended; a lane may be
\* skipped (at its concurrency cap, below the tier, not bindable read-only).
Pick ==
    /\ walk.pc = "pick"
    /\ \/ /\ walk.at <= Len(Ladder)
          /\ ~Running
          /\ walk' = [walk EXCEPT !.pc = "done"]
          /\ UNCHANGED <<job, row, local, mail>>
       \/ /\ walk.at <= Len(Ladder)
          /\ Running
          /\ walk' = [walk EXCEPT !.at = walk.at + 1]
          /\ UNCHANGED <<job, row, local, mail>>
       \/ /\ walk.at > Len(Ladder)
          /\ EndUnlessCancelled("failed")
          /\ walk' = [walk EXCEPT !.pc = "done"]
          /\ UNCHANGED mail
    /\ UNCHANGED <<brokerVars, waiter, outcome, restarts, cancels>>

\* The lane is started: the daemon is probed with a status request first, so
\* that falling back after a failed probe cannot run the lane twice.
StartLane == /\ walk.pc = "pick"
             /\ walk.at <= Len(Ladder)
             /\ Running
             /\ SetCurrentLane(Lane)
             /\ walk' = [walk EXCEPT !.pc = "probing"]
             /\ mail' = [mail EXCEPT ![Walker] = Sent("status", Lane)]
             /\ UNCHANGED <<brokerVars, waiter, outcome, local, restarts, cancels>>

\* The working directory is refused: the job fails without a lane.
RefuseDirectory == /\ walk.pc = "pick"
                   /\ walk.at <= Len(Ladder)
                   /\ Running
                   /\ EndUnlessCancelled("failed")
                   /\ walk' = [walk EXCEPT !.pc = "done"]
                   /\ UNCHANGED <<brokerVars, waiter, outcome, mail, restarts, cancels>>

\* The server runs the lane itself.
RunLocally == /\ local' = [local EXCEPT ![Lane] = "running"]
              /\ walk' = [walk EXCEPT !.pc = "waiting"]

\* tryStartBrokerLane after the probe: only a daemon that says it does not know
\* the id is trusted with the start.
ProbeAnswered ==
    /\ walk.pc = "probing"
    /\ mail[Walker].state = "answered"
    /\ IF mail[Walker].reply = "404"
       THEN /\ NoteBrokerExecution(Lane)
            /\ mail' = [mail EXCEPT ![Walker] = Sent("start", Lane)]
            /\ walk' = [walk EXCEPT !.pc = "starting"]
            /\ UNCHANGED local
       ELSE /\ RunLocally
            /\ mail' = [mail EXCEPT ![Walker] = Idle]
            /\ UNCHANGED <<job, row>>
    /\ UNCHANGED <<brokerVars, waiter, outcome, restarts, cancels>>

\* Faulty: a start without an answer is taken for one that was not received.
StartUnansweredRunsLocally ==
    /\ walk.pc = "starting"
    /\ mail[Walker].state = "answered"
    /\ IF mail[Walker].reply \in {"503", "unavailable"}
       THEN /\ ClearBrokerExecution
            /\ RunLocally
            /\ UNCHANGED <<waiter, outcome>>
            /\ mail' = [mail EXCEPT ![Walker] = Idle]
       ELSE /\ waiter' = [waiter EXCEPT ![Lane] = "confirmed"]
            /\ mail' = [mail EXCEPT ![Walker] = Idle, ![Waiter(Lane)] = mail[Walker]]
            /\ walk' = [walk EXCEPT !.pc = "waiting"]
            /\ UNCHANGED <<job, row, local, outcome>>
    /\ UNCHANGED <<brokerVars, restarts, cancels>>

\* tryStartBrokerLane after the start.
StartAnswered ==
    LET reply == mail[Walker].reply
    IN /\ walk.pc = "starting"
       /\ mail[Walker].state = "answered"
       /\ \/ /\ reply = "503"
             /\ ClearBrokerExecution
             /\ RunLocally
             /\ mail' = [mail EXCEPT ![Walker] = Idle]
             /\ UNCHANGED <<waiter, outcome>>
          \/ /\ reply \in Rejections \ {"503"}
             /\ ClearBrokerExecution
             /\ outcome' = [outcome EXCEPT ![Lane] = "failed"]
             /\ walk' = [walk EXCEPT !.pc = "waiting"]
             /\ mail' = [mail EXCEPT ![Walker] = Idle]
             /\ UNCHANGED <<waiter, local>>
          \/ /\ reply \notin Rejections
             /\ waiter' = [waiter EXCEPT ![Lane] = IF reply \in Snapshots THEN "confirmed"
                                                   ELSE "unconfirmed"]
             /\ walk' = [walk EXCEPT !.pc = "waiting"]
             /\ mail' = [mail EXCEPT ![Walker] = Idle, ![Waiter(Lane)] = mail[Walker]]
             /\ UNCHANGED <<job, row, local, outcome>>
       /\ UNCHANGED <<brokerVars, restarts, cancels>>

\* settleSpawnedRun: an answer may still be judged a failure (empty, or a quota
\* statement).
Judged(reply) == IF reply \in {"completed", "cancelled with answer"}
                 THEN {"completed", "failed"} ELSE {"failed"}

\* waitBrokerLane takes an answer.  Without a confirmed start it sends the same
\* start again, afterwards it polls; it knows nothing of the walk.
WaiterStep(lane) ==
    LET reply == mail[Waiter(lane)].reply
    IN /\ waiter[lane] \in {"confirmed", "unconfirmed"}
       /\ mail[Waiter(lane)].state = "answered"
       /\ \/ /\ reply = "running"
             /\ waiter' = [waiter EXCEPT ![lane] = "confirmed"]
             /\ mail' = [mail EXCEPT ![Waiter(lane)] = Sent("status", lane)]
             /\ UNCHANGED <<job, row, outcome>>
          \/ /\ reply \in Snapshots \ {"running"}
             /\ waiter' = [waiter EXCEPT ![lane] = "returned"]
             /\ \E judged \in Judged(reply) : outcome' = [outcome EXCEPT ![lane] = judged]
             /\ mail' = [mail EXCEPT ![Waiter(lane)] = Idle]
             /\ UNCHANGED <<job, row>>
          \/ /\ reply \in Rejections
             /\ ClearBrokerExecution
             /\ waiter' = [waiter EXCEPT ![lane] = "returned"]
             /\ outcome' = [outcome EXCEPT ![lane] = "failed"]
             /\ mail' = [mail EXCEPT ![Waiter(lane)] = Idle]
          \/ /\ reply = "unavailable"
             /\ mail' = [mail EXCEPT ![Waiter(lane)] =
                            Sent(IF waiter[lane] = "confirmed" THEN "status" ELSE "start", lane)]
             /\ UNCHANGED <<job, row, waiter, outcome>>
       /\ UNCHANGED <<brokerVars, walk, local, restarts, cancels>>

\* A local process ends.
LocalEnds(lane) == /\ local[lane] = "running"
                   /\ local' = [local EXCEPT ![lane] = "ended"]
                   /\ \E judged \in {"completed", "failed"} :
                         outcome' = [outcome EXCEPT ![lane] = judged]
                   /\ UNCHANGED <<brokerVars, job, row, walk, waiter, mail, restarts, cancels>>

\* A local process that was killed returns without an answer.
LocalKilled(lane) == /\ local[lane] = "ended"
                     /\ outcome[lane] = None
                     /\ outcome' = [outcome EXCEPT ![lane] = "failed"]
                     /\ UNCHANGED <<brokerVars, job, row, walk, waiter, local, mail,
                                    restarts, cancels>>

\* runOneLane: the lane has returned.
LaneReturns == /\ walk.pc = "waiting"
               /\ outcome[Lane] # None
               /\ walk' = [walk EXCEPT !.pc = "settled", !.outcome = outcome[Lane]]
               /\ UNCHANGED <<brokerVars, job, row, waiter, outcome, local, mail,
                              restarts, cancels>>

\* runOneLane: the lane has been quiet for too long, or the job has ended, and
\* a later lane is left: it is stopped.
GiveUpLane ==
    /\ walk.pc = "waiting"
    /\ outcome[Lane] = None
    /\ ~IsLast
    /\ IF waiter[Lane] # "none"
       THEN /\ mail' = [mail EXCEPT ![Stopper(Lane)] = Sent("cancel", Lane)]
            /\ walk' = [walk EXCEPT !.pc = "stopping"]
            /\ UNCHANGED local
       ELSE /\ local' = [local EXCEPT ![Lane] = IF @ = "running" THEN "ended" ELSE @]
            /\ walk' = [walk EXCEPT !.pc = "settled", !.outcome = "abandoned"]
            /\ UNCHANGED mail
    /\ UNCHANGED <<brokerVars, job, row, waiter, outcome, restarts, cancels>>

\* Faulty: a lost cancel is not sent again.
StopAnsweredOnce ==
    LET reply == mail[Stopper(Lane)].reply
    IN /\ walk.pc = "stopping"
       /\ mail[Stopper(Lane)].state = "answered"
       /\ reply \in Snapshots \cup {"404", "503"}
       /\ mail' = [mail EXCEPT ![Stopper(Lane)] = Idle]
       /\ walk' = [walk EXCEPT !.pc = "settled", !.outcome = "abandoned"]
       /\ UNCHANGED <<brokerVars, job, row, waiter, outcome, local, restarts, cancels>>

\* stopBrokerLane: again until the daemon confirms, or does not know the id.
StopAnswered ==
    LET reply == mail[Stopper(Lane)].reply
    IN /\ walk.pc = "stopping"
       /\ mail[Stopper(Lane)].state = "answered"
       /\ IF reply \in Snapshots \cup {"404", "503"}
          THEN /\ mail' = [mail EXCEPT ![Stopper(Lane)] = Idle]
               /\ walk' = [walk EXCEPT !.pc = "settled", !.outcome = "abandoned"]
          ELSE /\ mail' = [mail EXCEPT ![Stopper(Lane)] = Sent("cancel", Lane)]
               /\ UNCHANGED walk
       /\ UNCHANGED <<brokerVars, job, row, waiter, outcome, local, restarts, cancels>>

\* runWalk after an attempt: the next lane, or the end of the job.
AttemptOver ==
    LET answered == walk.outcome = "completed"
    IN /\ walk.pc = "settled"
       /\ \/ /\ job.status = "cancelled"
             /\ walk' = [walk EXCEPT !.pc = "done"]
             /\ UNCHANGED <<job, row>>
          \/ /\ job.status # "cancelled"
             /\ answered \/ IsLast
             /\ walk' = [walk EXCEPT !.pc = "completing"]
             /\ UNCHANGED <<job, row>>
          \/ /\ job.status # "cancelled"
             /\ ~answered /\ ~IsLast
             /\ IF job.execution # None THEN ClearBrokerExecution ELSE UNCHANGED <<job, row>>
             /\ walk' = [pc |-> "pick", at |-> walk.at + 1, outcome |-> None]
       /\ UNCHANGED <<brokerVars, waiter, outcome, local, mail, restarts, cancels>>

\* The working tree has been read, and the job is completed.
Complete == /\ walk.pc = "completing"
            /\ EndUnlessCancelled(IF walk.outcome = "completed" THEN "completed" ELSE "failed")
            /\ walk' = [walk EXCEPT !.pc = "done"]
            /\ UNCHANGED <<brokerVars, waiter, outcome, mail, restarts, cancels>>

\* toolCancel: through the daemon when the job names an execution, else here.
CancelJob == /\ cancels < MaxCancels
             /\ Running
             /\ mail[Tool].state = "idle"
             /\ cancels' = cancels + 1
             /\ IF job.execution # None
                THEN /\ mail' = [mail EXCEPT ![Tool] = Sent("cancel", job.execution)]
                     /\ UNCHANGED <<job, row, local>>
                ELSE /\ Ended("cancelled")
                     /\ UNCHANGED mail
             /\ UNCHANGED <<brokerVars, walk, waiter, outcome, restarts>>

CancelAnswered ==
    LET reply == mail[Tool].reply
    IN /\ mail[Tool].state = "answered"
       /\ mail' = [mail EXCEPT ![Tool] = Idle]
       /\ \/ /\ reply = "404"
             /\ MarkBrokerKilled
             /\ UNCHANGED local
          \/ /\ reply \in Snapshots
             /\ ApplySnapshot(mail[Tool].id, reply)
          \/ /\ reply \notin Snapshots \cup {"404"}
             /\ UNCHANGED <<job, row, local>>
       /\ UNCHANGED <<brokerVars, walk, waiter, outcome, restarts, cancels>>

-----------------------------------------------------------------------------
WalkStep == \/ Pick \/ StartLane \/ ProbeAnswered \/ StartAnswered \/ LaneReturns
            \/ StopAnswered \/ AttemptOver \/ Complete

Next == \/ Dispatch \/ WalkStep \/ RefuseDirectory \/ GiveUpLane
        \/ CancelJob \/ CancelAnswered
        \/ \E lane \in Lanes : WaiterStep(lane) \/ LocalEnds(lane) \/ LocalKilled(lane)
        \/ \E a \in Loops : Serve(a) \/ Unreachable(a)
        \/ \E l \in Broker!Launches : LaneEnds(l)
        \/ DaemonRestarts

Spec == Init /\ [][Next]_vars

\* The walk and the waiters go on, a lane ends (at its timeout at the latest), a
\* request of the walk is answered or times out, and one that a waiter or a
\* stopper sends again and again is answered at last.
Fairness == /\ WF_vars(WalkStep)
            /\ WF_vars(Serve(Walker) \/ Unreachable(Walker))
            /\ WF_vars(\E l \in Broker!Launches : LaneEnds(l))
            /\ \A lane \in Lanes :
                  /\ WF_vars(WaiterStep(lane) \/ LocalEnds(lane) \/ LocalKilled(lane))
                  /\ \A a \in {Waiter(lane), Stopper(lane)} :
                        SF_vars(Serve(a) /\ mail'[a].reply # "unavailable")

FairSpec == Spec /\ Fairness

-----------------------------------------------------------------------------
JobStatuses == {None, "running", "completed", "failed", "timed_out", "cancelled", "killed"}

WalkTypeOK ==
    /\ job \in [status : JobStatuses, lane : Lanes \cup {None}, execution : Lanes \cup {None}]
    /\ row \in {None, "local"} \cup Lanes
    /\ walk.pc \in {"none", "refused", "pick", "probing", "starting", "waiting", "stopping",
                    "settled", "completing", "done"}
    /\ walk.at \in 1 .. Len(Ladder) + 1
    /\ walk.outcome \in {None, "completed", "failed", "abandoned"}
    /\ waiter \in [Lanes -> {"none", "confirmed", "unconfirmed", "returned"}]
    /\ outcome \in [Lanes -> {None, "completed", "failed"}]
    /\ local \in [Lanes -> {"none", "running", "ended"}]
    /\ \A a \in Loops : mail[a].reply \in Replies \cup {None}

Alive(lane) == \E l \in Broker!Launches :
                  stored[l].handle = "live" /\ stored[l].id = lane

\* "Wait for a started/possibly-started daemon execution without ever
\* duplicating it locally": an attempt never runs at the daemon and in the
\* server at once, whichever requests and answers were lost.
NeverInBothPlaces == \A lane \in Lanes : ~(local[lane] = "running" /\ Alive(lane))

\* No late answer, of the walk, of a waiter or of the tool, revives a job that
\* has ended or undoes a cancellation ("do not overwrite a cancel").
CancelledStaysCancelled ==
    [][/\ job.status = "cancelled" => job'.status = "cancelled"
       /\ job.status \notin {None, "running"} => job'.status # "running"]_vars

\* No late write of the walk or of a waiter brings back the journal row of a job
\* that has ended: after a restart it would be reported as killed.
EndedJobLeavesNoRow == job.status \notin {None, "running"} => row = None

\* What the walk, its waiters and a replacement process leave behind agrees: an
\* attempt is in one place, and an ended job is in none.
WalkLeavesNothingBehind == NeverInBothPlaces /\ EndedJobLeavesNoRow

\* A walk that was started ends, and the job with it.
WalkEnds == (walk.pc = "pick") ~> (walk.pc = "done" /\ ~Running)

-----------------------------------------------------------------------------
\* For model checking: a ladder of a lane that can be left and a last one.
TwoLanes == <<"lane1", "lane2">>
=============================================================================
