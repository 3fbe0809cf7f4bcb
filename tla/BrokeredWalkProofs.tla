------------------------- MODULE BrokeredWalkProofs -------------------------
(***************************************************************************)
(* Proofs about one dispatched job and the daemon's broker, for any ladder,*)
(* any limits of the broker and any number of restarts and cancels, with   *)
(* every request and every answer liable to be lost.                       *)
(*                                                                         *)
(* The argument for one place per attempt: the first start of a lane is    *)
(* the walker's, so until it is handled the broker does not know the lane; *)
(* the server runs a lane itself only when no start of it was ever sent,   *)
(* or when the broker refused to launch it, and then no waiter sends the   *)
(* start again.                                                            *)
(***************************************************************************)
EXTENDS BrokeredWalk, TLAPS

Pcs == {"none", "refused", "pick", "probing", "starting", "waiting", "stopping",
        "settled", "completing", "done"}

\* The types of the state.  The status of an object the map names is never
\* "unlaunched", which these proofs do not need.
Mails == [state : {"idle", "sent", "answered"}, action : {None, "start", "status", "cancel"},
          id : Lanes \cup {None}, reply : Replies \cup {None, "unlaunched"}]
WalkTypes ==
    /\ job \in [status : JobStatuses, lane : Lanes \cup {None}, execution : Lanes \cup {None}]
    /\ row \in {None, "local"} \cup Lanes
    /\ walk \in [pc : Pcs, at : 1 .. Len(Ladder) + 1,
                 outcome : {None, "completed", "failed", "abandoned"}]
    /\ waiter \in [Lanes -> {"none", "confirmed", "unconfirmed", "returned"}]
    /\ outcome \in [Lanes -> {None, "completed", "failed"}]
    /\ local \in [Lanes -> {"none", "running", "ended"}]
    /\ mail \in [Loops -> Mails]

\* The walk has a lane whenever it is about one.
WalkHasALane ==
    walk.pc \in {"probing", "starting", "waiting", "stopping", "settled", "completing"}
       => walk.at <= Len(Ladder)

\* A job that does not run names no execution and has no row, and before it is
\* dispatched there is none.
IdleJobNamesNothing ==
    /\ job.status # "running" => job.execution = None /\ row = None
    /\ walk.pc = "none" => job.status = None

\* Nothing has been done for this lane.
Fresh(lane) == /\ waiter[lane] = "none"
               /\ local[lane] = "none"
               /\ ~Alive(lane)
               /\ executions[lane] = Broker!Absent

LanesAheadAreFresh ==
    \A i \in 1 .. Len(Ladder) :
       (walk.at < i \/ (walk.at = i /\ walk.pc \in {"none", "refused", "pick", "probing"}))
          => Fresh(Ladder[i])

\* Who awaits an answer, and of what: the walker of its probe and its first
\* start, a waiter of its own lane, the stoppers and the tool of a cancel.
MailIsTheirs ==
    /\ mail[Walker].state # "idle" =>
          /\ mail[Walker].id = Lane
          /\ \/ walk.pc = "probing" /\ mail[Walker].action = "status"
             \/ walk.pc = "starting" /\ mail[Walker].action = "start"
    /\ \A lane \in Lanes :
          /\ mail[Waiter(lane)].state # "idle" =>
                waiter[lane] \in {"confirmed", "unconfirmed"} /\ mail[Waiter(lane)].id = lane
          /\ mail[Stopper(lane)].action # "start"
          /\ mail[Stopper(lane)].state # "idle" => mail[Stopper(lane)].id \in Lanes
    /\ mail[Tool].action # "start"
    /\ mail[Tool].state # "idle" => mail[Tool].id \in Lanes

\* The first start: until it is handled the broker does not know the lane, and
\* a launch that failed left nothing.
StartedFirst(lane) ==
    /\ waiter[lane] = "none" /\ local[lane] = "none"
    /\ mail[Walker].state = "sent" => ~Alive(lane) /\ executions[lane] = Broker!Absent
    /\ mail[Walker].reply = "503" => ~Alive(lane)
FirstStart == walk.pc = "starting" => StartedFirst(Lane)

\* A lane the server has run itself has no waiter and is not the daemon's.
LocalIsAlone == \A lane \in Lanes : local[lane] # "none" => waiter[lane] = "none" /\ ~Alive(lane)

WalkInv == /\ Broker!TypeOK
           /\ WalkTypes
           /\ WalkHasALane
           /\ IdleJobNamesNothing
           /\ LanesAheadAreFresh
           /\ MailIsTheirs
           /\ FirstStart
           /\ LocalIsAlone

-----------------------------------------------------------------------------
\* The loops are apart from each other.
LEMMA LoopsAreApart ==
    /\ Walker \in Loops /\ Tool \in Loops /\ Walker # Tool
    /\ \A lane \in Lanes :
          /\ Waiter(lane) \in Loops /\ Stopper(lane) \in Loops
          /\ Waiter(lane) # Walker /\ Waiter(lane) # Tool
          /\ Stopper(lane) # Walker /\ Stopper(lane) # Tool
          /\ \A other \in Lanes : /\ Waiter(lane) # Stopper(other)
                                  /\ Waiter(lane) = Waiter(other) => lane = other
                                  /\ Stopper(lane) = Stopper(other) => lane = other
    /\ \A a \in Loops : \/ a = Walker
                        \/ a = Tool
                        \/ \E lane \in Lanes : a = Waiter(lane) \/ a = Stopper(lane)
  BY DEF Loops, Walker, Tool, Waiter, Stopper

\* The lane the walk is at, and the lanes apart from it.
LEMMA LadderFacts ==
    /\ \A i \in 1 .. Len(Ladder) : Ladder[i] \in Lanes /\ Ladder[i] # None
    /\ \A i, k \in 1 .. Len(Ladder) : Ladder[i] = Ladder[k] => i = k
    /\ Len(Ladder) \in Nat /\ Len(Ladder) >= 1
    /\ None \notin Lanes
  BY LadderAssumption DEF Lanes

\* The messages, field by field.
LEMMA MessageFacts ==
    /\ Idle \in Mails /\ Idle.state = "idle" /\ Idle.action = None /\ Idle.reply = None
    /\ \A action \in {"start", "status", "cancel"}, id \in Lanes \cup {None} :
          /\ Sent(action, id) \in Mails
          /\ Sent(action, id).state = "sent" /\ Sent(action, id).action = action
          /\ Sent(action, id).id = id /\ Sent(action, id).reply = None
  BY DEF Idle, Sent, Mails, None

\* One message changes.
LEMMA OneMail ==
    ASSUME mail \in [Loops -> Mails], NEW a \in Loops, NEW m \in Mails,
           mail' = [mail EXCEPT ![a] = m]
    PROVE  /\ mail' \in [Loops -> Mails]
           /\ mail'[a] = m
           /\ \A b \in Loops : b # a => mail'[b] = mail[b]
  OBVIOUS

-----------------------------------------------------------------------------
(* What the broker's steps may do to a lane. *)

\* An execution whose end is written is an execution still, under its own id.
LEMMA EndsAreExecutions ==
    ASSUME NEW execution \in Broker!Executions, now \in Broker!Times
    PROVE  /\ Broker!Cancelled(execution) \in Broker!Executions
           /\ Broker!Cancelled(execution).id = execution.id
           /\ Broker!Cancelled(execution).handle = execution.handle
           /\ \A result \in Broker!Results :
                 /\ Broker!Settled(execution, result) \in Broker!Executions
                 /\ Broker!Settled(execution, result).id = execution.id
                 /\ Broker!Settled(execution, result).handle = "null"
  <1>1. "cancelled" \in Broker!Statuses
        BY DEF Broker!Statuses
  <1>2. \A result : Broker!TerminalStatus(result) \in Broker!Statuses
        BY DEF Broker!Statuses, Broker!TerminalStatus
  <1>3. /\ Broker!Cancelled(execution) \in Broker!Executions
        /\ Broker!Cancelled(execution).id = execution.id
        /\ Broker!Cancelled(execution).handle = execution.handle
        BY <1>1 DEF Broker!Cancelled, Broker!Executions
  <1>4. ASSUME NEW result \in Broker!Results
        PROVE  /\ Broker!Settled(execution, result) \in Broker!Executions
               /\ Broker!Settled(execution, result).id = execution.id
               /\ Broker!Settled(execution, result).handle = "null"
        BY <1>2 DEF Broker!Settled, Broker!Executions
  <1> QED BY <1>3, <1>4

\* The broker is in a state of its own type, it has taken up no lane, and what
\* it does not know it has not learned.
BrokerForgetsAtMost ==
    /\ Broker!TypeOK'
    /\ \A lane \in Lanes : /\ Alive(lane)' => Alive(lane)
                           /\ executions[lane] = Broker!Absent => executions'[lane] = Broker!Absent

\* The same of every lane but the one that is started.
BrokerTakesUp(id) ==
    /\ Broker!TypeOK'
    /\ \A lane \in Lanes \ {id} :
          /\ Alive(lane)' => Alive(lane)
          /\ executions[lane] = Broker!Absent => executions'[lane] = Broker!Absent

\* prune leaves every entry as it is or removes it.
LEMMA PruneOnlyRemoves ==
    ASSUME NEW objects, NEW map \in [Lanes -> 0 .. MaxLaunches]
    PROVE  /\ Broker!Pruned(objects, map) \in [Lanes -> 0 .. MaxLaunches]
           /\ \A lane \in Lanes : Broker!Pruned(objects, map)[lane] \in {map[lane], Broker!Absent}
  BY WalkBounds DEF Broker!Pruned, Broker!Absent

\* A broker that nothing happens to.
LEMMA BrokerStands ==
    ASSUME Broker!TypeOK, UNCHANGED brokerVars
    PROVE  BrokerForgetsAtMost
  BY DEF BrokerForgetsAtMost, brokerVars, Broker!TypeOK, Alive

\* A lane that ends.
LEMMA SettleForgets ==
    ASSUME Broker!TypeOK, NEW l \in Broker!Launches, NEW result \in Broker!Results,
           Broker!Settle(l, result)
    PROVE  BrokerForgetsAtMost
  <1> DEFINE objects == [stored EXCEPT ![l] = Broker!Settled(stored[l], result)]
  <1>1. /\ stored' = objects /\ executions' = Broker!Pruned(objects, executions)
        /\ UNCHANGED <<now, launched, polls>>
        BY DEF Broker!Settle
  <1>2. Broker!Settled(stored[l], result) \in Broker!Executions
        BY EndsAreExecutions DEF Broker!TypeOK
  <1>3. /\ Broker!Settled(stored[l], result).id = stored[l].id
        /\ Broker!Settled(stored[l], result).handle = "null"
        BY EndsAreExecutions DEF Broker!TypeOK
  <1>4. stored' \in [Broker!Launches -> Broker!Executions]
        BY <1>1, <1>2 DEF Broker!TypeOK
  <1>5. \A lane \in Lanes : Alive(lane)' => Alive(lane)
        BY <1>1, <1>3 DEF Alive, Broker!TypeOK
  <1> HIDE DEF objects
  <1>6. executions' \in [Lanes -> 0 .. MaxLaunches]
        BY <1>1, PruneOnlyRemoves DEF Broker!TypeOK
  <1>7. \A lane \in Lanes : executions[lane] = Broker!Absent => executions'[lane] = Broker!Absent
        BY <1>1, PruneOnlyRemoves DEF Broker!TypeOK
  <1> QED BY <1>1, <1>4, <1>5, <1>6, <1>7 DEF BrokerForgetsAtMost, Broker!TypeOK

\* A cancel: the lane runs on until it ends.
LEMMA CancelForgets ==
    ASSUME Broker!TypeOK, NEW id \in Lanes, Broker!Cancel(id)
    PROVE  BrokerForgetsAtMost
  <1>1. CASE Broker!Known(id) /\ Broker!Stored(id).status = "running"
    <2> DEFINE l == executions[id]
               objects == [stored EXCEPT ![l] = Broker!Cancelled(stored[l])]
    <2>1. /\ stored' = objects /\ executions' = Broker!Pruned(objects, executions)
          /\ UNCHANGED <<now, launched, polls>>
          BY <1>1 DEF Broker!Cancel
    <2>2. l \in Broker!Launches
          BY <1>1, WalkBounds DEF Broker!Known, Broker!Absent, Broker!Launches, Broker!TypeOK
    <2>3. Broker!Cancelled(stored[l]) \in Broker!Executions
          BY <2>2, EndsAreExecutions DEF Broker!TypeOK
    <2>4. /\ Broker!Cancelled(stored[l]).id = stored[l].id
          /\ Broker!Cancelled(stored[l]).handle = stored[l].handle
          BY <2>2, EndsAreExecutions DEF Broker!TypeOK
    <2>5. stored' \in [Broker!Launches -> Broker!Executions]
          BY <2>1, <2>2, <2>3 DEF Broker!TypeOK
    <2>6. \A lane \in Lanes : Alive(lane)' => Alive(lane)
          BY <2>1, <2>2, <2>4 DEF Alive, Broker!TypeOK
    <2> HIDE DEF objects
    <2>7. executions' \in [Lanes -> 0 .. MaxLaunches]
          BY <2>1, PruneOnlyRemoves DEF Broker!TypeOK
    <2>8. \A lane \in Lanes : executions[lane] = Broker!Absent => executions'[lane] = Broker!Absent
          BY <2>1, PruneOnlyRemoves DEF Broker!TypeOK
    <2> QED BY <2>1, <2>5, <2>6, <2>7, <2>8 DEF BrokerForgetsAtMost, Broker!TypeOK
  <1>2. CASE ~(Broker!Known(id) /\ Broker!Stored(id).status = "running")
    <2>1. UNCHANGED brokerVars
          BY <1>2 DEF Broker!Cancel, brokerVars
    <2> QED BY <2>1, BrokerStands
  <1> QED BY <1>1, <1>2

\* The daemon that goes takes every lane with it.
LEMMA ShutdownForgets ==
    ASSUME Broker!TypeOK, Broker!Shutdown
    PROVE  BrokerForgetsAtMost
  <1>1. \A l \in Broker!Launches :
           stored'[l] \in Broker!Executions /\ stored'[l].handle = "null"
        BY DEF Broker!Shutdown, Broker!TypeOK, Broker!Executions, Broker!Cancelled, Broker!Statuses,
               Broker!Times
  <1>2. stored' \in [Broker!Launches -> Broker!Executions]
        BY <1>1 DEF Broker!Shutdown
  <1>3. /\ executions' = [lane \in Lanes |-> Broker!Absent] /\ polls' = {}
        /\ UNCHANGED <<now, launched>>
        BY DEF Broker!Shutdown
  <1>4. executions' \in [Lanes -> 0 .. MaxLaunches]
        BY <1>3, WalkBounds DEF Broker!Absent
  <1> QED BY <1>1, <1>2, <1>3, <1>4 DEF BrokerForgetsAtMost, Broker!TypeOK, Alive

\* Only a start that launches takes up a lane, and only its own.
LEMMA StartTakesUp ==
    ASSUME Broker!TypeOK, NEW id \in Lanes, NEW answer, Broker!Start(id, "start", answer)
    PROVE  /\ answer # "launched" => BrokerForgetsAtMost
           /\ answer = "launched" => BrokerTakesUp(id)
  <1>1. ASSUME answer # "launched" PROVE BrokerForgetsAtMost
    <2>1. UNCHANGED brokerVars
          BY <1>1 DEF Broker!Start, brokerVars
    <2> QED BY <2>1, BrokerStands
  <1>2. ASSUME answer = "launched" PROVE BrokerTakesUp(id)
    <2> DEFINE l == launched + 1
               object == [Broker!Unlaunched EXCEPT !.id = id, !.signature = "start",
                                                   !.status = "running", !.handle = "live"]
    <2>1. /\ launched < MaxLaunches /\ launched' = l
          /\ stored' = [stored EXCEPT ![l] = object]
          /\ executions' = [executions EXCEPT ![id] = l]
          /\ UNCHANGED <<now, polls>>
          BY <1>2 DEF Broker!Start
    <2>2. object \in Broker!Executions /\ object.id = id
          BY DEF Broker!Unlaunched, Broker!Executions, Broker!Statuses, Broker!Times, Broker!NotEnded,
                 Broker!NoResult
    <2> HIDE DEF object
    <2>3. l \in 1 .. MaxLaunches /\ l \in 0 .. MaxLaunches /\ l \in Broker!Launches
          BY <2>1, WalkBounds DEF Broker!TypeOK, Broker!Launches
    <2>4. /\ stored' \in [Broker!Launches -> Broker!Executions]
          /\ executions' \in [Lanes -> 0 .. MaxLaunches]
          BY <2>1, <2>2, <2>3 DEF Broker!TypeOK
    <2>5. \A lane \in Lanes \ {id} : Alive(lane)' => Alive(lane)
          BY <2>1, <2>2, <2>3 DEF Alive, Broker!TypeOK
    <2>6. \A lane \in Lanes \ {id} : executions'[lane] = executions[lane]
          BY <2>1 DEF Broker!TypeOK
    <2> QED BY <2>1, <2>3, <2>4, <2>5, <2>6 DEF BrokerTakesUp, Broker!TypeOK
  <1> QED BY <1>1, <1>2

-----------------------------------------------------------------------------
(* What a step may do to the job: it stays a record, one that does not run  *)
(* names nothing, and an end is never undone.                              *)

Jobs == [status : JobStatuses, lane : Lanes \cup {None}, execution : Lanes \cup {None}]
Rows == {None, "local"} \cup Lanes

EndsStay ==
    /\ job.status = "cancelled" => job'.status = "cancelled"
    /\ job.status \notin {None, "running"} => job'.status \notin {None, "running"}

JobMoves ==
    /\ job' \in Jobs /\ row' \in Rows
    /\ job'.status # "running" => job'.execution = None /\ row' = None
    /\ EndsStay

LocalsOnlyEnd ==
    /\ local' \in [Lanes -> {"none", "running", "ended"}]
    /\ \A lane \in Lanes : local'[lane] = "none" <=> local[lane] = "none"

JobIsWell == job \in Jobs /\ row \in Rows /\ (job.status # "running" => job.execution = None /\ row = None)

\* A job that nothing is written of.
LEMMA JobStands ==
    ASSUME JobIsWell, UNCHANGED <<job, row>>
    PROVE  JobMoves
  BY DEF JobIsWell, JobMoves, EndsStay, None, Jobs

\* The end of a job, and the local processes that end with it.
LEMMA JobEnds ==
    ASSUME JobIsWell, local \in [Lanes -> {"none", "running", "ended"}],
           NEW status \in {"completed", "failed", "cancelled"},
           \/ EndUnlessCancelled(status)
           \/ Ended(status) /\ job.status = "running"
    PROVE  JobMoves /\ LocalsOnlyEnd
  <1>1. CASE UNCHANGED <<job, row, local>>
        BY <1>1, JobStands DEF LocalsOnlyEnd
  <1>2. ASSUME Ended(status), job.status # "cancelled" PROVE JobMoves /\ LocalsOnlyEnd
    <2>1. /\ job' \in Jobs /\ job'.status = status /\ job'.execution = None
          /\ row' = None /\ row' \in Rows
          BY <1>2 DEF Ended, JobIsWell, Jobs, Rows, JobStatuses
    <2>2. LocalsOnlyEnd
          BY <1>2 DEF Ended, LocalsOnlyEnd
    <2> QED BY <2>1, <2>2, <1>2 DEF JobMoves, EndsStay, None
  <1> QED BY <1>1, <1>2 DEF EndUnlessCancelled

\* Every other write of the job store; none of them touches a job that was
\* never dispatched.
LEMMA JobIsNoted ==
    ASSUME JobIsWell, NEW lane \in Lanes, NEW reply \in Replies \cup {None, "unlaunched"},
           \/ NoteBrokerExecution(lane)
           \/ ClearBrokerExecution
           \/ MarkBrokerKilled
           \/ reply \in Snapshots /\ ApplySnapshot(lane, reply)
    PROVE  JobMoves /\ (job.status = None => job' = job)
  <1>1. CASE UNCHANGED <<job, row>>
        BY <1>1, JobStands
  <1>2. CASE /\ job.status = "running" /\ row' \in Rows
             /\ \E execution \in Lanes \cup {None} : job' = [job EXCEPT !.execution = execution]
        BY <1>2 DEF JobIsWell, JobMoves, EndsStay, Jobs, None
  <1>3. ASSUME job.status = "running", row' = None,
               NEW status \in JobStatuses \ {None, "running"},
               job' = [job EXCEPT !.status = status, !.execution = None]
        PROVE  JobMoves /\ (job.status = None => job' = job)
        BY <1>3 DEF JobIsWell, JobMoves, EndsStay, Jobs, None, Rows
  <1>4. CASE NoteBrokerExecution(lane)
        BY <1>1, <1>2, <1>4 DEF NoteBrokerExecution, Running, Rows
  <1>5. CASE ClearBrokerExecution
        BY <1>1, <1>2, <1>5 DEF ClearBrokerExecution, Running, Rows
  <1>6. CASE MarkBrokerKilled
    <2>1. "killed" \in JobStatuses \ {None, "running"}
          BY DEF JobStatuses, None
    <2> QED BY <1>1, <1>3, <1>6, <2>1 DEF MarkBrokerKilled, Running
  <1>7. CASE reply \in Snapshots /\ ApplySnapshot(lane, reply)
    <2> DEFINE status == IF reply = "cancelled with answer" THEN "cancelled" ELSE reply
    <2>1. CASE UNCHANGED <<job, row>>
          BY <2>1, JobStands
    <2>2. ASSUME job.execution = lane, reply # "running", row' = None,
                 job' = [job EXCEPT !.execution = None, !.status = status]
          PROVE  JobMoves /\ (job.status = None => job' = job)
      <3>1. job.status = "running"
            BY <2>2, LadderFacts DEF JobIsWell
      <3>2. status \in JobStatuses \ {None, "running"}
            BY <1>7, <2>2 DEF Snapshots, Broker!Statuses, JobStatuses, None
      <3>3. job' = [job EXCEPT !.status = status, !.execution = None]
            BY <2>2 DEF JobIsWell, Jobs
      <3> QED BY <3>1, <3>2, <3>3, <2>2, <1>3
    <2> QED BY <1>7, <2>1, <2>2 DEF ApplySnapshot
  <1> QED BY <1>4, <1>5, <1>6, <1>7

-----------------------------------------------------------------------------
(* What most steps leave alone: they take up no lane ahead of the walk and   *)
(* start no lane anywhere.                                                  *)

Ahead(i) == \/ walk.at < i
            \/ walk.at = i /\ walk.pc \in {"none", "refused", "pick", "probing"}

Calm ==
    /\ BrokerForgetsAtMost
    /\ \A lane \in Lanes : /\ waiter[lane] = "none" => waiter'[lane] = "none"
                           /\ local[lane] = "none" => local'[lane] = "none"
    /\ \A i \in 1 .. Len(Ladder) : Ahead(i)' => Ahead(i)
    /\ walk'.pc = "starting" =>
          /\ walk.pc = "starting" /\ walk'.at = walk.at
          /\ mail'[Walker].state = "sent" => mail[Walker].state = "sent"
          /\ mail'[Walker].reply = "503" => mail[Walker].reply = "503" \/ ~Alive(Lane)

\* Calm steps keep what is said of the lanes.
LEMMA CalmKeeps ==
    ASSUME WalkInv, Calm
    PROVE  Broker!TypeOK' /\ LanesAheadAreFresh' /\ FirstStart' /\ LocalIsAlone'
  <1>1. Broker!TypeOK'
        BY DEF Calm, BrokerForgetsAtMost
  <1>2. LanesAheadAreFresh'
    <2> SUFFICES ASSUME NEW i \in 1 .. Len(Ladder), Ahead(i)'
                 PROVE  Fresh(Ladder[i])'
        BY DEF LanesAheadAreFresh, Ahead
    <2>1. Ahead(i)
          BY DEF Calm
    <2>2. Fresh(Ladder[i]) /\ Ladder[i] \in Lanes
          BY <2>1, LadderFacts DEF WalkInv, LanesAheadAreFresh, Ahead
    <2> QED BY <2>2 DEF Calm, BrokerForgetsAtMost, Fresh
  <1>3. FirstStart'
    <2> SUFFICES ASSUME walk'.pc = "starting" PROVE StartedFirst(Lane)'
        BY DEF FirstStart
    <2>1. walk.pc = "starting" /\ walk'.at = walk.at
          BY DEF Calm
    <2>2. PICK lane \in Lanes : lane = Lane /\ lane = Lane'
          BY <2>1, LadderFacts DEF WalkInv, WalkHasALane, WalkTypes, Lane
    <2>3. StartedFirst(lane)
          BY <2>1, <2>2 DEF WalkInv, FirstStart
    <2>4. StartedFirst(lane)'
          BY <2>1, <2>2, <2>3 DEF Calm, BrokerForgetsAtMost, StartedFirst
    <2> QED BY <2>2, <2>4 DEF StartedFirst, Alive
  <1>4. LocalIsAlone'
        BY DEF Calm, BrokerForgetsAtMost, WalkInv, LocalIsAlone, WalkTypes
  <1> QED BY <1>1, <1>2, <1>3, <1>4

\* The broker stands, so nothing of it changes.
LEMMA BrokerUntouched ==
    ASSUME WalkInv, UNCHANGED brokerVars
    PROVE  BrokerForgetsAtMost
  BY BrokerStands DEF WalkInv

\* Nobody sends or receives, and the walk does not leave an answer behind.
LEMMA NoMail ==
    ASSUME WalkInv, UNCHANGED <<mail, waiter>>,
           walk' = walk \/ walk.pc \notin {"probing", "starting"}
    PROVE  MailIsTheirs'
  <1>1. CASE walk' = walk
        BY <1>1 DEF WalkInv, MailIsTheirs, Lane
  <1>2. CASE walk.pc \notin {"probing", "starting"}
    <2>1. mail'[Walker].state = "idle"
          BY <1>2, LoopsAreApart DEF WalkInv, MailIsTheirs, WalkTypes, Mails
    <2> QED BY <2>1 DEF WalkInv, MailIsTheirs
  <1> QED BY <1>1, <1>2

\* One loop other than the walker's gets a new message, which is its own.
LEMMA SideMail ==
    ASSUME WalkInv, NEW a \in Loops \ {Walker}, NEW m \in Mails, mail' = [mail EXCEPT ![a] = m],
           walk' = walk \/ walk.pc \notin {"probing", "starting"},
           a = Tool => m.action # "start" /\ (m.state # "idle" => m.id \in Lanes),
           \A lane \in Lanes :
              /\ a = Stopper(lane) => m.action # "start" /\ (m.state # "idle" => m.id \in Lanes)
              /\ a = Waiter(lane) /\ m.state # "idle" =>
                    waiter'[lane] \in {"confirmed", "unconfirmed"} /\ m.id = lane
              /\ a # Waiter(lane) => waiter'[lane] = waiter[lane]
    PROVE  MailIsTheirs' /\ mail' \in [Loops -> Mails] /\ mail'[Walker] = mail[Walker]
  <1>1. /\ mail' \in [Loops -> Mails] /\ mail'[a] = m
        /\ \A b \in Loops : b # a => mail'[b] = mail[b]
        BY OneMail DEF WalkInv, WalkTypes
  <1>2. mail'[Walker] = mail[Walker]
        BY <1>1, LoopsAreApart
  <1>3. mail'[Walker].state # "idle" =>
          /\ mail'[Walker].id = Lane'
          /\ \/ walk'.pc = "probing" /\ mail'[Walker].action = "status"
             \/ walk'.pc = "starting" /\ mail'[Walker].action = "start"
    <2>1. CASE walk' = walk
          BY <1>2, <2>1 DEF WalkInv, MailIsTheirs, Lane
    <2>2. CASE walk.pc \notin {"probing", "starting"}
          BY <1>2, <2>2 DEF WalkInv, MailIsTheirs
    <2> QED BY <2>1, <2>2
  <1>4. ASSUME NEW lane \in Lanes
        PROVE  /\ mail'[Waiter(lane)].state # "idle" =>
                     waiter'[lane] \in {"confirmed", "unconfirmed"} /\ mail'[Waiter(lane)].id = lane
               /\ mail'[Stopper(lane)].action # "start"
               /\ mail'[Stopper(lane)].state # "idle" => mail'[Stopper(lane)].id \in Lanes
    <2>1. Waiter(lane) \in Loops /\ Stopper(lane) \in Loops
          BY LoopsAreApart
    <2>2. mail[Waiter(lane)].state # "idle" =>
             waiter[lane] \in {"confirmed", "unconfirmed"} /\ mail[Waiter(lane)].id = lane
          BY DEF WalkInv, MailIsTheirs
    <2>3. /\ mail[Stopper(lane)].action # "start"
          /\ mail[Stopper(lane)].state # "idle" => mail[Stopper(lane)].id \in Lanes
          BY DEF WalkInv, MailIsTheirs
    <2>4. /\ mail'[Stopper(lane)].action # "start"
          /\ mail'[Stopper(lane)].state # "idle" => mail'[Stopper(lane)].id \in Lanes
          BY <1>1, <2>1, <2>3
    <2>5. CASE a = Waiter(lane)
          BY <1>1, <2>4, <2>5
    <2>6. CASE a # Waiter(lane)
          BY <1>1, <2>1, <2>2, <2>4, <2>6
    <2> QED BY <2>5, <2>6
  <1>5. mail'[Tool].action # "start" /\ (mail'[Tool].state # "idle" => mail'[Tool].id \in Lanes)
        BY <1>1, LoopsAreApart DEF WalkInv, MailIsTheirs
  <1>6. MailIsTheirs'
        BY <1>3, <1>4, <1>5 DEF MailIsTheirs, Walker, Tool, Waiter, Stopper
  <1> QED BY <1>1, <1>2, <1>6

\* The invariant, from the part a calm step keeps and the rest.
LEMMA CalmInv ==
    ASSUME WalkInv, Calm, WalkTypes', WalkHasALane', IdleJobNamesNothing', MailIsTheirs'
    PROVE  WalkInv'
  BY CalmKeeps DEF WalkInv

\* What the invariant says of the job.
LEMMA JobIsWellNow == WalkInv => JobIsWell /\ local \in [Lanes -> {"none", "running", "ended"}]
  BY DEF WalkInv, WalkTypes, IdleJobNamesNothing, JobIsWell, Jobs, Rows

-----------------------------------------------------------------------------
(* The steps of the walk that neither send nor receive.                     *)

\* The first step: a job, and a walk that picks or a dispatch that is refused.
LEMMA DispatchKeeps ==
    ASSUME WalkInv, Dispatch
    PROVE  WalkInv' /\ EndsStay
  <1>1. /\ walk.pc = "none"
        /\ walk' = [walk EXCEPT !.pc = "pick"] \/ walk' = [walk EXCEPT !.pc = "refused"]
        /\ UNCHANGED <<waiter, outcome, local, mail>> /\ UNCHANGED brokerVars
        BY DEF Dispatch
  <1>2. walk' \in [pc : Pcs, at : 1 .. Len(Ladder) + 1,
                   outcome : {None, "completed", "failed", "abandoned"}]
        BY <1>1 DEF WalkInv, WalkTypes, Pcs
  <1>3. walk'.at = walk.at /\ walk'.pc \in {"pick", "refused"}
        BY <1>1 DEF WalkInv, WalkTypes
  <1>4. Calm
        BY <1>1, <1>3, BrokerUntouched DEF Calm, Ahead
  <1>5. job' = [status |-> "running", lane |-> Ladder[1], execution |-> None] /\ row' = "local"
        BY DEF Dispatch
  <1>6. job' \in Jobs /\ job'.status = "running" /\ row' \in Rows
        BY <1>5, LadderFacts DEF Jobs, JobStatuses, Rows
  <1>7. WalkTypes'
        BY <1>1, <1>2, <1>6 DEF WalkInv, WalkTypes, Jobs, Rows
  <1>8. WalkHasALane' /\ IdleJobNamesNothing'
        BY <1>3, <1>6 DEF WalkHasALane, IdleJobNamesNothing
  <1>9. MailIsTheirs'
        BY <1>1, NoMail
  <1>10. EndsStay
        BY <1>1, <1>6 DEF EndsStay, WalkInv, IdleJobNamesNothing, None
  <1> QED BY <1>4, <1>7, <1>8, <1>9, <1>10, CalmInv

\* The walk goes to another point without a message; the job may end.
LEMMA WalkMovesOn ==
    ASSUME WalkInv, UNCHANGED <<waiter, mail>>, UNCHANGED brokerVars,
           walk.pc \in {"pick", "waiting", "settled", "completing"},
           walk' \in [pc : Pcs, at : 1 .. Len(Ladder) + 1,
                      outcome : {None, "completed", "failed", "abandoned"}],
           \/ walk'.at = walk.at /\ walk'.pc \in {"settled", "completing", "done"}
           \/ walk'.at = walk.at + 1 /\ walk'.pc = "pick",
           walk'.pc \in {"settled", "completing"} => walk.at <= Len(Ladder),
           outcome' \in [Lanes -> {None, "completed", "failed"}],
           JobMoves, LocalsOnlyEnd
    PROVE  WalkInv' /\ EndsStay
  <1>1. Calm
    <2>1. \A i \in 1 .. Len(Ladder) : Ahead(i)' => Ahead(i)
          BY DEF Ahead, WalkInv, WalkTypes
    <2> QED BY <2>1, BrokerUntouched DEF Calm, LocalsOnlyEnd
  <1>2. WalkTypes'
        BY DEF WalkInv, WalkTypes, JobMoves, LocalsOnlyEnd, Jobs, Rows
  <1>3. WalkHasALane' /\ IdleJobNamesNothing'
        BY DEF WalkHasALane, IdleJobNamesNothing, JobMoves
  <1>4. MailIsTheirs'
        BY NoMail
  <1> QED BY <1>1, <1>2, <1>3, <1>4, CalmInv DEF JobMoves

\* The top of the loop, and a working directory that is refused.
LEMMA PickKeeps ==
    ASSUME WalkInv, Pick \/ RefuseDirectory
    PROVE  WalkInv' /\ EndsStay
  <1>1. /\ walk.pc = "pick" /\ UNCHANGED <<waiter, mail>> /\ UNCHANGED brokerVars
        /\ UNCHANGED outcome
        BY DEF Pick, RefuseDirectory
  <1>2. \/ walk' = [walk EXCEPT !.pc = "done"]
        \/ walk.at <= Len(Ladder) /\ walk' = [walk EXCEPT !.at = walk.at + 1]
        BY DEF Pick, RefuseDirectory
  <1>3. UNCHANGED <<job, row, local>> \/ EndUnlessCancelled("failed")
        BY DEF Pick, RefuseDirectory
  <1>4. JobMoves /\ LocalsOnlyEnd
        BY <1>3, JobIsWellNow, JobStands, JobEnds DEF LocalsOnlyEnd
  <1>5. /\ walk' \in [pc : Pcs, at : 1 .. Len(Ladder) + 1,
                      outcome : {None, "completed", "failed", "abandoned"}]
        /\ \/ walk'.at = walk.at /\ walk'.pc = "done"
           \/ walk'.at = walk.at + 1 /\ walk'.pc = "pick"
        BY <1>1, <1>2, LadderFacts DEF WalkInv, WalkTypes, Pcs
  <1>6. outcome' \in [Lanes -> {None, "completed", "failed"}]
        BY <1>1 DEF WalkInv, WalkTypes
  <1> QED BY <1>1, <1>4, <1>5, <1>6, WalkMovesOn

\* A lane that returned, what follows an attempt, and the end.
LEMMA WalkEndsKeep ==
    ASSUME WalkInv, LaneReturns \/ AttemptOver \/ Complete
    PROVE  WalkInv' /\ EndsStay
  <1>1. /\ walk.pc \in {"waiting", "settled", "completing"}
        /\ UNCHANGED <<waiter, mail>> /\ UNCHANGED brokerVars
        /\ outcome' \in [Lanes -> {None, "completed", "failed"}]
        BY DEF LaneReturns, AttemptOver, Complete, WalkInv, WalkTypes
  <1>2. walk.at <= Len(Ladder) /\ walk.at \in Nat /\ walk.at >= 1 /\ Len(Ladder) \in Nat
        BY <1>1, LadderFacts DEF WalkInv, WalkHasALane, WalkTypes
  <1>3. Lane \in Lanes
        BY <1>2, LadderFacts DEF Lane
  <1>4. CASE LaneReturns
    <2>1. walk' = [walk EXCEPT !.pc = "settled", !.outcome = outcome[Lane]]
          BY <1>4 DEF LaneReturns
    <2>2. outcome[Lane] \in {None, "completed", "failed", "abandoned"}
          BY <1>3 DEF WalkInv, WalkTypes
    <2>3. /\ walk' \in [pc : Pcs, at : 1 .. Len(Ladder) + 1,
                        outcome : {None, "completed", "failed", "abandoned"}]
          /\ walk'.at = walk.at /\ walk'.pc = "settled"
          BY <2>1, <2>2 DEF WalkInv, WalkTypes, Pcs
    <2>4. UNCHANGED <<job, row, local>>
          BY <1>4 DEF LaneReturns
    <2>5. JobMoves /\ LocalsOnlyEnd
          BY <2>4, JobIsWellNow, JobStands DEF LocalsOnlyEnd
    <2> QED BY <1>1, <1>2, <2>3, <2>5, WalkMovesOn
  <1>5. CASE AttemptOver
    <2>1. \/ walk' = [walk EXCEPT !.pc = "done"]
          \/ walk' = [walk EXCEPT !.pc = "completing"]
          \/ ~IsLast /\ walk' = [pc |-> "pick", at |-> walk.at + 1, outcome |-> None]
          BY <1>5 DEF AttemptOver
    <2>2. /\ walk' \in [pc : Pcs, at : 1 .. Len(Ladder) + 1,
                        outcome : {None, "completed", "failed", "abandoned"}]
          /\ \/ walk'.at = walk.at /\ walk'.pc \in {"done", "completing"}
             \/ walk'.at = walk.at + 1 /\ walk'.pc = "pick"
          BY <1>2, <2>1 DEF WalkInv, WalkTypes, Pcs, IsLast
    <2>3. UNCHANGED local /\ (UNCHANGED <<job, row>> \/ ClearBrokerExecution)
          BY <1>5 DEF AttemptOver
    <2>4. None \in Replies \cup {None, "unlaunched"}
          OBVIOUS
    <2>5. JobMoves
          BY <1>3, <2>3, <2>4, JobIsWellNow, JobStands, JobIsNoted
    <2>6. LocalsOnlyEnd
          BY <2>3, JobIsWellNow DEF LocalsOnlyEnd
    <2> QED BY <1>1, <1>2, <2>2, <2>5, <2>6, WalkMovesOn
  <1>6. CASE Complete
    <2>1. walk' = [walk EXCEPT !.pc = "done"]
          BY <1>6 DEF Complete
    <2>2. /\ walk' \in [pc : Pcs, at : 1 .. Len(Ladder) + 1,
                        outcome : {None, "completed", "failed", "abandoned"}]
          /\ walk'.at = walk.at /\ walk'.pc = "done"
          BY <2>1 DEF WalkInv, WalkTypes, Pcs
    <2>3. EndUnlessCancelled("completed") \/ EndUnlessCancelled("failed")
          BY <1>6 DEF Complete
    <2>4. JobMoves /\ LocalsOnlyEnd
          BY <2>3, JobIsWellNow, JobEnds
    <2> QED BY <1>1, <1>2, <2>2, <2>4, WalkMovesOn
  <1> QED BY <1>4, <1>5, <1>6

-----------------------------------------------------------------------------
(* The steps that end a lane here, the stopper's and the tool's.            *)

\* A process of the server ends.
LEMMA LocalStepsKeep ==
    ASSUME WalkInv, NEW lane \in Lanes, LocalEnds(lane) \/ LocalKilled(lane)
    PROVE  WalkInv' /\ EndsStay
  <1>1. /\ UNCHANGED <<job, row, walk, waiter, mail>> /\ UNCHANGED brokerVars
        /\ local' \in [Lanes -> {"none", "running", "ended"}]
        /\ outcome' \in [Lanes -> {None, "completed", "failed"}]
        /\ \A other \in Lanes : local[other] = "none" => local'[other] = "none"
        BY DEF LocalEnds, LocalKilled, WalkInv, WalkTypes
  <1>2. Calm
        BY <1>1, BrokerUntouched DEF Calm, Ahead
  <1>3. WalkTypes' /\ WalkHasALane' /\ IdleJobNamesNothing'
        BY <1>1 DEF WalkInv, WalkTypes, WalkHasALane, IdleJobNamesNothing
  <1>4. MailIsTheirs'
        BY <1>1, NoMail
  <1> QED BY <1>1, <1>2, <1>3, <1>4, CalmInv DEF EndsStay

\* A lane of the daemon ends, or the daemon does.
LEMMA DaemonStepsKeep ==
    ASSUME WalkInv, DaemonRestarts \/ \E l \in Broker!Launches : LaneEnds(l)
    PROVE  WalkInv' /\ EndsStay
  <1>1. UNCHANGED <<job, row, walk, waiter, outcome, local, mail>>
        BY DEF DaemonRestarts, LaneEnds
  <1>2. BrokerForgetsAtMost
    <2>1. CASE DaemonRestarts
          BY <2>1, ShutdownForgets DEF DaemonRestarts, WalkInv
    <2>2. ASSUME NEW l \in Broker!Launches, LaneEnds(l) PROVE BrokerForgetsAtMost
      <3>1. PICK result \in {[code |-> "zero", timedOut |-> "no"],
                             [code |-> "nonzero", timedOut |-> "no"]} : Broker!Settle(l, result)
            BY <2>2 DEF LaneEnds
      <3>2. result \in Broker!Results
            BY DEF Broker!Results
      <3> QED BY <3>1, <3>2, SettleForgets DEF WalkInv
    <2> QED BY <2>1, <2>2
  <1>3. Calm
        BY <1>1, <1>2 DEF Calm, Ahead
  <1>4. WalkTypes' /\ WalkHasALane' /\ IdleJobNamesNothing'
        BY <1>1 DEF WalkInv, WalkTypes, WalkHasALane, IdleJobNamesNothing
  <1>5. MailIsTheirs'
        BY <1>1, NoMail
  <1> QED BY <1>1, <1>3, <1>4, <1>5, CalmInv DEF EndsStay

\* The lane the walk is at, while it is about one.
LEMMA WalkLane ==
    ASSUME WalkInv, walk.at <= Len(Ladder)
    PROVE  /\ walk.at \in 1 .. Len(Ladder) /\ Lane = Ladder[walk.at] /\ Lane \in Lanes /\ Lane # None
           /\ \A i \in 1 .. Len(Ladder) : Ladder[i] = Lane => i = walk.at
  <1>1. walk.at \in 1 .. Len(Ladder)
        BY LadderFacts DEF WalkInv, WalkTypes
  <1> QED BY <1>1, LadderFacts DEF Lane

\* A lane is given up, and stopped.
LEMMA StopperKeeps ==
    ASSUME WalkInv, GiveUpLane \/ StopAnswered
    PROVE  WalkInv' /\ EndsStay
  <1>1. /\ walk.pc \in {"waiting", "stopping"} /\ UNCHANGED <<job, row, waiter, outcome>>
        /\ UNCHANGED brokerVars
        BY DEF GiveUpLane, StopAnswered
  <1>2. walk.at <= Len(Ladder) /\ Lane \in Lanes
        BY <1>1, WalkLane DEF WalkInv, WalkHasALane
  <1>3. \/ walk' = walk
        \/ walk' = [walk EXCEPT !.pc = "stopping"]
        \/ walk' = [walk EXCEPT !.pc = "settled", !.outcome = "abandoned"]
        BY DEF GiveUpLane, StopAnswered
  <1>4. /\ walk' \in [pc : Pcs, at : 1 .. Len(Ladder) + 1,
                      outcome : {None, "completed", "failed", "abandoned"}]
        /\ walk'.at = walk.at /\ walk'.pc \in {"waiting", "stopping", "settled"}
        BY <1>1, <1>3 DEF WalkInv, WalkTypes, Pcs
  <1>5. /\ local' \in [Lanes -> {"none", "running", "ended"}]
        /\ \A lane \in Lanes : local[lane] = "none" => local'[lane] = "none"
        BY <1>2 DEF GiveUpLane, StopAnswered, WalkInv, WalkTypes
  <1>6. \/ UNCHANGED mail
        \/ mail' = [mail EXCEPT ![Stopper(Lane)] = Idle]
        \/ mail' = [mail EXCEPT ![Stopper(Lane)] = Sent("cancel", Lane)]
        BY DEF GiveUpLane, StopAnswered
  <1>7. MailIsTheirs' /\ mail' \in [Loops -> Mails]
    <2>1. CASE UNCHANGED mail
          BY <1>1, <2>1, NoMail DEF WalkInv, WalkTypes
    <2>2. ASSUME NEW m \in Mails, m.action # "start", m.state # "idle" => m.id \in Lanes,
                 mail' = [mail EXCEPT ![Stopper(Lane)] = m]
          PROVE  MailIsTheirs' /\ mail' \in [Loops -> Mails]
      <3>1. /\ Stopper(Lane) \in Loops \ {Walker} /\ Stopper(Lane) # Tool
            /\ \A lane \in Lanes : Stopper(Lane) # Waiter(lane)
            BY <1>2, LoopsAreApart
      <3> QED BY <1>1, <2>2, <3>1, SideMail
    <2>3. /\ Idle \in Mails /\ Idle.action # "start" /\ Idle.state = "idle"
          /\ Sent("cancel", Lane) \in Mails /\ Sent("cancel", Lane).action # "start"
          /\ Sent("cancel", Lane).id \in Lanes
          BY <1>2, MessageFacts DEF None
    <2> QED BY <1>6, <2>1, <2>2, <2>3
  <1>8. Calm
        BY <1>1, <1>4, <1>5, BrokerUntouched DEF Calm, Ahead
  <1>9. WalkTypes'
        BY <1>1, <1>4, <1>5, <1>7 DEF WalkInv, WalkTypes
  <1>10. WalkHasALane' /\ IdleJobNamesNothing'
        BY <1>1, <1>2, <1>4 DEF WalkHasALane, IdleJobNamesNothing, WalkInv
  <1> QED BY <1>1, <1>7, <1>8, <1>9, <1>10, CalmInv DEF EndsStay

\* dispatch_cancel and its answer.
LEMMA ToolKeeps ==
    ASSUME WalkInv, CancelJob \/ CancelAnswered
    PROVE  WalkInv' /\ EndsStay
  <1>1. UNCHANGED <<walk, waiter, outcome>> /\ UNCHANGED brokerVars
        BY DEF CancelJob, CancelAnswered
  <1>2. JobIsWell /\ local \in [Lanes -> {"none", "running", "ended"}]
        BY JobIsWellNow
  <1>3. mail[Tool] \in Mails /\ Tool \in Loops \ {Walker}
        /\ (\A lane \in Lanes : Tool # Waiter(lane) /\ Tool # Stopper(lane))
        BY LoopsAreApart DEF WalkInv, WalkTypes
  <1>4. JobMoves /\ LocalsOnlyEnd /\ (job.status = None => job' = job)
    <2>1. CASE CancelJob
      <3>1. job.status = "running"
            BY <2>1 DEF CancelJob, Running
      <3>2. UNCHANGED <<job, row, local>> \/ Ended("cancelled")
            BY <2>1 DEF CancelJob
      <3> QED BY <1>2, <3>1, <3>2, JobStands, JobEnds DEF LocalsOnlyEnd, None
    <2>2. CASE CancelAnswered
      <3>1. /\ mail[Tool].state = "answered" /\ UNCHANGED local
            /\ \/ MarkBrokerKilled
               \/ mail[Tool].reply \in Snapshots /\ ApplySnapshot(mail[Tool].id, mail[Tool].reply)
               \/ UNCHANGED <<job, row>>
            BY <2>2 DEF CancelAnswered, ApplySnapshot
      <3>2. /\ mail[Tool].id \in Lanes
            /\ mail[Tool].reply \in Replies \cup {None, "unlaunched"}
            BY <1>3, <3>1 DEF WalkInv, MailIsTheirs, Mails
      <3>3. JobMoves /\ (job.status = None => job' = job)
            BY <1>2, <3>1, <3>2, JobStands, JobIsNoted
      <3> QED BY <1>2, <3>1, <3>3 DEF LocalsOnlyEnd
    <2> QED BY <2>1, <2>2
  <1>5. MailIsTheirs' /\ mail' \in [Loops -> Mails] /\ mail'[Walker] = mail[Walker]
    <2>1. CASE UNCHANGED mail
          BY <1>1, <2>1, NoMail DEF WalkInv, WalkTypes
    <2>2. CASE mail' = [mail EXCEPT ![Tool] = Idle]
      <3>1. Idle \in Mails /\ Idle.state = "idle" /\ Idle.action # "start"
            BY MessageFacts DEF None
      <3> QED BY <1>1, <1>3, <2>2, <3>1, SideMail
    <2>3. CASE CancelJob /\ mail' = [mail EXCEPT ![Tool] = Sent("cancel", job.execution)]
                         /\ job.execution # None
      <3>1. job.execution \in Lanes
            BY <1>2, <2>3 DEF JobIsWell, Jobs
      <3>2. /\ Sent("cancel", job.execution) \in Mails
            /\ Sent("cancel", job.execution).action # "start"
            /\ Sent("cancel", job.execution).id \in Lanes
            BY <3>1, MessageFacts
      <3> QED BY <1>1, <1>3, <2>3, <3>2, SideMail
    <2> QED BY <2>1, <2>2, <2>3 DEF CancelJob, CancelAnswered
  <1>6. Calm
        BY <1>1, <1>4, <1>5, BrokerUntouched DEF Calm, Ahead, LocalsOnlyEnd
  <1>7. WalkTypes'
        BY <1>1, <1>4, <1>5 DEF WalkInv, WalkTypes, JobMoves, Jobs, Rows, LocalsOnlyEnd
  <1>8. WalkHasALane' /\ IdleJobNamesNothing'
        BY <1>1, <1>4 DEF WalkInv, WalkHasALane, IdleJobNamesNothing, JobMoves
  <1> QED BY <1>4, <1>5, <1>6, <1>7, <1>8, CalmInv DEF JobMoves

\* A waiter takes an answer and asks again, or returns.
LEMMA WaiterKeeps ==
    ASSUME WalkInv, NEW lane \in Lanes, WaiterStep(lane)
    PROVE  WalkInv' /\ EndsStay
  <1>1. /\ waiter[lane] \in {"confirmed", "unconfirmed"} /\ mail[Waiter(lane)].state = "answered"
        /\ UNCHANGED <<walk, local>> /\ UNCHANGED brokerVars
        BY DEF WaiterStep
  <1>2. /\ UNCHANGED <<job, row>> \/ ClearBrokerExecution
        /\ outcome' \in [Lanes -> {None, "completed", "failed"}]
    <2>1. UNCHANGED <<job, row>> \/ ClearBrokerExecution
          BY DEF WaiterStep
    <2>2. \A reply : Judged(reply) \subseteq {"completed", "failed"}
          BY DEF Judged
    <2>3. UNCHANGED outcome \/ \E judged \in {"completed", "failed"} :
                                  outcome' = [outcome EXCEPT ![lane] = judged]
          BY <2>2 DEF WaiterStep
    <2> QED BY <2>1, <2>3 DEF WalkInv, WalkTypes
  <1>3. None \in Replies \cup {None, "unlaunched"}
        OBVIOUS
  <1>4. JobMoves /\ (job.status = None => job' = job)
        BY <1>2, <1>3, JobIsWellNow, JobStands, JobIsNoted
  <1>5. /\ waiter' \in [Lanes -> {"none", "confirmed", "unconfirmed", "returned"}]
        /\ \A other \in Lanes : other # lane => waiter'[other] = waiter[other]
        BY DEF WaiterStep, WalkInv, WalkTypes
  <1>6. \/ mail' = [mail EXCEPT ![Waiter(lane)] = Idle]
        \/ /\ waiter'[lane] \in {"confirmed", "unconfirmed"}
           /\ \/ mail' = [mail EXCEPT ![Waiter(lane)] = Sent("status", lane)]
              \/ mail' = [mail EXCEPT ![Waiter(lane)] = Sent("start", lane)]
        BY <1>1 DEF WaiterStep, WalkInv, WalkTypes
  <1>7. /\ Waiter(lane) \in Loops \ {Walker} /\ Waiter(lane) # Tool
        /\ \A other \in Lanes : /\ Waiter(lane) # Stopper(other)
                                /\ Waiter(lane) = Waiter(other) => other = lane
        BY LoopsAreApart
  <1>8. MailIsTheirs' /\ mail' \in [Loops -> Mails] /\ mail'[Walker] = mail[Walker]
    <2>1. ASSUME NEW m \in Mails, mail' = [mail EXCEPT ![Waiter(lane)] = m],
                 m.state # "idle" => waiter'[lane] \in {"confirmed", "unconfirmed"} /\ m.id = lane
          PROVE  MailIsTheirs' /\ mail' \in [Loops -> Mails] /\ mail'[Walker] = mail[Walker]
          BY <1>1, <1>5, <1>7, <2>1, SideMail
    <2> QED BY <1>6, <2>1, MessageFacts
  <1>9. Calm
        BY <1>1, <1>5, <1>8, BrokerUntouched DEF Calm, Ahead
  <1>10. WalkTypes'
        BY <1>1, <1>2, <1>4, <1>5, <1>8 DEF WalkInv, WalkTypes, JobMoves, Jobs, Rows
  <1>11. WalkHasALane' /\ IdleJobNamesNothing'
        BY <1>1, <1>4 DEF WalkInv, WalkHasALane, IdleJobNamesNothing, JobMoves
  <1> QED BY <1>4, <1>8, <1>9, <1>10, <1>11, CalmInv DEF JobMoves

-----------------------------------------------------------------------------
(* The steps of the walker's own requests.                                  *)

\* The walker sends, or takes its answer; nobody else is told.
LEMMA WalkersMail ==
    ASSUME WalkInv, NEW m \in Mails, mail' = [mail EXCEPT ![Walker] = m], UNCHANGED waiter,
           m.state # "idle" => /\ m.id = Lane'
                               /\ \/ walk'.pc = "probing" /\ m.action = "status"
                                  \/ walk'.pc = "starting" /\ m.action = "start"
    PROVE  MailIsTheirs' /\ mail' \in [Loops -> Mails] /\ mail'[Walker] = m
  <1>1. /\ mail' \in [Loops -> Mails] /\ mail'[Walker] = m
        /\ \A b \in Loops : b # Walker => mail'[b] = mail[b]
        BY OneMail, LoopsAreApart DEF WalkInv, WalkTypes
  <1>2. /\ mail'[Tool] = mail[Tool]
        /\ \A lane \in Lanes : /\ mail'[Waiter(lane)] = mail[Waiter(lane)]
                               /\ mail'[Stopper(lane)] = mail[Stopper(lane)]
        BY <1>1, LoopsAreApart
  <1> QED BY <1>1, <1>2 DEF WalkInv, MailIsTheirs, Walker, Tool, Waiter, Stopper

\* A lane is probed.
LEMMA StartLaneKeeps ==
    ASSUME WalkInv, StartLane
    PROVE  WalkInv' /\ EndsStay
  <1>1. /\ walk.pc = "pick" /\ walk.at <= Len(Ladder) /\ job.status = "running"
        /\ walk' = [walk EXCEPT !.pc = "probing"] /\ mail' = [mail EXCEPT ![Walker] = Sent("status", Lane)]
        /\ UNCHANGED <<waiter, outcome, local>> /\ UNCHANGED brokerVars
        BY DEF StartLane, Running
  <1>2. /\ walk' \in [pc : Pcs, at : 1 .. Len(Ladder) + 1,
                      outcome : {None, "completed", "failed", "abandoned"}]
        /\ walk'.at = walk.at /\ walk'.pc = "probing"
        BY <1>1 DEF WalkInv, WalkTypes, Pcs
  <1>3. Lane \in Lanes /\ Lane' = Lane
        BY <1>1, <1>2, WalkLane DEF Lane
  <1>4. job' = [job EXCEPT !.lane = Lane, !.execution = None] /\ row' = "local"
        BY DEF StartLane, SetCurrentLane
  <1>5. job' \in Jobs /\ job'.status = "running" /\ row' \in Rows
        BY <1>1, <1>3, <1>4 DEF WalkInv, WalkTypes, Jobs, Rows
  <1>6. /\ Sent("status", Lane) \in Mails /\ Sent("status", Lane).id = Lane
        /\ Sent("status", Lane).action = "status"
        BY <1>3, MessageFacts
  <1>7. MailIsTheirs' /\ mail' \in [Loops -> Mails]
        BY <1>1, <1>2, <1>3, <1>6, WalkersMail
  <1>8. Calm
        BY <1>1, <1>2, BrokerUntouched DEF Calm, Ahead
  <1>9. WalkTypes'
        BY <1>1, <1>2, <1>5, <1>7 DEF WalkInv, WalkTypes, Jobs, Rows
  <1>10. WalkHasALane' /\ IdleJobNamesNothing'
        BY <1>1, <1>2, <1>5 DEF WalkHasALane, IdleJobNamesNothing
  <1>11. EndsStay
        BY <1>1, <1>5 DEF EndsStay
  <1> QED BY <1>7, <1>8, <1>9, <1>10, <1>11, CalmInv

\* The server runs a lane itself that no waiter knows and the daemon has not got.
LEMMA RunsAlone ==
    ASSUME WalkInv, RunLocally, walk.at <= Len(Ladder), waiter[Lane] = "none", ~Alive(Lane),
           walk.pc \in {"probing", "starting"}, UNCHANGED brokerVars, UNCHANGED <<waiter, outcome>>,
           mail' = [mail EXCEPT ![Walker] = Idle], JobMoves, job.status = None => job' = job
    PROVE  WalkInv' /\ EndsStay
  <1>1. PICK lane \in Lanes : lane = Lane /\ \A i \in 1 .. Len(Ladder) : Ladder[i] = lane => i = walk.at
        BY WalkLane
  <1>2. local' = [local EXCEPT ![lane] = "running"] /\ walk' = [walk EXCEPT !.pc = "waiting"]
        BY <1>1 DEF RunLocally
  <1>3. /\ walk' \in [pc : Pcs, at : 1 .. Len(Ladder) + 1,
                      outcome : {None, "completed", "failed", "abandoned"}]
        /\ walk'.at = walk.at /\ walk'.pc = "waiting"
        BY <1>2 DEF WalkInv, WalkTypes, Pcs
  <1>4. /\ local' \in [Lanes -> {"none", "running", "ended"}]
        /\ \A other \in Lanes : other # lane => local'[other] = local[other]
        BY <1>2 DEF WalkInv, WalkTypes
  <1>5. BrokerForgetsAtMost
        BY BrokerUntouched
  <1>6. MailIsTheirs' /\ mail' \in [Loops -> Mails]
        BY WalkersMail, MessageFacts
  <1>7. WalkTypes'
        BY <1>3, <1>4, <1>6 DEF WalkInv, WalkTypes, JobMoves, Jobs, Rows
  <1>8. WalkHasALane' /\ IdleJobNamesNothing'
        BY <1>3 DEF WalkHasALane, IdleJobNamesNothing, JobMoves
  <1>9. LanesAheadAreFresh'
    <2> SUFFICES ASSUME NEW i \in 1 .. Len(Ladder), Ahead(i)' PROVE Fresh(Ladder[i])'
        BY DEF LanesAheadAreFresh, Ahead
    <2>1. walk.at < i
          BY <1>3 DEF Ahead
    <2>2. Fresh(Ladder[i]) /\ Ladder[i] \in Lanes /\ Ladder[i] # lane
          BY <1>1, <2>1, LadderFacts DEF WalkInv, WalkTypes, LanesAheadAreFresh
    <2> QED BY <1>4, <1>5, <2>2 DEF BrokerForgetsAtMost, Fresh
  <1>10. FirstStart'
        BY <1>3 DEF FirstStart
  <1>11. LocalIsAlone'
        BY <1>1, <1>4, <1>5 DEF BrokerForgetsAtMost, LocalIsAlone, WalkInv
  <1> QED BY <1>5, <1>6, <1>7, <1>8, <1>9, <1>10, <1>11 DEF WalkInv, BrokerForgetsAtMost, JobMoves

\* The probe is answered: the first start is sent, or the lane runs here.
LEMMA ProbeAnsweredKeeps ==
    ASSUME WalkInv, ProbeAnswered
    PROVE  WalkInv' /\ EndsStay
  <1>1. /\ walk.pc = "probing" /\ mail[Walker].state = "answered" /\ UNCHANGED brokerVars
        /\ UNCHANGED <<waiter, outcome>>
        BY DEF ProbeAnswered
  <1>2. /\ walk.at <= Len(Ladder) /\ walk.at \in 1 .. Len(Ladder)
        /\ \A i \in 1 .. Len(Ladder) : Ladder[i] = Lane => i = walk.at
        BY <1>1, WalkLane DEF WalkInv, WalkHasALane
  <1>3. PICK lane \in Lanes : lane = Lane
        BY <1>2, WalkLane
  <1>4. Fresh(lane)
        BY <1>1, <1>2, <1>3 DEF WalkInv, LanesAheadAreFresh, Lane
  <1>5. None \in Replies \cup {None, "unlaunched"}
        OBVIOUS
  <1>6. CASE mail[Walker].reply = "404"
    <2>1. /\ NoteBrokerExecution(lane) /\ mail' = [mail EXCEPT ![Walker] = Sent("start", lane)]
          /\ walk' = [walk EXCEPT !.pc = "starting"] /\ UNCHANGED local
          BY <1>3, <1>6 DEF ProbeAnswered
    <2>2. /\ walk' \in [pc : Pcs, at : 1 .. Len(Ladder) + 1,
                        outcome : {None, "completed", "failed", "abandoned"}]
          /\ walk'.at = walk.at /\ walk'.pc = "starting"
          BY <2>1 DEF WalkInv, WalkTypes, Pcs
    <2>3. Lane' = lane
          BY <1>3, <2>2 DEF Lane
    <2>4. /\ Sent("start", lane) \in Mails /\ Sent("start", lane).id = lane
          /\ Sent("start", lane).action = "start" /\ Sent("start", lane).reply = None
          BY MessageFacts
    <2>5. MailIsTheirs' /\ mail' \in [Loops -> Mails] /\ mail'[Walker] = Sent("start", lane)
          BY <1>1, <2>1, <2>2, <2>3, <2>4, WalkersMail
    <2>6. JobMoves /\ (job.status = None => job' = job)
          BY <1>5, <2>1, JobIsWellNow, JobIsNoted
    <2>7. BrokerForgetsAtMost
          BY <1>1, BrokerUntouched
    <2>8. WalkTypes'
          BY <1>1, <2>1, <2>2, <2>5, <2>6 DEF WalkInv, WalkTypes, JobMoves, Jobs, Rows
    <2>9. WalkHasALane' /\ IdleJobNamesNothing'
          BY <1>2, <2>2, <2>6 DEF WalkHasALane, IdleJobNamesNothing, JobMoves
    <2>10. LanesAheadAreFresh'
      <3> SUFFICES ASSUME NEW i \in 1 .. Len(Ladder), Ahead(i)' PROVE Fresh(Ladder[i])'
          BY DEF LanesAheadAreFresh, Ahead
      <3>1. Fresh(Ladder[i]) /\ Ladder[i] \in Lanes
            BY <2>2, LadderFacts DEF Ahead, WalkInv, LanesAheadAreFresh
      <3> QED BY <1>1, <2>1, <2>7, <3>1 DEF BrokerForgetsAtMost, Fresh
    <2>11. FirstStart'
      <3>1. StartedFirst(lane)'
            BY <1>1, <1>4, <2>1, <2>4, <2>5, <2>7 DEF BrokerForgetsAtMost, Fresh, StartedFirst, None
      <3> QED BY <2>3, <3>1 DEF FirstStart, StartedFirst, Alive
    <2>12. LocalIsAlone'
          BY <1>1, <2>1, <2>7 DEF BrokerForgetsAtMost, LocalIsAlone, WalkInv
    <2> QED BY <2>5, <2>6, <2>7, <2>8, <2>9, <2>10, <2>11, <2>12
            DEF WalkInv, BrokerForgetsAtMost, JobMoves
  <1>7. CASE mail[Walker].reply # "404"
    <2>1. /\ RunLocally /\ mail' = [mail EXCEPT ![Walker] = Idle] /\ UNCHANGED <<job, row>>
          BY <1>7 DEF ProbeAnswered
    <2>2. JobMoves /\ (job.status = None => job' = job)
          BY <2>1, JobIsWellNow, JobStands
    <2>3. waiter[Lane] = "none" /\ ~Alive(Lane)
          BY <1>3, <1>4 DEF Fresh
    <2> QED BY <1>1, <1>2, <2>1, <2>2, <2>3, RunsAlone
  <1> QED BY <1>6, <1>7

\* The first start is answered: the lane runs here, has failed, or is waited for.
LEMMA StartAnsweredKeeps ==
    ASSUME WalkInv, StartAnswered
    PROVE  WalkInv' /\ EndsStay
  <1>1. /\ walk.pc = "starting" /\ mail[Walker].state = "answered" /\ UNCHANGED brokerVars
        BY DEF StartAnswered
  <1>2. walk.at <= Len(Ladder) /\ StartedFirst(Lane)
        BY <1>1 DEF WalkInv, WalkHasALane, FirstStart
  <1>3. PICK lane \in Lanes : lane = Lane /\ \A i \in 1 .. Len(Ladder) : Ladder[i] = lane => i = walk.at
        BY <1>2, WalkLane
  <1>4. None \in Replies \cup {None, "unlaunched"}
        OBVIOUS
  <1>5. BrokerForgetsAtMost
        BY <1>1, BrokerUntouched
  <1>6. CASE /\ mail[Walker].reply = "503" /\ ClearBrokerExecution /\ RunLocally
             /\ mail' = [mail EXCEPT ![Walker] = Idle] /\ UNCHANGED <<waiter, outcome>>
    <2>1. JobMoves /\ (job.status = None => job' = job)
          BY <1>3, <1>4, <1>6, JobIsWellNow, JobIsNoted
    <2>2. waiter[Lane] = "none" /\ ~Alive(Lane)
          BY <1>2, <1>6 DEF StartedFirst
    <2> QED BY <1>1, <1>2, <1>6, <2>1, <2>2, RunsAlone
  <1>7. ASSUME walk' = [walk EXCEPT !.pc = "waiting"], JobMoves, UNCHANGED local,
               outcome' \in [Lanes -> {None, "completed", "failed"}],
               MailIsTheirs', mail' \in [Loops -> Mails],
               waiter' \in [Lanes -> {"none", "confirmed", "unconfirmed", "returned"}],
               \A other \in Lanes \ {lane} : waiter'[other] = waiter[other]
        PROVE  WalkInv' /\ EndsStay
    <2>1. /\ walk' \in [pc : Pcs, at : 1 .. Len(Ladder) + 1,
                        outcome : {None, "completed", "failed", "abandoned"}]
          /\ walk'.at = walk.at /\ walk'.pc = "waiting"
          BY <1>7 DEF WalkInv, WalkTypes, Pcs
    <2>2. WalkTypes'
          BY <1>7, <2>1 DEF WalkInv, WalkTypes, JobMoves, Jobs, Rows
    <2>3. WalkHasALane' /\ IdleJobNamesNothing'
          BY <1>2, <1>7, <2>1 DEF WalkHasALane, IdleJobNamesNothing, JobMoves
    <2>4. LanesAheadAreFresh'
      <3> SUFFICES ASSUME NEW i \in 1 .. Len(Ladder), Ahead(i)' PROVE Fresh(Ladder[i])'
          BY DEF LanesAheadAreFresh, Ahead
      <3>1. walk.at < i
            BY <2>1 DEF Ahead
      <3>2. Fresh(Ladder[i]) /\ Ladder[i] \in Lanes /\ Ladder[i] # lane
            BY <1>3, <3>1, LadderFacts DEF WalkInv, WalkTypes, LanesAheadAreFresh
      <3> QED BY <1>5, <1>7, <3>2 DEF BrokerForgetsAtMost, Fresh
    <2>5. FirstStart'
          BY <2>1 DEF FirstStart
    <2>6. local[lane] = "none"
          BY <1>2, <1>3 DEF StartedFirst
    <2>7. LocalIsAlone'
          BY <1>5, <1>7, <2>6 DEF BrokerForgetsAtMost, LocalIsAlone, WalkInv
    <2> QED BY <1>5, <1>7, <2>2, <2>3, <2>4, <2>5, <2>7 DEF WalkInv, BrokerForgetsAtMost, JobMoves
  <1>8. CASE /\ mail[Walker].reply \in Rejections \ {"503"} /\ ClearBrokerExecution
             /\ outcome' = [outcome EXCEPT ![lane] = "failed"]
             /\ walk' = [walk EXCEPT !.pc = "waiting"]
             /\ mail' = [mail EXCEPT ![Walker] = Idle]
             /\ UNCHANGED <<waiter, local>>
    <2>1. JobMoves
          BY <1>4, <1>8, JobIsWellNow, JobIsNoted
    <2>2. MailIsTheirs' /\ mail' \in [Loops -> Mails]
          BY <1>8, WalkersMail, MessageFacts
    <2>3. outcome' \in [Lanes -> {None, "completed", "failed"}]
          BY <1>8 DEF WalkInv, WalkTypes
    <2>4. waiter' \in [Lanes -> {"none", "confirmed", "unconfirmed", "returned"}]
          BY <1>8 DEF WalkInv, WalkTypes
    <2> QED BY <1>7, <1>8, <2>1, <2>2, <2>3, <2>4
  <1>9. CASE /\ \/ waiter' = [waiter EXCEPT ![lane] = "confirmed"]
                \/ waiter' = [waiter EXCEPT ![lane] = "unconfirmed"]
             /\ walk' = [walk EXCEPT !.pc = "waiting"]
             /\ mail' = [mail EXCEPT ![Walker] = Idle, ![Waiter(lane)] = mail[Walker]]
             /\ UNCHANGED <<job, row, local, outcome>>
    <2>1. JobMoves
          BY <1>9, JobIsWellNow, JobStands
    <2>2. /\ waiter' \in [Lanes -> {"none", "confirmed", "unconfirmed", "returned"}]
          /\ waiter'[lane] \in {"confirmed", "unconfirmed"}
          /\ \A other \in Lanes \ {lane} : waiter'[other] = waiter[other]
          BY <1>9 DEF WalkInv, WalkTypes
    <2>3. mail[Walker] \in Mails /\ mail[Walker].id = lane
          BY <1>1, <1>3, LoopsAreApart DEF WalkInv, WalkTypes, MailIsTheirs
    <2>4. /\ mail' \in [Loops -> Mails] /\ mail'[Walker] = Idle
          /\ mail'[Waiter(lane)] = mail[Walker]
          /\ \A b \in Loops : b \notin {Walker, Waiter(lane)} => mail'[b] = mail[b]
          BY <1>9, <2>3, LoopsAreApart, MessageFacts DEF WalkInv, WalkTypes
    <2>5. ASSUME NEW other \in Lanes
          PROVE  /\ mail'[Waiter(other)].state # "idle" =>
                       /\ waiter'[other] \in {"confirmed", "unconfirmed"}
                       /\ mail'[Waiter(other)].id = other
                 /\ mail'[Stopper(other)].action # "start"
                 /\ mail'[Stopper(other)].state # "idle" => mail'[Stopper(other)].id \in Lanes
      <3>1. mail'[Stopper(other)] = mail[Stopper(other)]
            BY <2>4, LoopsAreApart
      <3>2. CASE other = lane
            BY <2>2, <2>3, <2>4, <3>1, <3>2 DEF WalkInv, MailIsTheirs
      <3>3. CASE other # lane
        <4>1. mail'[Waiter(other)] = mail[Waiter(other)]
              BY <2>4, <3>3, LoopsAreApart
        <4> QED BY <2>2, <3>1, <3>3, <4>1 DEF WalkInv, MailIsTheirs
      <3> QED BY <3>2, <3>3
    <2>6. mail'[Tool] = mail[Tool] /\ mail'[Walker].state = "idle"
          BY <2>4, LoopsAreApart, MessageFacts
    <2>7. MailIsTheirs'
          BY <2>5, <2>6 DEF WalkInv, MailIsTheirs, Walker, Tool, Waiter, Stopper
    <2>8. outcome' \in [Lanes -> {None, "completed", "failed"}]
          BY <1>9 DEF WalkInv, WalkTypes
    <2> QED BY <1>7, <1>9, <2>1, <2>2, <2>4, <2>7, <2>8
  <1> QED BY <1>3, <1>6, <1>8, <1>9 DEF StartAnswered

-----------------------------------------------------------------------------
(* The daemon's end of the requests.                                        *)

\* A request that is under way is about a lane.
LEMMA RequestsNameLanes ==
    ASSUME WalkInv, NEW a \in Loops, mail[a].state = "sent"
    PROVE  /\ mail[a] \in Mails /\ mail[a].id \in Lanes
           /\ mail[a].action = "start" =>
                 \/ a = Walker /\ walk.pc = "starting" /\ mail[a].id = Lane
                 \/ a # Walker /\ waiter[mail[a].id] \in {"confirmed", "unconfirmed"}
  <1>1. mail[a] \in Mails
        BY DEF WalkInv, WalkTypes
  <1>2. CASE a = Walker
    <2>1. walk.pc \in {"probing", "starting"} /\ mail[a].id = Lane
          BY <1>2 DEF WalkInv, MailIsTheirs
    <2>2. Lane \in Lanes
          BY <2>1, WalkLane DEF WalkInv, WalkHasALane
    <2>3. mail[a].action = "start" => walk.pc = "starting"
          BY <1>2 DEF WalkInv, MailIsTheirs
    <2> QED BY <1>1, <1>2, <2>1, <2>2, <2>3
  <1>3. CASE a = Tool
        BY <1>1, <1>3, LoopsAreApart DEF WalkInv, MailIsTheirs
  <1>4. ASSUME NEW lane \in Lanes, a = Waiter(lane) \/ a = Stopper(lane)
        PROVE  /\ mail[a].id \in Lanes /\ a # Walker
               /\ mail[a].action = "start" => waiter[mail[a].id] \in {"confirmed", "unconfirmed"}
        BY <1>4, LoopsAreApart DEF WalkInv, MailIsTheirs
  <1> QED BY <1>1, <1>2, <1>3, <1>4, LoopsAreApart

\* An answer goes to the loop that asked.
LEMMA AnswerMail ==
    ASSUME WalkInv, UNCHANGED <<walk, waiter>>, NEW a \in Loops, mail[a].state = "sent",
           NEW seen \in Replies \cup {None, "unlaunched"},
           mail' = [mail EXCEPT ![a] = Answered(@.action, @.id, seen)]
    PROVE  /\ MailIsTheirs' /\ mail' \in [Loops -> Mails]
           /\ a # Walker => mail'[Walker] = mail[Walker]
           /\ a = Walker => mail'[Walker].state = "answered" /\ mail'[Walker].reply = seen
  <1>1. PICK m \in Mails : /\ m = Answered(mail[a].action, mail[a].id, seen)
                           /\ m.state = "answered" /\ m.action = mail[a].action
                           /\ m.id = mail[a].id /\ m.reply = seen
    <2>1. mail[a] \in Mails
          BY RequestsNameLanes
    <2> DEFINE answer == Answered(mail[a].action, mail[a].id, seen)
    <2>2. /\ answer \in Mails
          /\ answer.state = "answered" /\ answer.action = mail[a].action
          /\ answer.id = mail[a].id /\ answer.reply = seen
          BY <2>1 DEF Answered, Mails
    <2> QED BY <2>2
  <1>2. mail' = [mail EXCEPT ![a] = m]
        BY <1>1 DEF WalkInv, WalkTypes
  <1>3. CASE a = Walker
    <2>1. /\ mail[Walker].id = Lane
          /\ \/ walk.pc = "probing" /\ mail[Walker].action = "status"
             \/ walk.pc = "starting" /\ mail[Walker].action = "start"
          BY <1>3 DEF WalkInv, MailIsTheirs
    <2>2. Lane' = Lane
          BY DEF Lane
    <2> QED BY <1>1, <1>2, <1>3, <2>1, <2>2, WalkersMail
  <1>4. CASE a # Walker
    <2>1. a = Tool => m.action # "start" /\ m.id \in Lanes
          BY <1>1, RequestsNameLanes DEF WalkInv, MailIsTheirs
    <2>2. \A lane \in Lanes :
             /\ a = Stopper(lane) => m.action # "start" /\ (m.state # "idle" => m.id \in Lanes)
             /\ a = Waiter(lane) /\ m.state # "idle" =>
                   waiter'[lane] \in {"confirmed", "unconfirmed"} /\ m.id = lane
             /\ a # Waiter(lane) => waiter'[lane] = waiter[lane]
          BY <1>1, RequestsNameLanes DEF WalkInv, MailIsTheirs
    <2>3. a \in Loops \ {Walker} /\ walk' = walk
          BY <1>4
    <2>4. MailIsTheirs' /\ mail' \in [Loops -> Mails] /\ mail'[Walker] = mail[Walker]
          BY <1>2, <2>1, <2>2, <2>3, SideMail
    <2> QED BY <1>4, <2>4
  <1> QED BY <1>3, <1>4

\* An answer, with a broker that took up no lane.
LEMMA AnswersKeep ==
    ASSUME WalkInv, UNCHANGED <<job, row, walk, waiter, outcome, local>>,
           NEW a \in Loops, mail[a].state = "sent",
           NEW seen \in Replies \cup {None, "unlaunched"},
           mail' = [mail EXCEPT ![a] = Answered(@.action, @.id, seen)],
           BrokerForgetsAtMost
    PROVE  WalkInv' /\ EndsStay
  <1>1. /\ MailIsTheirs' /\ mail' \in [Loops -> Mails]
        /\ a # Walker => mail'[Walker] = mail[Walker]
        /\ a = Walker => mail'[Walker].state = "answered"
        BY AnswerMail
  <1>2. Calm
    <2>1. a = Walker /\ walk.pc = "starting" => ~Alive(Lane)
          BY DEF WalkInv, FirstStart, StartedFirst
    <2> QED BY <1>1, <2>1 DEF Calm, Ahead
  <1>3. WalkTypes' /\ WalkHasALane' /\ IdleJobNamesNothing'
        BY <1>1 DEF WalkInv, WalkTypes, WalkHasALane, IdleJobNamesNothing
  <1> QED BY <1>1, <1>2, <1>3, CalmInv DEF EndsStay

\* A launch, which only the first start of a lane or its waiter can ask for.
LEMMA LaunchKeeps ==
    ASSUME WalkInv, UNCHANGED <<job, row, walk, waiter, outcome, local>>,
           NEW a \in Loops, mail[a].state = "sent", mail[a].action = "start",
           NEW seen \in {"running", "unavailable"},
           mail' = [mail EXCEPT ![a] = Answered(@.action, @.id, seen)],
           BrokerTakesUp(mail[a].id)
    PROVE  WalkInv' /\ EndsStay
  <1> DEFINE id == mail[a].id
  <1>1. seen \in Replies \cup {None, "unlaunched"} /\ seen # "503"
        BY DEF Replies, Snapshots, Broker!Statuses
  <1>2. /\ MailIsTheirs' /\ mail' \in [Loops -> Mails]
        /\ a # Walker => mail'[Walker] = mail[Walker]
        /\ a = Walker => mail'[Walker].state = "answered" /\ mail'[Walker].reply # "503"
        BY <1>1, AnswerMail
  <1>3. /\ id \in Lanes
        /\ \/ a = Walker /\ walk.pc = "starting" /\ id = Lane
           \/ a # Walker /\ waiter[id] \in {"confirmed", "unconfirmed"}
        BY RequestsNameLanes
  <1>4. Broker!TypeOK'
        BY DEF BrokerTakesUp
  <1>5. ASSUME NEW lane \in Lanes, lane # id
        PROVE  /\ Alive(lane)' => Alive(lane)
               /\ executions[lane] = Broker!Absent => executions'[lane] = Broker!Absent
        BY <1>5 DEF BrokerTakesUp
  <1>6. local[id] = "none"
    <2>1. CASE a = Walker
          BY <1>3, <2>1 DEF WalkInv, FirstStart, StartedFirst
    <2>2. CASE a # Walker
          BY <1>3, <2>2 DEF WalkInv, LocalIsAlone
    <2> QED BY <2>1, <2>2
  <1> HIDE DEF id
  <1>7. WalkTypes' /\ WalkHasALane' /\ IdleJobNamesNothing'
        BY <1>2 DEF WalkInv, WalkTypes, WalkHasALane, IdleJobNamesNothing
  <1>8. LanesAheadAreFresh'
    <2> SUFFICES ASSUME NEW i \in 1 .. Len(Ladder), Ahead(i) PROVE Fresh(Ladder[i])'
        BY DEF LanesAheadAreFresh, Ahead
    <2>1. Fresh(Ladder[i]) /\ Ladder[i] \in Lanes
          BY LadderFacts DEF WalkInv, LanesAheadAreFresh, Ahead
    <2>2. Ladder[i] # id
      <3>1. CASE a = Walker
        <4>1. walk.at < i /\ walk.at <= Len(Ladder)
              BY <1>3, <3>1 DEF Ahead, WalkInv, WalkHasALane
        <4>2. Ladder[i] # Lane
              BY <4>1, WalkLane DEF WalkInv, WalkTypes
        <4> QED BY <1>3, <3>1, <4>2
      <3>2. CASE a # Walker
            BY <1>3, <2>1, <3>2 DEF Fresh
      <3> QED BY <3>1, <3>2
    <2> QED BY <1>5, <2>1, <2>2 DEF Fresh
  <1>9. FirstStart'
    <2> SUFFICES ASSUME walk.pc = "starting" PROVE StartedFirst(Lane)'
        BY DEF FirstStart
    <2>1. PICK lane \in Lanes : lane = Lane /\ lane = Lane'
          BY WalkLane DEF WalkInv, WalkHasALane, Lane
    <2>2. StartedFirst(lane)
          BY <2>1 DEF WalkInv, FirstStart
    <2>3. StartedFirst(lane)'
      <3>1. CASE a = Walker
            BY <1>2, <2>2, <3>1 DEF StartedFirst
      <3>2. CASE a # Walker
        <4>1. lane # id
              BY <1>3, <2>2, <3>2 DEF StartedFirst
        <4> QED BY <1>2, <1>5, <2>2, <3>2, <4>1 DEF StartedFirst
      <3> QED BY <3>1, <3>2
    <2> QED BY <2>1, <2>3 DEF StartedFirst, Alive
  <1>10. LocalIsAlone'
        BY <1>5, <1>6 DEF LocalIsAlone, WalkInv
  <1> QED BY <1>2, <1>4, <1>7, <1>8, <1>9, <1>10 DEF WalkInv, EndsStay

\* What is told of an object the map names.
LEMMA SnapshotsAreReplies ==
    ASSUME Broker!TypeOK, NEW id \in Lanes, Broker!Known(id)
    PROVE  SnapshotOf(Broker!Stored(id)) \in Replies \cup {None, "unlaunched"}
  <1>1. executions[id] \in Broker!Launches
        BY WalkBounds DEF Broker!TypeOK, Broker!Known, Broker!Absent, Broker!Launches
  <1>2. Broker!Stored(id).status \in Broker!Statuses \cup {"unlaunched"}
        BY <1>1 DEF Broker!TypeOK, Broker!Stored, Broker!Executions
  <1> QED BY <1>2 DEF SnapshotOf, Replies, Snapshots

\* A request is handled, or never arrives.
LEMMA ServeKeeps ==
    ASSUME WalkInv, NEW a \in Loops, Serve(a) \/ Unreachable(a)
    PROVE  WalkInv' /\ EndsStay
  <1> DEFINE id == mail[a].id
             seenIs(reply) == \E seen \in {reply, "unavailable"} :
                                 mail' = [mail EXCEPT ![a] = Answered(@.action, @.id, seen)]
  <1>1. /\ mail[a].state = "sent" /\ UNCHANGED <<job, row, walk, waiter, outcome, local>>
        BY DEF Serve, Unreachable
  <1>2. id \in Lanes /\ Broker!TypeOK
        BY <1>1, RequestsNameLanes DEF WalkInv
  <1>3. "unavailable" \in Replies \cup {None, "unlaunched"}
        BY DEF Replies
  <1>4. ASSUME NEW reply \in Replies \cup {None, "unlaunched"}, Arrive(a, reply),
               BrokerForgetsAtMost
        PROVE  WalkInv' /\ EndsStay
    <2>1. PICK seen \in {reply, "unavailable"} :
             mail' = [mail EXCEPT ![a] = Answered(@.action, @.id, seen)]
          BY <1>4 DEF Arrive
    <2>2. seen \in Replies \cup {None, "unlaunched"}
          BY <1>3
    <2> QED BY <1>1, <1>4, <2>1, <2>2, AnswersKeep
  <1>5. CASE Unreachable(a)
    <2>1. UNCHANGED brokerVars /\ mail' = [mail EXCEPT ![a] = Answered(@.action, @.id, "unavailable")]
          BY <1>5 DEF Unreachable
    <2>2. BrokerForgetsAtMost
          BY <2>1, BrokerUntouched
    <2> QED BY <1>1, <1>3, <2>1, <2>2, AnswersKeep
  <1>6. CASE mail[a].action = "start" /\ ServeStart(a)
    <2>1. PICK answer \in Broker!StartAnswer(id, "start") :
             /\ Broker!Start(id, "start", answer)
             /\ Arrive(a, CASE answer = "launched" -> "running"
                            [] answer = "existing" -> SnapshotOf(Broker!Stored(id))
                            [] answer = "launch failed" -> "503"
                            [] answer = "refused" -> "400"
                            [] answer = "conflict" -> "409")
          BY <1>6 DEF ServeStart
    <2>2. CASE answer = "launched"
      <3>1. Arrive(a, "running")
            BY <2>1, <2>2
      <3>2. BrokerTakesUp(id)
            BY <1>2, <2>1, <2>2, StartTakesUp
      <3>3. PICK seen \in {"running", "unavailable"} :
               mail' = [mail EXCEPT ![a] = Answered(@.action, @.id, seen)]
            BY <3>1 DEF Arrive
      <3> QED BY <1>1, <1>6, <3>2, <3>3, LaunchKeeps
    <2>3. ASSUME answer # "launched"
          PROVE  WalkInv' /\ EndsStay
      <3>1. BrokerForgetsAtMost
            BY <1>2, <2>1, <2>3, StartTakesUp
      <3>2. CASE answer = "existing"
        <4>1. Broker!Known(id)
              BY <2>1, <3>2 DEF Broker!StartAnswer, Broker!LaunchOutcomes
        <4>2. SnapshotOf(Broker!Stored(id)) \in Replies \cup {None, "unlaunched"}
              BY <1>2, <4>1, SnapshotsAreReplies
        <4>3. Arrive(a, SnapshotOf(Broker!Stored(id)))
              BY <2>1, <3>2
        <4> QED BY <1>4, <3>1, <4>2, <4>3
      <3>3. CASE answer # "existing"
        <4>1. answer \in {"launch failed", "refused", "conflict"}
              BY <2>1, <2>3, <3>3 DEF Broker!StartAnswer, Broker!LaunchOutcomes
        <4>2. Arrive(a, "503") \/ Arrive(a, "400") \/ Arrive(a, "409")
              BY <2>1, <4>1
        <4>3. {"503", "400", "409"} \subseteq Replies \cup {None, "unlaunched"}
              BY DEF Replies, Rejections
        <4> QED BY <1>4, <3>1, <4>2, <4>3
      <3> QED BY <3>2, <3>3
    <2> QED BY <2>2, <2>3
  <1>7. CASE mail[a].action = "status" /\ ServeStatus(a)
    <2>1. BrokerForgetsAtMost
          BY <1>7, BrokerUntouched DEF ServeStatus
    <2>2. Arrive(a, IF Broker!Known(id) THEN SnapshotOf(Broker!Stored(id)) ELSE "404")
          BY <1>7 DEF ServeStatus
    <2>3. (IF Broker!Known(id) THEN SnapshotOf(Broker!Stored(id)) ELSE "404")
             \in Replies \cup {None, "unlaunched"}
          BY <1>2, SnapshotsAreReplies DEF Replies, Rejections
    <2> QED BY <1>4, <2>1, <2>2, <2>3
  <1>8. CASE mail[a].action = "cancel" /\ ServeCancel(a)
    <2>1. BrokerForgetsAtMost
          BY <1>2, <1>8, CancelForgets DEF ServeCancel
    <2>2. Arrive(a, IF ~Broker!Known(id) THEN "404"
                    ELSE IF Broker!Stored(id).status = "running" THEN "cancelled"
                    ELSE SnapshotOf(Broker!Stored(id)))
          BY <1>8 DEF ServeCancel
    <2>3. (IF ~Broker!Known(id) THEN "404"
           ELSE IF Broker!Stored(id).status = "running" THEN "cancelled"
           ELSE SnapshotOf(Broker!Stored(id))) \in Replies \cup {None, "unlaunched"}
          BY <1>2, SnapshotsAreReplies DEF Replies, Rejections, Snapshots, Broker!Statuses
    <2> QED BY <1>4, <2>1, <2>2, <2>3
  <1> QED BY <1>5, <1>6, <1>7, <1>8 DEF Serve

-----------------------------------------------------------------------------
\* The initial state.
LEMMA WalkStarts == Init => WalkInv
  <1> SUFFICES ASSUME Init PROVE WalkInv
      OBVIOUS
  <1>1. Broker!TypeOK
    <2>1. Broker!Unlaunched \in Broker!Executions
          BY DEF Broker!Unlaunched, Broker!Executions, Broker!Statuses, Broker!Times,
                 Broker!NotEnded, Broker!NoResult
    <2> QED BY <2>1, WalkBounds DEF Init, Broker!Init, Broker!TypeOK, Broker!Times, Broker!Absent
  <1>2. \A lane \in Lanes : Fresh(lane)
        BY DEF Init, Broker!Init, Fresh, Alive, Broker!Unlaunched
  <1>3. mail \in [Loops -> Mails] /\ \A a \in Loops : mail[a].state = "idle" /\ mail[a].action = None
        BY MessageFacts DEF Init
  <1>4. WalkTypes
        BY <1>3, LadderFacts DEF Init, WalkTypes, JobStatuses, Pcs
  <1>5. WalkHasALane /\ IdleJobNamesNothing /\ FirstStart /\ LocalIsAlone
        BY DEF Init, WalkHasALane, IdleJobNamesNothing, FirstStart, LocalIsAlone, None
  <1>6. LanesAheadAreFresh
        BY <1>2, LadderFacts DEF LanesAheadAreFresh
  <1>7. MailIsTheirs
        BY <1>3, LoopsAreApart DEF MailIsTheirs, None
  <1> QED BY <1>1, <1>4, <1>5, <1>6, <1>7 DEF WalkInv

\* Every step.
LEMMA WalkStays == WalkInv /\ [Next]_vars => WalkInv' /\ EndsStay
  <1> SUFFICES ASSUME WalkInv, [Next]_vars PROVE WalkInv' /\ EndsStay
      OBVIOUS
  <1>1. CASE UNCHANGED vars
    <2>1. UNCHANGED <<job, row, walk, waiter, outcome, local, mail>> /\ UNCHANGED brokerVars
          BY <1>1 DEF vars
    <2>2. Calm
          BY <2>1, BrokerUntouched DEF Calm, Ahead
    <2>3. WalkTypes' /\ WalkHasALane' /\ IdleJobNamesNothing'
          BY <2>1 DEF WalkInv, WalkTypes, WalkHasALane, IdleJobNamesNothing
    <2> QED BY <2>1, <2>2, <2>3, NoMail, CalmInv DEF EndsStay
  <1>2. CASE Dispatch
        BY <1>2, DispatchKeeps
  <1>3. CASE WalkStep
        BY <1>3, PickKeeps, StartLaneKeeps, ProbeAnsweredKeeps, StartAnsweredKeeps, StopperKeeps,
           WalkEndsKeep, Zenon DEF WalkStep
  <1>4. CASE RefuseDirectory \/ GiveUpLane \/ CancelJob \/ CancelAnswered
        BY <1>4, PickKeeps, StopperKeeps, ToolKeeps, Zenon
  <1>5. CASE \E lane \in Lanes : WaiterStep(lane) \/ LocalEnds(lane) \/ LocalKilled(lane)
        BY <1>5, WaiterKeeps, LocalStepsKeep, Zenon
  <1>6. CASE \E a \in Loops : Serve(a) \/ Unreachable(a)
        BY <1>6, ServeKeeps, Zenon
  <1>7. CASE DaemonRestarts \/ \E l \in Broker!Launches : LaneEnds(l)
        BY <1>7, DaemonStepsKeep
  <1> QED BY <1>1, <1>2, <1>3, <1>4, <1>5, <1>6, <1>7, Zenon DEF Next

\* The inductive invariant of a dispatched job, for any ladder and broker.
THEOREM DispatchesAreSound == Spec => []WalkInv
  <1>1. WalkInv /\ [Next]_vars => WalkInv'
        BY WalkStays
  <1> QED BY <1>1, WalkStarts, PTL DEF Spec

\* Whichever requests and answers are lost and however often the daemon
\* restarts, an attempt never runs at the daemon and in the server at once, and
\* a job that has ended leaves no journal row behind.
THEOREM NothingIsLeftBehind == Spec => []WalkLeavesNothingBehind
  <1>1. WalkInv => WalkLeavesNothingBehind
        BY DEF WalkInv, LocalIsAlone, IdleJobNamesNothing, WalkLeavesNothingBehind,
               NeverInBothPlaces, EndedJobLeavesNoRow
  <1> QED BY <1>1, DispatchesAreSound, PTL

\* No late answer of any loop revives a job that has ended or undoes a
\* cancellation.
THEOREM EndsOfJobsStay == Spec => CancelledStaysCancelled
  <1>1. WalkInv /\ [Next]_vars => EndsStay
        BY WalkStays
  <1>2. WalkInv /\ [Next]_vars =>
           [/\ job.status = "cancelled" => job'.status = "cancelled"
            /\ job.status \notin {None, "running"} => job'.status # "running"]_vars
        BY <1>1 DEF EndsStay
  <1> QED BY <1>2, DispatchesAreSound, PTL DEF Spec, CancelledStaysCancelled

-----------------------------------------------------------------------------
(* The daemon of the walk is the broker of LaneExecutionBroker.             *)

\* A request that is handled is a step of the broker or leaves it alone.
LEMMA ServingIsABrokerStep ==
    ASSUME WalkInv, NEW a \in Loops, Serve(a)
    PROVE  Broker!Next \/ UNCHANGED brokerVars
  <1> DEFINE id == mail[a].id
  <1>1. mail[a].state = "sent" /\ id \in Lanes
        BY RequestsNameLanes DEF Serve
  <1>2. CASE mail[a].action = "start" /\ ServeStart(a)
    <2>1. PICK answer \in Broker!StartAnswer(id, "start") : Broker!Start(id, "start", answer)
          BY <1>2 DEF ServeStart
    <2>2. "start" \in {"start"}
          OBVIOUS
    <2> QED BY <1>1, <2>1, <2>2 DEF Broker!Next
  <1>3. CASE mail[a].action = "status" /\ ServeStatus(a)
        BY <1>3 DEF ServeStatus
  <1>4. CASE mail[a].action = "cancel" /\ ServeCancel(a)
        BY <1>1, <1>4 DEF ServeCancel, Broker!Next
  <1> QED BY <1>2, <1>3, <1>4 DEF Serve

\* Whatever the walk, its waiters, its stopper and the tool ask of the daemon,
\* the daemon does only what the broker does: what is proved of the broker for
\* every caller holds for these.
THEOREM WalksUseTheBroker == Spec => Broker!Spec
  <1>1. Init => Broker!Init
        BY DEF Init
  <1>2. ASSUME WalkInv, [Next]_vars
        PROVE  Broker!Next \/ UNCHANGED brokerVars
    <2>1. CASE Dispatch \/ RefuseDirectory \/ GiveUpLane \/ CancelJob \/ CancelAnswered
          BY <2>1 DEF Dispatch, RefuseDirectory, GiveUpLane, CancelJob, CancelAnswered
    <2>2. CASE WalkStep
          BY <2>2 DEF WalkStep, Pick, StartLane, ProbeAnswered, StartAnswered, LaneReturns,
                      StopAnswered, AttemptOver, Complete
    <2>3. CASE \E lane \in Lanes : WaiterStep(lane) \/ LocalEnds(lane) \/ LocalKilled(lane)
          BY <2>3 DEF WaiterStep, LocalEnds, LocalKilled
    <2>4. CASE \E a \in Loops : Serve(a) \/ Unreachable(a)
          BY <1>2, <2>4, ServingIsABrokerStep DEF Unreachable
    <2>5. ASSUME NEW l \in Broker!Launches, LaneEnds(l)
          PROVE  Broker!Next
      <3>1. PICK result \in {[code |-> "zero", timedOut |-> "no"],
                             [code |-> "nonzero", timedOut |-> "no"]} : Broker!Settle(l, result)
            BY <2>5 DEF LaneEnds
      <3>2. result \in Broker!Results
            BY DEF Broker!Results
      <3> QED BY <3>1, <3>2 DEF Broker!Next
    <2>6. CASE DaemonRestarts
          BY <2>6 DEF DaemonRestarts, Broker!Next
    <2>7. CASE UNCHANGED vars
          BY <2>7 DEF vars
    <2> QED BY <1>2, <2>1, <2>2, <2>3, <2>4, <2>5, <2>6, <2>7, Zenon DEF Next
  <1>3. WalkInv /\ [Next]_vars => [Broker!Next]_(Broker!vars)
        BY <1>2 DEF Broker!vars, brokerVars
  <1> QED BY <1>1, <1>3, DispatchesAreSound, PTL DEF Spec, Broker!Spec
=============================================================================
