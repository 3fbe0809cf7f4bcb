------------------------------ MODULE LaneProofs -----------------------------
(***************************************************************************)
(* Proofs about the two stores that remember lanes.                        *)
(*                                                                         *)
(* The broker of the daemon, for any sets of ids and signatures, any limit *)
(* on the ended executions it keeps and any number of launches.  The       *)
(* argument for one lane per id is that the map never forgets an execution *)
(* whose lane is alive: prune drops only objects without a handle.         *)
(*                                                                         *)
(* The jobs of the MCP processes, for any number of processes and jobs.    *)
(* The argument for one answerer per job is that a running job has a row   *)
(* its process publishes, that a row has one publisher, and that an orphan *)
(* can be claimed only while the journal names nobody who is alive.        *)
(***************************************************************************)
EXTENDS LaneExecutionBroker, LaneJobs, FiniteSetTheorems, TLAPS

\* What holds of one launched object whoever still refers to it: it would
\* parse, its lane has not reported while it is alive, a running one is alive
\* and was not cancelled, and the cancelled ones are those asked to stop.
Coherent(execution) ==
    /\ execution.id \in ExecutionIds
    /\ Parses(execution)
    /\ execution.handle = "live" => execution.result = NoResult
    /\ execution.handle = "live" => execution.status \in {"running", "cancelled"}
    /\ execution.status = "running" => execution.handle = "live"
    /\ execution.cancelRequested = "yes" <=> execution.status = "cancelled"

\* The launched objects are the first ones, and every one of them is coherent.
ObjectsAreCoherent ==
    \A l \in Launches : IF l <= launched THEN Coherent(stored[l])
                        ELSE stored[l] = Unlaunched

\* The map refers to launched objects under their own id, and to every object
\* whose lane is alive.
MapIsExact ==
    /\ \A id \in ExecutionIds : Known(id) => /\ executions[id] <= launched
                                             /\ Stored(id).id = id
    /\ \A l \in Launches : stored[l].handle = "live" => executions[stored[l].id] = l

PollsAreLaunched == \A l \in polls : l <= launched

IInv == TypeOK /\ ObjectsAreCoherent /\ MapIsExact /\ PollsAreLaunched

-----------------------------------------------------------------------------
\* prune leaves every entry as it is or removes it, and removes none whose lane
\* is alive.
LEMMA PruneKeepsLiveLanes ==
    ASSUME NEW objects, NEW map \in [ExecutionIds -> 0 .. MaxLaunches]
    PROVE  /\ Pruned(objects, map) \in [ExecutionIds -> 0 .. MaxLaunches]
           /\ \A id \in ExecutionIds :
                 /\ Pruned(objects, map)[id] \in {map[id], Absent}
                 /\ objects[map[id]].handle = "live" => Pruned(objects, map)[id] = map[id]
  <1> DEFINE prunable == Prunable(objects, map)
             newer(l) == {k \in prunable : EndedBefore(objects, l, k)}
             dropped == {l \in prunable : Cardinality(newer(l)) >= MaxTerminal}
  <1>1. Pruned(objects, map) = [id \in ExecutionIds |-> IF map[id] \in dropped
                                                       THEN Absent ELSE map[id]]
        BY DEF Pruned
  <1>2. \A l \in dropped : objects[l].handle = "null"
        BY DEF Prunable
  <1> HIDE DEF dropped
  <1> QED BY <1>1, <1>2, BrokerAssumption DEF Absent

\* The status a lane's result gives it is one the caller's parser accepts.
LEMMA SettledParses ==
    ASSUME NEW execution \in Executions, Coherent(execution), execution.handle = "live",
           NEW result \in Results, now \in Times
    PROVE  /\ Settled(execution, result) \in Executions
           /\ Coherent(Settled(execution, result))
           /\ Settled(execution, result).id = execution.id
           /\ Settled(execution, result).handle = "null"
  <1> DEFINE settled == Settled(execution, result)
  <1>0. TerminalStatus(result) \in Statuses
        BY DEF Results, TerminalStatus, Statuses
  <1>1. settled \in Executions
        BY <1>0 DEF Executions, Settled
  <1>2. /\ settled.id = execution.id
        /\ settled.result = result
        /\ settled.handle = "null"
        /\ settled.cancelRequested = execution.cancelRequested
        BY DEF Executions, Settled
  <1>3. result # NoResult /\ result \in Results
        BY DEF Results, NoResult
  <1>4. CASE execution.cancelRequested = "yes"
    <2>1. settled.status = "cancelled" /\ settled.endedAt = execution.endedAt
          BY <1>4 DEF Executions, Coherent, Settled
    <2> QED BY <1>1, <1>2, <1>3, <1>4, <2>1 DEF Coherent, Parses, Statuses
  <1>5. CASE execution.cancelRequested # "yes"
    <2>1. settled.status = TerminalStatus(result) /\ settled.endedAt = now
          BY <1>5 DEF Executions, Settled
    <2>2. now # NotEnded
          BY DEF Times, NotEnded
    <2> QED BY <1>1, <1>2, <1>3, <1>5, <2>1, <2>2
            DEF Coherent, Parses, Statuses, Results, TerminalStatus
  <1> QED BY <1>1, <1>2, <1>4, <1>5

\* A running execution that is told to stop still parses, with its lane alive
\* (cancel) or gone (the daemon's exit).
LEMMA CancelledParses ==
    ASSUME NEW execution \in Executions, Coherent(execution),
           execution.status = "running", now \in Times
    PROVE  /\ Cancelled(execution) \in Executions
           /\ Coherent(Cancelled(execution))
           /\ Cancelled(execution).id = execution.id
           /\ Cancelled(execution).handle = execution.handle
           /\ [Cancelled(execution) EXCEPT !.handle = "null"] \in Executions
           /\ Coherent([Cancelled(execution) EXCEPT !.handle = "null"])
  <1> DEFINE c == Cancelled(execution)
             gone == [c EXCEPT !.handle = "null"]
  <1>1. /\ c \in Executions
        /\ c.id = execution.id /\ c.handle = execution.handle
        /\ c.status = "cancelled" /\ c.cancelRequested = "yes"
        /\ c.endedAt = now /\ c.result = execution.result
        BY DEF Cancelled, Executions, Statuses
  <1>2. now # NotEnded
        BY DEF Times, NotEnded
  <1>3. Coherent(c)
        BY <1>1, <1>2 DEF Coherent, Parses, Statuses
  <1> HIDE DEF c
  <1>4. /\ gone \in Executions
        /\ gone.id = c.id /\ gone.status = c.status /\ gone.handle = "null"
        /\ gone.cancelRequested = c.cancelRequested
        /\ gone.endedAt = c.endedAt /\ gone.result = c.result
        BY <1>1 DEF Executions
  <1>5. Coherent(gone)
        BY <1>1, <1>3, <1>4 DEF Coherent, Parses
  <1> QED BY <1>1, <1>3, <1>4, <1>5 DEF c

\* The broker starts with nothing launched.
LEMMA InitIsCoherent == Init => IInv
  <1> SUFFICES ASSUME Init PROVE IInv
      OBVIOUS
  <1>1. Unlaunched \in Executions
        BY DEF Unlaunched, Executions
  <1>2. TypeOK
        BY <1>1, BrokerAssumption DEF Init, TypeOK, Times, Absent
  <1>3. ObjectsAreCoherent
        BY DEF Init, ObjectsAreCoherent, Launches
  <1>4. MapIsExact
        BY DEF Init, MapIsExact, Known, Absent, Unlaunched
  <1> QED BY <1>2, <1>3, <1>4 DEF IInv, PollsAreLaunched, Init

-----------------------------------------------------------------------------
\* A start that launches takes an id the map does not know.
LEMMA StartKeepsIInv ==
    ASSUME IInv, NEW id \in ExecutionIds, NEW signature \in Signatures,
           NEW answer, Start(id, signature, answer)
    PROVE  IInv'
  <1>1. CASE answer # "launched"
        BY <1>1 DEF Start, IInv, TypeOK, ObjectsAreCoherent, MapIsExact, PollsAreLaunched,
                    Known, Stored
  <1>2. CASE answer = "launched"
    <2> DEFINE l == launched + 1
               fresh == [Unlaunched EXCEPT !.id = id, !.signature = signature,
                                           !.status = "running", !.handle = "live"]
    <2>1. /\ l \in Launches
          /\ launched' = l
          /\ stored' = [stored EXCEPT ![l] = fresh]
          /\ executions' = [executions EXCEPT ![id] = l]
          /\ UNCHANGED <<now, polls>>
          BY <1>2, BrokerAssumption DEF Start, IInv, TypeOK, Launches
    <2>2. ~Known(id)
          BY <1>2 DEF Start, StartAnswer
    <2>3. fresh \in Executions /\ Coherent(fresh) /\ fresh.id = id /\ fresh.handle = "live"
          BY DEF Unlaunched, Executions, Coherent, Parses, Statuses, NotEnded
    <2> HIDE DEF fresh
    <2>4. TypeOK'
          BY <2>1, <2>3 DEF IInv, TypeOK, Launches
    <2>5. ObjectsAreCoherent'
          BY <2>1, <2>3 DEF IInv, TypeOK, ObjectsAreCoherent, Launches
    <2>6. stored[l] = Unlaunched
          BY <2>1 DEF IInv, TypeOK, ObjectsAreCoherent, Launches
    <2>7. \A i \in ExecutionIds : Known(i)' => /\ executions'[i] <= launched'
                                               /\ Stored(i)'.id = i
          BY <2>1, <2>3, <2>6 DEF IInv, TypeOK, MapIsExact, Known, Stored, Launches, Absent
    <2>8. ASSUME NEW k \in Launches, stored'[k].handle = "live"
          PROVE  executions'[stored'[k].id] = k
      <3>1. CASE k = l
            BY <2>1, <2>3, <3>1 DEF IInv, TypeOK
      <3>2. CASE k # l
        <4>1. stored'[k] = stored[k] /\ executions[stored[k].id] = k
              BY <2>1, <2>8, <3>2 DEF IInv, TypeOK, MapIsExact
        <4>2. stored[k].id # id
              BY <2>2, <4>1 DEF Known, Absent, Launches
        <4> QED BY <2>1, <4>1, <4>2 DEF IInv, TypeOK
      <3> QED BY <3>1, <3>2
    <2>9. PollsAreLaunched'
          BY <2>1 DEF IInv, TypeOK, PollsAreLaunched, Launches
    <2> QED BY <2>4, <2>5, <2>7, <2>8, <2>9 DEF IInv, MapIsExact
  <1> QED BY <1>1, <1>2

\* One object changes without changing its id or bringing its lane to life, and
\* the map is pruned: settle and cancel.
LEMMA ChangeAndPruneKeepsIInv ==
    ASSUME IInv, NEW l \in Launches, l <= launched, NEW changed \in Executions,
           Coherent(changed), changed.id = stored[l].id,
           changed.handle = "live" => stored[l].handle = "live",
           stored' = [stored EXCEPT ![l] = changed],
           executions' = Pruned(stored', executions),
           UNCHANGED <<now, launched, polls>>
    PROVE  IInv'
  <1>1. /\ executions' \in [ExecutionIds -> 0 .. MaxLaunches]
        /\ \A id \in ExecutionIds :
              /\ executions'[id] \in {executions[id], Absent}
              /\ stored'[executions[id]].handle = "live" => executions'[id] = executions[id]
    <2>1. executions \in [ExecutionIds -> 0 .. MaxLaunches]
          BY DEF IInv, TypeOK
    <2>2. PICK objects : objects = stored'
          OBVIOUS
    <2>3. /\ Pruned(objects, executions) \in [ExecutionIds -> 0 .. MaxLaunches]
          /\ \A id \in ExecutionIds :
                /\ Pruned(objects, executions)[id] \in {executions[id], Absent}
                /\ objects[executions[id]].handle = "live"
                      => Pruned(objects, executions)[id] = executions[id]
          BY <2>1, PruneKeepsLiveLanes
    <2>4. executions' = Pruned(objects, executions)
          BY <2>2
    <2> QED BY <2>2, <2>3, <2>4
  <1>2. TypeOK'
        BY <1>1 DEF IInv, TypeOK
  <1>3. ObjectsAreCoherent'
        BY DEF IInv, TypeOK, ObjectsAreCoherent
  <1>4. \A k \in Launches : /\ stored'[k].id = stored[k].id
                            /\ stored'[k].handle = "live" => stored[k].handle = "live"
        BY DEF IInv, TypeOK
  <1>5. \A id \in ExecutionIds : Known(id)' => /\ executions'[id] <= launched'
                                               /\ Stored(id)'.id = id
    <2> SUFFICES ASSUME NEW id \in ExecutionIds, executions'[id] # Absent
                 PROVE  executions'[id] <= launched' /\ stored'[executions'[id]].id = id
        BY DEF Known, Stored
    <2>1. executions'[id] = executions[id]
          BY <1>1
    <2>2. executions[id] \in Launches
          BY <2>1, BrokerAssumption DEF IInv, TypeOK, Launches, Absent
    <2>3. executions[id] <= launched /\ stored[executions[id]].id = id
          BY <2>1 DEF IInv, MapIsExact, Known, Stored
    <2> QED BY <1>4, <2>1, <2>2, <2>3
  <1>6. ASSUME NEW k \in Launches, stored'[k].handle = "live"
        PROVE  executions'[stored'[k].id] = k
    <2>1. stored[k].handle = "live" /\ executions[stored[k].id] = k
          BY <1>4, <1>6 DEF IInv, MapIsExact
    <2>2. stored[k].id \in ExecutionIds
          BY <2>1 DEF IInv, ObjectsAreCoherent, Coherent, Unlaunched
    <2> QED BY <1>1, <1>4, <1>6, <2>1, <2>2
  <1>7. PollsAreLaunched'
        BY DEF IInv, PollsAreLaunched
  <1> QED BY <1>2, <1>3, <1>5, <1>6, <1>7 DEF IInv, MapIsExact

\* The end of a lane, cancelled before or not.
LEMMA SettleKeepsIInv ==
    ASSUME IInv, NEW l \in Launches, NEW result \in Results, Settle(l, result)
    PROVE  IInv'
  <1> DEFINE changed == Settled(stored[l], result)
  <1>1. /\ stored[l].handle = "live"
        /\ stored' = [stored EXCEPT ![l] = changed]
        /\ executions' = Pruned(stored', executions)
        /\ UNCHANGED <<now, launched, polls>>
        BY DEF Settle
  <1>2. stored[l] \in Executions /\ l <= launched /\ Coherent(stored[l]) /\ now \in Times
        BY <1>1 DEF IInv, TypeOK, ObjectsAreCoherent, Unlaunched
  <1>3. /\ changed \in Executions /\ Coherent(changed)
        /\ changed.id = stored[l].id /\ changed.handle = "null"
        BY <1>1, <1>2, SettledParses
  <1> HIDE DEF changed
  <1> QED BY <1>1, <1>2, <1>3, ChangeAndPruneKeepsIInv

\* A cancel marks the execution at once and leaves its lane alive.
LEMMA CancelKeepsIInv ==
    ASSUME IInv, NEW id \in ExecutionIds, Cancel(id)
    PROVE  IInv'
  <1>1. CASE Known(id) /\ Stored(id).status = "running"
    <2> DEFINE l == executions[id]
    <2>1. l \in Launches /\ l <= launched
          BY <1>1 DEF IInv, TypeOK, MapIsExact, Known, Absent, Launches
    <2>2. stored[l] \in Executions /\ Coherent(stored[l]) /\ now \in Times
          BY <2>1 DEF IInv, TypeOK, ObjectsAreCoherent
    <2>3. /\ stored' = [stored EXCEPT ![l] = Cancelled(stored[l])]
          /\ executions' = Pruned(stored', executions)
          /\ UNCHANGED <<now, launched, polls>>
          BY <1>1 DEF Cancel, IInv, TypeOK
    <2>4. /\ Cancelled(stored[l]) \in Executions
          /\ Coherent(Cancelled(stored[l]))
          /\ Cancelled(stored[l]).id = stored[l].id
          /\ Cancelled(stored[l]).handle = stored[l].handle
          BY <1>1, <2>2, CancelledParses DEF Stored
    <2> HIDE DEF l
    <2> QED BY <2>1, <2>3, <2>4, ChangeAndPruneKeepsIInv
  <1>2. CASE ~(Known(id) /\ Stored(id).status = "running")
        BY <1>2 DEF Cancel, IInv, TypeOK, ObjectsAreCoherent, MapIsExact, PollsAreLaunched,
                    Known, Stored
  <1> QED BY <1>1, <1>2

\* A status poll refers to an object the map knew when it began.
LEMMA StatusKeepsIInv ==
    ASSUME IInv,
           \/ \E id \in ExecutionIds : BeginStatus(id)
           \/ \E l \in Launches : AnswerStatus(l)
    PROVE  IInv'
  <1>1. UNCHANGED <<now, stored, launched, executions>>
        BY DEF BeginStatus, AnswerStatus
  <1>2. polls' \subseteq Launches /\ \A l \in polls' : l <= launched
    <2>1. ASSUME NEW id \in ExecutionIds, BeginStatus(id)
          PROVE  polls' \subseteq Launches /\ \A l \in polls' : l <= launched
      <3>1. executions[id] \in Launches /\ executions[id] <= launched
            BY <2>1, BrokerAssumption
            DEF BeginStatus, IInv, TypeOK, MapIsExact, Known, Absent, Launches
      <3>2. polls' = polls \cup {executions[id]}
            BY <2>1 DEF BeginStatus
      <3> QED BY <3>1, <3>2 DEF IInv, TypeOK, PollsAreLaunched
    <2>2. ASSUME NEW l \in Launches, AnswerStatus(l)
          PROVE  polls' \subseteq Launches /\ \A k \in polls' : k <= launched
          BY <2>2 DEF AnswerStatus, IInv, TypeOK, PollsAreLaunched
    <2> QED BY <2>1, <2>2
  <1> QED BY <1>1, <1>2 DEF IInv, TypeOK, ObjectsAreCoherent, MapIsExact, PollsAreLaunched,
                            Known, Stored

\* The daemon's exit leaves no lane alive and no entry in the map.
LEMMA ShutdownKeepsIInv == ASSUME IInv, Shutdown PROVE IInv'
  <1> DEFINE after(e) == [IF e.status = "running" THEN Cancelled(e) ELSE e
                          EXCEPT !.handle = "null"]
  <1>1. /\ stored' = [l \in Launches |-> after(stored[l])]
        /\ executions' = [id \in ExecutionIds |-> Absent]
        /\ polls' = {}
        /\ UNCHANGED <<now, launched>>
        BY DEF Shutdown
  <1>2. ASSUME NEW l \in Launches
        PROVE  /\ after(stored[l]) \in Executions
               /\ after(stored[l]).handle = "null"
               /\ IF l <= launched THEN Coherent(after(stored[l]))
                  ELSE after(stored[l]) = Unlaunched
    <2>1. stored[l] \in Executions /\ now \in Times
          BY DEF IInv, TypeOK
    <2>2. CASE l <= launched /\ stored[l].status = "running"
      <3>1. Coherent(stored[l])
            BY <2>2 DEF IInv, ObjectsAreCoherent
      <3>2. after(stored[l]) = [Cancelled(stored[l]) EXCEPT !.handle = "null"]
            BY <2>2
      <3>3. after(stored[l]) \in Executions /\ Coherent(after(stored[l]))
            BY <2>1, <2>2, <3>1, <3>2, CancelledParses
      <3>4. after(stored[l]).handle = "null"
            BY <2>1, <3>2 DEF Cancelled, Executions
      <3> QED BY <2>2, <3>3, <3>4
    <2>3. CASE l <= launched /\ stored[l].status # "running"
      <3>1. Coherent(stored[l])
            BY <2>3 DEF IInv, ObjectsAreCoherent
      <3> QED BY <2>1, <2>3, <3>1 DEF Coherent, Parses, Executions
    <2>4. CASE ~(l <= launched)
      <3>1. stored[l] = Unlaunched
            BY <2>4 DEF IInv, ObjectsAreCoherent
      <3> QED BY <2>1, <2>4, <3>1 DEF Unlaunched, Executions
    <2> QED BY <2>2, <2>3, <2>4
  <1> HIDE DEF after
  <1>3. TypeOK'
        BY <1>1, <1>2, BrokerAssumption DEF IInv, TypeOK, Absent
  <1>4. ObjectsAreCoherent'
        BY <1>1, <1>2 DEF ObjectsAreCoherent
  <1>5. MapIsExact'
        BY <1>1, <1>2 DEF MapIsExact, Known
  <1>6. PollsAreLaunched'
        BY <1>1 DEF PollsAreLaunched
  <1> QED BY <1>3, <1>4, <1>5, <1>6 DEF IInv

\* Every step of the broker, its callers and its lanes keeps the invariant.
LEMMA NextKeepsIInv == IInv /\ [Next]_vars => IInv'
  <1> SUFFICES ASSUME IInv, [Next]_vars PROVE IInv'
      OBVIOUS
  <1>1. ASSUME NEW id \in ExecutionIds, NEW signature \in Signatures,
               NEW answer \in StartAnswer(id, signature), Start(id, signature, answer)
        PROVE  IInv'
        BY <1>1, StartKeepsIInv
  <1>2. ASSUME NEW id \in ExecutionIds, Cancel(id) PROVE IInv'
        BY <1>2, CancelKeepsIInv
  <1>3. ASSUME NEW id \in ExecutionIds, BeginStatus(id) PROVE IInv'
        BY <1>3, StatusKeepsIInv
  <1>4. ASSUME NEW l \in Launches, AnswerStatus(l) PROVE IInv'
        BY <1>4, StatusKeepsIInv
  <1>5. ASSUME NEW l \in Launches, NEW result \in Results, Settle(l, result) PROVE IInv'
        BY <1>5, SettleKeepsIInv
  <1>6. ASSUME Shutdown PROVE IInv'
        BY <1>6, ShutdownKeepsIInv
  <1>7. ASSUME Tick PROVE IInv'
        BY <1>7, BrokerAssumption
        DEF Tick, IInv, TypeOK, ObjectsAreCoherent, MapIsExact, PollsAreLaunched,
            Known, Stored, Times
  <1>8. ASSUME UNCHANGED vars PROVE IInv'
        BY <1>8 DEF vars, IInv, TypeOK, ObjectsAreCoherent, MapIsExact, PollsAreLaunched,
                    Known, Stored
  <1> QED BY <1>1, <1>2, <1>3, <1>4, <1>5, <1>6, <1>7, <1>8 DEF Next

-----------------------------------------------------------------------------
\* The inductive invariant holds of every behaviour of the broker.
THEOREM BrokerInvariant == Spec => []IInv
    BY InitIsCoherent, NextKeepsIInv, PTL DEF Spec

\* Types of the broker's state.
THEOREM BrokerTypes == Spec => []TypeOK
  <1>1. IInv => TypeOK
        BY DEF IInv
  <1> QED BY <1>1, BrokerInvariant, PTL

\* start never launches a second lane for an id whose lane is alive, although
\* ended executions are pruned and cancelled ones may outlive their cancel.
THEOREM OneLanePerId == Spec => []OneLaneAlivePerId
  <1>1. IInv => OneLaneAlivePerId
        BY DEF IInv, MapIsExact, OneLaneAlivePerId
  <1> QED BY <1>1, BrokerInvariant, PTL

\* Every snapshot the broker can answer with passes the caller's parser.
THEOREM SnapshotsParse == Spec => []EverySnapshotParses
  <1>1. ASSUME IInv PROVE EverySnapshotParses
    <2> SUFFICES ASSUME NEW l \in Launches,
                        (l \in polls) \/ (\E id \in ExecutionIds : executions[id] = l)
                 PROVE  Parses(stored[l])
        BY DEF EverySnapshotParses
    <2>1. l <= launched
          BY <1>1 DEF IInv, PollsAreLaunched, MapIsExact, Known, Absent, Launches
    <2> QED BY <1>1, <2>1 DEF IInv, ObjectsAreCoherent, Coherent
  <1> QED BY <1>1, BrokerInvariant, PTL

\* The two together, whatever the order of starts, cancels, polls, ends and prunes.
THEOREM ExecutionsStaySound == Spec => []ExecutionsAreSound
    BY OneLanePerId, SnapshotsParse, PTL DEF ExecutionsAreSound


-----------------------------------------------------------------------------
\* No step changes the end of an execution: a launch takes an object that was
\* never launched, a cancel only a running one, and only a lane that is alive,
\* and so has not reported yet, settles.
LEMMA StepsLeaveEnds == IInv /\ [Next]_vars => [EndStands]_vars
  <1> SUFFICES ASSUME IInv, Next PROVE EndStands
      OBVIOUS
  <1> USE DEF EndStands
  <1>1. ASSUME NEW id \in ExecutionIds, NEW signature \in Signatures,
               NEW answer, Start(id, signature, answer)
        PROVE  EndStands
    <2>1. CASE answer # "launched"
          BY <1>1, <2>1 DEF Start
    <2>2. CASE answer = "launched"
      <3>1. stored[launched + 1] = Unlaunched
            BY <1>1, <2>2, BrokerAssumption
            DEF Start, IInv, TypeOK, ObjectsAreCoherent, Launches
      <3>2. \A l \in Launches : l # launched + 1 => stored'[l] = stored[l]
            BY <1>1, <2>2 DEF Start, IInv, TypeOK
      <3> QED BY <3>1, <3>2 DEF Unlaunched
    <2> QED BY <2>1, <2>2
  <1>2. ASSUME NEW id \in ExecutionIds, Cancel(id) PROVE EndStands
    <2>1. CASE Known(id) /\ Stored(id).status = "running"
      <3>1. \A l \in Launches : l # executions[id] => stored'[l] = stored[l]
            BY <1>2, <2>1 DEF Cancel, IInv, TypeOK
      <3> QED BY <2>1, <3>1 DEF Stored
    <2>2. CASE ~(Known(id) /\ Stored(id).status = "running")
          BY <1>2, <2>2 DEF Cancel
    <2> QED BY <2>1, <2>2
  <1>3. ASSUME NEW k \in Launches, NEW result \in Results, Settle(k, result)
        PROVE  EndStands
    <2>1. /\ stored[k] \in Executions /\ stored[k].handle = "live"
          /\ stored' = [stored EXCEPT ![k] = Settled(stored[k], result)]
          BY <1>3 DEF Settle, IInv, TypeOK
    <2>2. Coherent(stored[k])
          BY <2>1 DEF IInv, ObjectsAreCoherent, Unlaunched
    <2>3. stored[k].status \in {"running", "cancelled"} /\ stored[k].result = NoResult
          BY <2>1, <2>2 DEF Coherent
    <2>4. stored[k].status = "cancelled" =>
             /\ Settled(stored[k], result).status = stored[k].status
             /\ Settled(stored[k], result).endedAt = stored[k].endedAt
          BY <2>1, <2>2 DEF Settled, Coherent, Executions
    <2>5. \A l \in Launches : l # k => stored'[l] = stored[l]
          BY <2>1 DEF IInv, TypeOK
    <2>6. stored'[k] = Settled(stored[k], result)
          BY <2>1 DEF IInv, TypeOK
    <2> QED BY <2>3, <2>4, <2>5, <2>6
  <1>4. ASSUME Shutdown PROVE EndStands
    <2> SUFFICES ASSUME NEW l \in Launches, stored[l].status \notin {"unlaunched", "running"}
                 PROVE  /\ stored'[l].status = stored[l].status
                        /\ stored'[l].endedAt = stored[l].endedAt
                        /\ stored'[l].result = stored[l].result
        OBVIOUS
    <2>1. stored[l] \in Executions
          BY DEF IInv, TypeOK
    <2>2. stored'[l] = [stored[l] EXCEPT !.handle = "null"]
          BY <1>4 DEF Shutdown
    <2> QED BY <2>1, <2>2 DEF Executions
  <1>5. CASE UNCHANGED stored
        BY <1>5
  <1> QED BY <1>1, <1>2, <1>3, <1>4, <1>5 DEF Next, BeginStatus, AnswerStatus, Tick

\* The end of an execution is final: a caller that reads a terminal snapshot
\* never reads another status, another end or another result for it.
THEOREM EndsAreFinal == Spec => EndIsFinal
    BY BrokerInvariant, StepsLeaveEnds, PTL DEF Spec, EndIsFinal

-----------------------------------------------------------------------------
(* The jobs of several processes.                                          *)

\* The types of the state of the jobs.
JobRecords == [status : Ended \cup {None, "running"}, endedAt : Int, execution : BOOLEAN,
               restored : BOOLEAN, tree : BOOLEAN]
JournalRows == [owner : Procs \cup {None}, execution : BOOLEAN]
ArchiveRecords == [status : Ended \cup {None}, endedAt : Int]
JobTypes ==
    /\ clock \in Nat
    /\ proc \in [Procs -> {"unborn", "restored", "adopting", "up", "stopping", "dead"}]
    /\ held \in [Procs -> [Jobs -> JobRecords]]
    /\ own \in [Procs -> [Jobs -> JournalRows]]
    /\ orphans \in [Procs -> SUBSET [job : Jobs, row : JournalRows]]
    /\ todo \in [Procs -> [step : {None, "archive", "clear"}, job : Jobs \cup {None},
                           owner : Procs \cup {None}]]
    /\ journal \in [Jobs -> JournalRows]
    /\ archive \in [Jobs -> ArchiveRecords]
    /\ startedAt \in [Jobs -> Int]
    /\ daemon \in [Jobs -> {"idle", "running", "gone"} \cup Ended]

\* A process that is not there knows nothing, and one that has read the archive only
\* knows how jobs ended.
IdleProcsKnowNothing ==
    \A p \in Procs :
        /\ ~Alive(p) => orphans[p] = {}
        /\ proc[p] \in {"unborn", "dead", "restored"} =>
              todo[p] = Nothing /\ \A j \in Jobs : own[p][j] = NoRow /\ ~Running(p, j)
        /\ ~Alive(p) => \A j \in Jobs : ~Holds(p, j)

\* Who publishes a row publishes it under its own name, runs no job without one, and is
\* the only one to do so.
RowsAreTheirs ==
    /\ \A p \in Procs, j \in Jobs : own[p][j] # NoRow => own[p][j].owner = p
    /\ \A p \in Procs, j \in Jobs : Running(p, j) => own[p][j] # NoRow
    /\ \A p, q \in Procs, j \in Jobs : own[p][j] # NoRow /\ own[q][j] # NoRow => p = q

\* The journal names a process that has published, and where a process that is alive
\* publishes a row it names no other.
JournalNamesTheOwner ==
    /\ \A j \in Jobs : journal[j] # NoRow =>
          journal[j].owner \in Procs /\ proc[journal[j].owner] \notin {"unborn", "restored"}
    /\ \A p \in Procs, j \in Jobs : own[p][j] # NoRow => journal[j] = NoRow \/ journal[j].owner = p

\* Nobody has heard of a job that was not created.
UnstartedIsUnknown ==
    \A j \in Jobs : startedAt[j] = Never =>
        /\ journal[j] = NoRow /\ archive[j] = NoRecord
        /\ \A p \in Procs : own[p][j] = NoRow /\ ~Holds(p, j) /\ \A o \in orphans[p] : o.job # j

\* What is left of a terminal transition is of a job that has ended.
LeftIsEnded ==
    \A p \in Procs : todo[p].step # None =>
        todo[p].job \in Jobs /\ held[p][todo[p].job].status \in Ended

\* While its creator runs a job, no other process and no file speaks of it.
CreatorIsAlone ==
    \A p \in Procs, j \in Jobs : Running(p, j) /\ ~held[p][j].restored =>
        /\ archive[j] = NoRecord
        /\ \A q \in Procs : (q # p => ~Holds(q, j)) /\ \A o \in orphans[q] : o.job # j

\* A local job found orphaned is nobody's any more.
LocalOrphansAreNobodys ==
    \A q \in Procs : \A o \in orphans[q] : ~o.row.execution =>
        ~journal[o.job].execution /\ \A p \in Procs : own[p][o.job] = NoRow

\* A job that was reported killed is not its creator's any more, and the daemon is done
\* with it unless no row says that the daemon has it.
KilledIsOver ==
    \A j \in Jobs : (archive[j].status = "killed" \/ \E q \in Procs : held[q][j].status = "killed") =>
        /\ \A p \in Procs : Running(p, j) => held[p][j].restored
        /\ \/ daemon[j] # "running"
           \/ ~journal[j].execution /\ \A p \in Procs : own[p][j] = NoRow

\* All of it but the types.
JobsSafe ==
    /\ IdleProcsKnowNothing /\ RowsAreTheirs /\ JournalNamesTheOwner /\ UnstartedIsUnknown
    /\ LeftIsEnded /\ CreatorIsAlone /\ LocalOrphansAreNobodys /\ KilledIsOver

\* All of it.
JobsInv == JobTypes /\ JobsSafe

\* What leaves the journal is in the archive: a row that is about to be cleared, or that
\* its owner no longer publishes, is of a job whose report the archive has.
ClearedIsArchived ==
    /\ \A p \in Procs : todo[p].step = "clear" => archive[todo[p].job] # NoRecord
    /\ \A p \in Procs, j \in Jobs :
          Alive(p) /\ journal[j].owner = p /\ own[p][j] = NoRow => archive[j] # NoRecord

\* The fields of the records that stand for what is absent, and of those the actions make.
LEMMA NoneIsNobody ==
    /\ None \notin Procs
    /\ NoRow \in JournalRows /\ NoRow.owner = None /\ ~NoRow.execution
    /\ NoRecord \in ArchiveRecords /\ NoRecord.status = None
    /\ NoJob \in JobRecords /\ NoJob.status = None
    /\ Nothing.step = None /\ Nothing.job = None /\ Nothing.owner = None
    /\ \A p \in Procs : /\ Row(p, TRUE) \in JournalRows /\ Row(p, TRUE).owner = p /\ Row(p, TRUE).execution
                       /\ Row(p, FALSE) \in JournalRows /\ Row(p, FALSE).owner = p /\ ~Row(p, FALSE).execution
    /\ \A s, t, e, r, d : /\ Job(s, t, e, r, d).status = s /\ Job(s, t, e, r, d).restored = r
                          /\ Job(s, t, e, r, d).execution = e /\ Job(s, t, e, r, d).tree = d /\ Job(s, t, e, r, d).endedAt = t
    /\ \A j, o : /\ Archiving(j, o).step = "archive" /\ Archiving(j, o).job = j /\ Archiving(j, o).owner = o
                 /\ Clearing(j, o).step = "clear" /\ Clearing(j, o).job = j /\ Clearing(j, o).owner = o
    /\ \A s, t : Record(s, t).status = s /\ Record(s, t).endedAt = t
  BY JobsAssumption DEF NoRow, Row, NoRecord, Record, NoJob, Job, Nothing, Archiving, Clearing, JournalRows,
     ArchiveRecords, JobRecords, Never

\* The types hold initially.
LEMMA TypesStart == JobsInit => JobTypes
  BY NoneIsNobody, JobsAssumption DEF JobsInit, JobTypes, Nothing, Never

\* Every step keeps the types.
LEMMA TypesStay == JobTypes /\ LeftIsEnded /\ [JobsNext]_jobsVars => JobTypes'
  <1> SUFFICES ASSUME JobTypes, LeftIsEnded, [JobsNext]_jobsVars
               PROVE  JobTypes'
      OBVIOUS
  <1> DEFINE Lives == {"unborn", "restored", "adopting", "up", "stopping", "dead"}
             Todos == [step : {None, "archive", "clear"}, job : Jobs \cup {None},
                       owner : Procs \cup {None}]
             Orphans == [job : Jobs, row : JournalRows]
             Works == {"idle", "running", "gone"} \cup Ended
  <1>1. /\ proc \in [Procs -> Lives] /\ held \in [Procs -> [Jobs -> JobRecords]]
        /\ own \in [Procs -> [Jobs -> JournalRows]] /\ orphans \in [Procs -> SUBSET Orphans]
        /\ todo \in [Procs -> Todos] /\ journal \in [Jobs -> JournalRows]
        /\ archive \in [Jobs -> ArchiveRecords] /\ startedAt \in [Jobs -> Int]
        /\ daemon \in [Jobs -> Works] /\ clock \in Nat
        BY DEF JobTypes
  <1>2. /\ \A s \in Ended \cup {None, "running"}, t \in Int, e, r, d \in BOOLEAN :
              Job(s, t, e, r, d) \in JobRecords
        /\ \A q \in Procs, e \in BOOLEAN : Row(q, e) \in JournalRows
        /\ \A s \in Ended \cup {None}, t \in Int : Record(s, t) \in ArchiveRecords
        /\ \A k \in Jobs, q \in Procs \cup {None} : Archiving(k, q) \in Todos /\ Clearing(k, q) \in Todos
        /\ Nothing \in Todos
        BY DEF Job, JobRecords, Row, JournalRows, Record, ArchiveRecords, Archiving, Clearing, Nothing
  <1>3. /\ \A x \in JobRecords : /\ x.status \in Ended \cup {None, "running"} /\ x.endedAt \in Int
                                 /\ x.execution \in BOOLEAN /\ x.restored \in BOOLEAN /\ x.tree \in BOOLEAN
        /\ \A x \in ArchiveRecords : x.status \in Ended \cup {None} /\ x.endedAt \in Int
        /\ \A x \in JournalRows : x.owner \in Procs \cup {None} /\ x.execution \in BOOLEAN
        /\ \A x \in Orphans : x.job \in Jobs /\ x.row \in JournalRows
        /\ \A x \in Todos : x.job \in Jobs \cup {None} /\ x.owner \in Procs \cup {None}
        BY DEF JobRecords, ArchiveRecords, JournalRows
  <1>4. /\ \A x \in JobRecords, b \in BOOLEAN : [x EXCEPT !.execution = b] \in JobRecords
                                              /\ [x EXCEPT !.tree = b] \in JobRecords
        /\ \A x \in JournalRows, b \in BOOLEAN : [x EXCEPT !.execution = b] \in JournalRows
        /\ \A x \in JournalRows, q \in Procs : [x EXCEPT !.owner = q] \in JournalRows
        BY DEF JobRecords, JournalRows
  <1>5. ASSUME NEW q \in Procs, NEW rows \in [Jobs -> JournalRows], Persist(q, rows)
        PROVE  journal' \in [Jobs -> JournalRows]
        BY <1>1, <1>5, NoneIsNobody DEF Persist, Rewritten
  <1>6. ASSUME NEW k \in Jobs, NEW r \in ArchiveRecords, WriteArchive(k, r)
        PROVE  archive' \in [Jobs -> ArchiveRecords]
        BY <1>1, <1>6, NoneIsNobody DEF WriteArchive
  <1>a. NoRow \in JournalRows
        BY NoneIsNobody
  <1>b. Nothing \in Todos
        BY <1>2
  <1> HIDE DEF Lives, Todos, Orphans, Works
  <1>7. UNCHANGED jobsVars => JobTypes'
        BY DEF jobsVars, JobTypes
  <1> DEFINE Held == held' \in [Procs -> [Jobs -> JobRecords]]
             Own == own' \in [Procs -> [Jobs -> JournalRows]]
             Orph == orphans' \in [Procs -> SUBSET Orphans]
             Todo == todo' \in [Procs -> Todos]
             Jour == journal' \in [Jobs -> JournalRows]
             Arch == archive' \in [Jobs -> ArchiveRecords]
  <1>8. (/\ Held /\ Own /\ Orph /\ Todo /\ Jour /\ Arch
         /\ proc' \in [Procs -> Lives] /\ startedAt' \in [Jobs -> Int]
         /\ daemon' \in [Jobs -> Works] /\ clock' \in Nat) => JobTypes'
        BY DEF JobTypes, Lives, Todos, Orphans, Works
  <1>9. \A q \in Procs, k \in Jobs :
           /\ held[q][k] \in JobRecords
           /\ \A x \in JobRecords : [held EXCEPT ![q][k] = x] \in [Procs -> [Jobs -> JobRecords]]
           /\ \A x \in JournalRows : [own EXCEPT ![q][k] = x] \in [Procs -> [Jobs -> JournalRows]]
           /\ \A x \in Todos : [todo EXCEPT ![q] = x] \in [Procs -> Todos]
           /\ \A x \in SUBSET Orphans : [orphans EXCEPT ![q] = x] \in [Procs -> SUBSET Orphans]
           /\ \A x \in JournalRows : [journal EXCEPT ![k] = x] \in [Jobs -> JournalRows]
        BY <1>1
  <1>10. ASSUME NEW p \in Procs, Boot(p)
         PROVE  JobTypes'
    <2>1. UNCHANGED <<clock, own, orphans, todo, journal, archive, startedAt, daemon>>
          BY <1>10 DEF Boot, files
    <2>2. proc' \in [Procs -> Lives]
          BY <1>1, <1>10 DEF Boot, Lives
    <2>3. \A k \in Jobs : archive[k] # NoRecord => Job(archive[k].status, archive[k].endedAt, FALSE, TRUE, FALSE) \in JobRecords
          BY <1>1, <1>2, <1>3
    <2>4. Held
          BY <1>1, <2>3, NoneIsNobody, <1>10 DEF Boot
    <2> QED BY <1>1, <1>8, <2>1, <2>2, <2>3, <2>4
  <1>11. ASSUME NEW p \in Procs, ReadJournal(p)
         PROVE  JobTypes'
    <2>1. UNCHANGED <<clock, held, own, todo, journal, archive, startedAt, daemon>>
          BY <1>11 DEF ReadJournal, files
    <2>2. proc' \in [Procs -> Lives]
          BY <1>1, <1>11 DEF ReadJournal, Lives
    <2>3. \A k \in Jobs : [job |-> k, row |-> journal[k]] \in Orphans
          BY <1>1 DEF Orphans
    <2>4. Orph
          BY <1>1, <2>3, <1>11 DEF ReadJournal
    <2> QED BY <1>1, <1>8, <2>1, <2>2, <2>3, <2>4
  <1>12. ASSUME NEW p \in Procs, SkipOrphan(p)
         PROVE  JobTypes'
    <2>1. UNCHANGED <<clock, proc, held, own, todo, journal, archive, startedAt, daemon>>
          BY <1>12 DEF SkipOrphan, files
    <2>2. Orph
          BY <1>1, <1>12 DEF SkipOrphan, Taken
    <2> QED BY <1>1, <1>8, <2>1, <2>2
  <1>13. ASSUME NEW p \in Procs, AdoptLocal(p)
         PROVE  JobTypes'
    <2>1. UNCHANGED <<clock, proc, own, journal, archive, startedAt, daemon>>
          BY <1>13 DEF AdoptLocal, files
    <2>2. Orph
          BY <1>1, <1>13 DEF AdoptLocal, Taken
    <2>3. \A o \in orphans[p] : o.job \in Jobs /\ o.row.owner \in Procs \cup {None} /\ startedAt[o.job] \in Int
          BY <1>1, <1>3
    <2>4. PICK o \in orphans[p] : held' = [held EXCEPT ![p][o.job] = Job("killed", startedAt[o.job], FALSE, FALSE, TRUE)]
          BY <1>13 DEF AdoptLocal
    <2>6. Job("killed", startedAt[o.job], FALSE, FALSE, TRUE) \in JobRecords
          BY <1>2, <2>3 DEF Ended
    <2>7. Held
          BY <1>9, <2>3, <2>4, <2>6
    <2>5. Todo
          BY <1>2, <1>9, <2>3, <1>13 DEF AdoptLocal
    <2> QED BY <1>1, <1>8, <2>1, <2>2, <2>5, <2>7
  <1>14. ASSUME NEW p \in Procs, ClaimOrphan(p)
         PROVE  JobTypes'
    <2>1. UNCHANGED <<clock, proc, todo, archive, startedAt, daemon>>
          BY <1>14 DEF ClaimOrphan
    <2>2. Orph
          BY <1>1, <1>14 DEF ClaimOrphan, Taken
    <2>3. \A o \in orphans[p] : o.job \in Jobs /\ journal[o.job] \in JournalRows
          BY <1>1, <1>3
    <2>4. PICK o \in orphans[p] :
             \/ /\ journal' = [journal EXCEPT ![o.job].owner = p]
                /\ own' = [own EXCEPT ![p][o.job] = Row(p, TRUE)]
                /\ held' = [held EXCEPT ![p][o.job] = Job("running", Never, TRUE, TRUE, TRUE)]
             \/ UNCHANGED <<journal, own, held>>
          BY <1>14 DEF ClaimOrphan
    <2>5. Job("running", Never, TRUE, TRUE, TRUE) \in JobRecords
          BY DEF Job, JobRecords, Never
    <2>9. Row(p, TRUE) \in JournalRows
          BY <1>2
    <2>10. /\ held' = held \/ held' = [held EXCEPT ![p][o.job] = Job("running", Never, TRUE, TRUE, TRUE)]
           /\ own' = own \/ own' = [own EXCEPT ![p][o.job] = Row(p, TRUE)]
          BY <2>4
    <2>11. o.job \in Jobs
          BY <2>3
    <2>12. [held EXCEPT ![p][o.job] = Job("running", Never, TRUE, TRUE, TRUE)] \in [Procs -> [Jobs -> JobRecords]]
          BY <1>9, <2>5, <2>11
    <2>13. [own EXCEPT ![p][o.job] = Row(p, TRUE)] \in [Procs -> [Jobs -> JournalRows]]
          BY <1>9, <2>9, <2>11
    <2>14. held \in [Procs -> [Jobs -> JobRecords]] /\ own \in [Procs -> [Jobs -> JournalRows]]
          BY <1>1
    <2>6. Held /\ Own
          BY <2>10, <2>12, <2>13, <2>14
    <2>7. [journal EXCEPT ![o.job].owner = p] \in [Jobs -> JournalRows]
          BY <1>1, <1>4, <2>3
    <2>8. Jour
          BY <1>1, <2>4, <2>7
    <2> QED BY <1>1, <1>8, <2>1, <2>2, <2>6, <2>8
  <1>15. ASSUME NEW p \in Procs, Ready(p)
         PROVE  JobTypes'
    <2>1. UNCHANGED <<clock, held, own, orphans, todo, journal, archive, startedAt, daemon>>
          BY <1>15 DEF Ready, memory, files
    <2>2. proc' \in [Procs -> Lives]
          BY <1>1, <1>15 DEF Ready, Lives
    <2> QED BY <1>1, <1>8, <2>1, <2>2
  <1>16. ASSUME NEW p \in Procs, RecordJob(p)
         PROVE  JobTypes'
    <2>1. UNCHANGED <<clock, proc, held, own, orphans, journal, startedAt, daemon>>
          BY <1>16 DEF RecordJob
    <2>2. todo[p].job \in Jobs /\ held[p][todo[p].job].status \in Ended
          BY <1>16 DEF RecordJob, LeftIsEnded, None
    <2>6. Clearing(todo[p].job, todo[p].owner) \in Todos
          BY <1>1, <1>2, <1>3, <2>2
    <2>3. Todo
          BY <1>1, <1>b, <2>6, <1>16 DEF RecordJob
    <2>4. Record(held[p][todo[p].job].status, held[p][todo[p].job].endedAt) \in ArchiveRecords
          BY <1>2, <1>3, <1>9, <2>2
    <2>5. Arch
          BY <1>1, <1>6, <2>2, <2>4, <1>16 DEF RecordJob
    <2> QED BY <1>1, <1>8, <2>1, <2>2, <2>3, <2>4, <2>5
  <1>17. ASSUME NEW p \in Procs, ClearRow(p)
         PROVE  JobTypes'
    <2>1. UNCHANGED <<clock, proc, held, orphans, archive, startedAt, daemon>>
          BY <1>17 DEF ClearRow
    <2>2. Todo
          BY <1>1, <1>2, <1>9, <1>17 DEF ClearRow
    <2>3. todo[p].job \in Jobs
          BY <1>17 DEF ClearRow, LeftIsEnded, None
    <2>7. own' = own \/ own' = [own EXCEPT ![p][todo[p].job] = NoRow]
          BY <1>17 DEF ClearRow
    <2>8. [own EXCEPT ![p][todo[p].job] = NoRow] \in [Procs -> [Jobs -> JournalRows]]
          BY <1>9, <1>a, <2>3
    <2>4. Own
          BY <1>1, <2>7, <2>8
    <2>5. [own[p] EXCEPT ![todo[p].job] = NoRow] \in [Jobs -> JournalRows]
          BY <1>1, NoneIsNobody
    <2>6. Jour
          BY <1>1, <1>5, <2>5, <1>17 DEF ClearRow
    <2> QED BY <1>1, <1>8, <2>1, <2>2, <2>3, <2>4, <2>5, <2>6
  <1>18. ASSUME NEW p \in Procs, ClearOrphan(p)
         PROVE  JobTypes'
    <2>1. UNCHANGED <<clock, proc, held, own, orphans, archive, startedAt, daemon>>
          BY <1>18 DEF ClearOrphan
    <2>2. Todo
          BY <1>1, <1>2, <1>9, <1>18 DEF ClearOrphan
    <2>3. Jour
          BY <1>1, NoneIsNobody, <1>18 DEF ClearOrphan
    <2> QED BY <1>1, <1>8, <2>1, <2>2, <2>3
  <1>19. ASSUME NEW p \in Procs, StopServing(p)
         PROVE  JobTypes'
    <2>1. UNCHANGED <<clock, held, own, orphans, todo, journal, archive, startedAt, daemon>>
          BY <1>19 DEF StopServing, memory, files
    <2>2. proc' \in [Procs -> Lives]
          BY <1>1, <1>19 DEF StopServing, Lives
    <2> QED BY <1>1, <1>8, <2>1, <2>2
  <1>20. ASSUME NEW p \in Procs, Forget(p)
         PROVE  JobTypes'
    <2>1. UNCHANGED <<clock, journal, archive, startedAt, daemon>>
          BY <1>20 DEF Forget, files
    <2>2. proc' \in [Procs -> Lives] /\ Held /\ Own
          BY <1>1, NoneIsNobody, <1>20 DEF Forget, Lives
    <2>3. Orph /\ Todo
          BY <1>1, <1>2, <1>9, <1>20 DEF Forget
    <2> QED BY <1>1, <1>8, <2>1, <2>2, <2>3
  <1>21. ASSUME NEW p \in Procs, NEW j \in Jobs, Create(p, j)
         PROVE  JobTypes'
    <2>1. UNCHANGED <<clock, proc, orphans, todo, archive, daemon>>
          BY <1>21 DEF Create
    <2>2. startedAt' \in [Jobs -> Int]
          BY <1>1, <1>21 DEF Create
    <2>5. Job("running", Never, FALSE, FALSE, TRUE) \in JobRecords
          BY DEF Job, JobRecords, Never
    <2>6. Row(p, FALSE) \in JournalRows
          BY <1>2
    <2>3. Held /\ Own
          BY <1>9, <2>5, <2>6, <1>21 DEF Create
    <2>4. Jour
          BY <1>5, <2>3, <1>21 DEF Create
    <2> QED BY <1>1, <1>8, <2>1, <2>2, <2>3, <2>4
  <1>22. ASSUME NEW p \in Procs, NEW j \in Jobs, NoteExecution(p, j)
         PROVE  JobTypes'
    <2>1. UNCHANGED <<clock, proc, orphans, todo, archive, startedAt, daemon>>
          BY <1>22 DEF NoteExecution
    <2>2. Held
          BY <1>1, <1>4, <1>22 DEF NoteExecution
    <2>3. Own
          BY <1>1, <1>4, <1>22 DEF NoteExecution
    <2>4. Jour
          BY <1>5, <2>3, <1>22 DEF NoteExecution
    <2> QED BY <1>1, <1>8, <2>1, <2>2, <2>3, <2>4
  <1>23. ASSUME NEW p \in Procs, NEW j \in Jobs, StartExecution(p, j)
         PROVE  JobTypes'
    <2>1. UNCHANGED <<clock, proc, held, own, orphans, todo, journal, archive, startedAt>>
          BY <1>23 DEF StartExecution, memory, files
    <2>2. daemon' \in [Jobs -> Works]
          BY <1>1, <1>23 DEF StartExecution, Works
    <2> QED BY <1>1, <1>8, <2>1, <2>2
  <1>24. ASSUME NEW p \in Procs, NEW j \in Jobs, ContinueLocally(p, j)
         PROVE  JobTypes'
    <2>1. UNCHANGED <<clock, proc, orphans, todo, archive, startedAt, daemon>>
          BY <1>24 DEF ContinueLocally
    <2>2. Held
          BY <1>1, <1>4, <1>24 DEF ContinueLocally
    <2>3. Own
          BY <1>1, <1>4, <1>24 DEF ContinueLocally
    <2>4. Jour
          BY <1>5, <2>3, <1>24 DEF ContinueLocally
    <2> QED BY <1>1, <1>8, <2>1, <2>2, <2>3, <2>4
  <1>25. ASSUME NEW p \in Procs, NEW j \in Jobs, NEW s \in Ended,
                held' = [held EXCEPT ![p][j] = Job(s, clock, FALSE, @.restored, @.tree)],
                todo' = [todo EXCEPT ![p] = Archiving(j, p)]
         PROVE  Held /\ Todo
    <2>1. held[p][j].restored \in BOOLEAN /\ held[p][j].tree \in BOOLEAN /\ clock \in Int
          BY <1>1, <1>3
    <2>2. Job(s, clock, FALSE, held[p][j].restored, held[p][j].tree) \in JobRecords
          BY <2>1 DEF Job, JobRecords
    <2> QED BY <1>1, <1>2, <1>9, <1>25, <2>2
  <1>26. ASSUME NEW p \in Procs, NEW j \in Jobs, CompleteJob(p, j)
         PROVE  JobTypes'
    <2>1. UNCHANGED <<clock, proc, own, orphans, journal, archive, startedAt, daemon>>
          BY <1>26 DEF CompleteJob, End, files
    <2>2. Held /\ Todo
          BY <1>25, <1>26 DEF CompleteJob, End, Ended
    <2> QED BY <1>1, <1>8, <2>1, <2>2
  <1>27. ASSUME NEW p \in Procs, NEW j \in Jobs, RefreshBrokerJob(p, j)
         PROVE  JobTypes'
    <2>1. UNCHANGED <<clock, proc, own, orphans, journal, archive, startedAt, daemon>>
          BY <1>27 DEF RefreshBrokerJob, End, files
    <2>2. Held /\ Todo
          BY <1>25, <1>27 DEF RefreshBrokerJob, End, Ended
    <2> QED BY <1>1, <1>8, <2>1, <2>2
  <1>28. ASSUME NEW p \in Procs, NEW j \in Jobs, CancelJob(p, j)
         PROVE  JobTypes'
    <2>1. UNCHANGED <<clock, proc, own, orphans, journal, archive, startedAt, daemon>>
          BY <1>28 DEF CancelJob, End, files
    <2>2. Held /\ Todo
          BY <1>25, <1>28 DEF CancelJob, End, Ended
    <2> QED BY <1>1, <1>8, <2>1, <2>2
  <1>29. ASSUME NEW p \in Procs, NEW j \in Jobs, CancelExecution(p, j)
         PROVE  JobTypes'
    <2>1. UNCHANGED <<clock, proc, own, orphans, journal, archive, startedAt>>
          BY <1>29 DEF CancelExecution, files
    <2>2. Held /\ Todo
          BY <1>25, <1>29 DEF CancelExecution, Ended
    <2>3. daemon' \in [Jobs -> Works]
          BY <1>1, <1>29 DEF CancelExecution, Works, Ended
    <2> QED BY <1>1, <1>8, <2>1, <2>2, <2>3
  <1>30. ASSUME NEW p \in Procs, NEW j \in Jobs, NoteTreeDelta(p, j)
         PROVE  JobTypes'
    <2>1. UNCHANGED <<clock, proc, own, orphans, journal, archive, startedAt, daemon>>
          BY <1>30 DEF NoteTreeDelta, files
    <2>2. Held
          BY <1>1, <1>4, <1>30 DEF NoteTreeDelta
    <2>3. Todo
          BY <1>2, <1>9, <1>30 DEF NoteTreeDelta
    <2> QED BY <1>1, <1>8, <2>1, <2>2, <2>3
  <1>31. ASSUME NEW p \in Procs, NEW j \in Jobs, Find(p, j)
         PROVE  JobTypes'
    <2>1. UNCHANGED <<clock, proc, own, orphans, todo, journal, archive, startedAt, daemon>>
          BY <1>31 DEF Find, files
    <2>2. Job(archive[j].status, archive[j].endedAt, FALSE, TRUE, FALSE) \in JobRecords
          BY <1>1, <1>2, <1>3
    <2>3. Held
          BY <1>9, <2>2, <1>31 DEF Find
    <2> QED BY <1>1, <1>8, <2>1, <2>2, <2>3
  <1>32. ASSUME NEW j \in Jobs, DaemonStep(j)
         PROVE  JobTypes'
    <2>1. UNCHANGED <<clock, proc, held, own, orphans, todo, journal, archive, startedAt>>
          BY <1>32 DEF DaemonStep, memory, files
    <2>2. daemon' \in [Jobs -> Works]
          BY <1>1, <1>32 DEF DaemonStep, Works, Ended
    <2> QED BY <1>1, <1>8, <2>1, <2>2
  <1>33. ASSUME JobsTick
         PROVE  JobTypes'
    <2>1. clock' \in Nat /\ UNCHANGED <<proc, held, own, orphans, todo, journal, archive, startedAt, daemon>>
          BY <1>1, <1>33 DEF JobsTick, memory, files
    <2> QED BY <1>1, <1>8, <2>1
  <1> QED BY <1>7, <1>8, <1>9, <1>10, <1>11, <1>12, <1>13, <1>14, <1>15, <1>16, <1>17, <1>18, <1>19, <1>20,
             <1>21, <1>22, <1>23, <1>24, <1>25, <1>26, <1>27, <1>28, <1>29, <1>30, <1>31, <1>32,
             <1>33 DEF JobsNext, Exit, Crash

\* How one step may change what processes hold: nothing but job j of process p.
OnlyItsJob(p, j) ==
    \A q \in Procs, k \in Jobs : q # p \/ k # j => held'[q][k] = held[q][k]

\* A process ends a job it runs and is about to archive it; if it says that it was killed,
\* the daemon does not run it.
LEMMA EndKeeps ==
    ASSUME JobsInv, NEW p \in Procs, NEW j \in Jobs,
           Running(p, j), proc[p] \in {"up", "stopping"}, OnlyItsJob(p, j),
           held'[p][j].status \in Ended,
           held'[p][j].status = "killed" => daemon'[j] # "running",
           todo'[p] = Archiving(j, p), \A q \in Procs : q # p => todo'[q] = todo[q],
           \A k \in Jobs : daemon'[k] = "running" => daemon[k] = "running",
           UNCHANGED <<proc, own, orphans, journal, archive, startedAt>>
    PROVE  JobsSafe'
  <1> USE NoneIsNobody DEF OnlyItsJob
  <1>1. JobTypes /\ JobsSafe
        BY DEF JobsInv
  <1>0. /\ ~Running(p, j)' /\ Holds(p, j) /\ Holds(p, j)'
        /\ \A q \in Procs, k \in Jobs : /\ Running(q, k)' => Running(q, k) /\ held'[q][k] = held[q][k]
                                        /\ Holds(q, k)' <=> Holds(q, k)
        BY DEF Running, Holds, Ended, None
  <1>2. IdleProcsKnowNothing'
        BY <1>0, <1>1 DEF JobsSafe, IdleProcsKnowNothing, Alive
  <1>3. RowsAreTheirs'
        BY <1>0, <1>1 DEF JobsSafe, RowsAreTheirs
  <1>4. JournalNamesTheOwner'
        BY <1>1 DEF JobsSafe, JournalNamesTheOwner
  <1>5. UnstartedIsUnknown'
        BY <1>0, <1>1 DEF JobsSafe, UnstartedIsUnknown
  <1>6. LeftIsEnded'
        BY <1>1 DEF JobsSafe, LeftIsEnded
  <1>7. CreatorIsAlone'
        BY <1>0, <1>1 DEF JobsSafe, CreatorIsAlone
  <1>8. LocalOrphansAreNobodys'
        BY <1>1 DEF JobsSafe, LocalOrphansAreNobodys
  <1>9. KilledIsOver'
        BY <1>0, <1>1 DEF JobsSafe, KilledIsOver, RowsAreTheirs
  <1> QED BY <1>2, <1>3, <1>4, <1>5, <1>6, <1>7, <1>8, <1>9 DEF JobsSafe

\* CompleteJob, RefreshBrokerJob, CancelJob and CancelExecution are such ends.
LEMMA EndsKeep ==
    ASSUME JobsInv, NEW p \in Procs, NEW j \in Jobs,
           \/ CompleteJob(p, j) \/ RefreshBrokerJob(p, j) \/ CancelJob(p, j) \/ CancelExecution(p, j)
    PROVE  JobsSafe'
  <1>1. JobTypes
        BY DEF JobsInv
  <1>2. /\ Running(p, j) /\ proc[p] \in {"up", "stopping"}
        /\ UNCHANGED <<proc, own, orphans, journal, archive, startedAt>>
        BY DEF CompleteJob, RefreshBrokerJob, CancelJob, CancelExecution, End, Serving, files
  <1>3. \E s \in Ended :
           /\ held' = [held EXCEPT ![p][j] = Job(s, clock, FALSE, @.restored, @.tree)]
           /\ s = "killed" => daemon'[j] # "running"
    <2>1. CASE CompleteJob(p, j)
          BY <2>1 DEF CompleteJob, End, Ended
    <2>2. CASE RefreshBrokerJob(p, j)
          BY <2>2 DEF RefreshBrokerJob, End, Ended
    <2>3. CASE CancelJob(p, j)
          BY <2>3 DEF CancelJob, End, Ended
    <2>4. CASE CancelExecution(p, j)
      <3>1. daemon'[j] # "running"
            BY <1>1, <2>4 DEF CancelExecution, JobTypes
      <3> QED BY <2>4, <3>1 DEF CancelExecution, Ended
    <2> QED BY <2>1, <2>2, <2>3, <2>4
  <1>4. todo' = [todo EXCEPT ![p] = Archiving(j, p)]
        BY DEF CompleteJob, RefreshBrokerJob, CancelJob, CancelExecution, End
  <1>5. \A k \in Jobs : daemon'[k] = "running" => daemon[k] = "running"
    <2>1. daemon' = daemon \/ daemon' = [daemon EXCEPT ![j] = IF @ = "running" THEN "cancelled" ELSE @]
          BY DEF CompleteJob, RefreshBrokerJob, CancelJob, CancelExecution, End
    <2> QED BY <1>1, <2>1 DEF JobTypes
  <1>8. PICK s \in Ended :
           /\ held' = [held EXCEPT ![p][j] = Job(s, clock, FALSE, held[p][j].restored, held[p][j].tree)]
           /\ s = "killed" => daemon'[j] # "running"
        BY <1>1, <1>3 DEF JobTypes
  <1>9. held \in [Procs -> [Jobs -> JobRecords]]
        BY <1>1 DEF JobTypes
  <1>10. OnlyItsJob(p, j)
        BY <1>8, <1>9 DEF OnlyItsJob
  <1>11. held'[p][j] = Job(s, clock, FALSE, held[p][j].restored, held[p][j].tree)
        BY <1>8, <1>9
  <1>6. OnlyItsJob(p, j) /\ held'[p][j].status = s
        BY <1>10, <1>11 DEF Job
  <1>7. todo'[p] = Archiving(j, p) /\ \A q \in Procs : q # p => todo'[q] = todo[q]
        BY <1>1, <1>4 DEF JobTypes
  <1> QED BY <1>2, <1>5, <1>6, <1>7, <1>8, EndKeeps

\* What a process says of a job changes in nothing but the execution and the tree of
\* a job it holds.
LEMMA SaysTheSame ==
    ASSUME JobsInv,
           \A q \in Procs, k \in Jobs : /\ held'[q][k].status = held[q][k].status
                                        /\ held'[q][k].restored = held[q][k].restored
    PROVE  \A q \in Procs, k \in Jobs : /\ Running(q, k)' <=> Running(q, k)
                                        /\ Holds(q, k)' <=> Holds(q, k)
  BY DEF Running, Holds

\* NoteTreeDelta: a job's tree is noted, and an ended one is archived once more.
LEMMA TreeDeltaKeeps ==
    ASSUME JobsInv, NEW p \in Procs, NEW j \in Jobs, NoteTreeDelta(p, j)
    PROVE  JobsSafe'
  <1> USE NoneIsNobody
  <1>1. JobTypes /\ JobsSafe
        BY DEF JobsInv
  <1>2. /\ UNCHANGED <<proc, own, orphans, journal, archive, startedAt, daemon>>
        /\ held' = [held EXCEPT ![p][j].tree = FALSE]
        /\ todo' = [todo EXCEPT ![p] = IF Running(p, j) THEN Nothing ELSE Archiving(j, p)]
        /\ Holds(p, j) /\ proc[p] = "up"
        BY DEF NoteTreeDelta, Serving, files
  <1>3. \A q \in Procs, k \in Jobs : /\ held'[q][k].status = held[q][k].status
                                     /\ held'[q][k].restored = held[q][k].restored
        BY <1>1, <1>2 DEF JobTypes, JobRecords
  <1>4. \A q \in Procs, k \in Jobs : /\ Running(q, k)' <=> Running(q, k)
                                     /\ Holds(q, k)' <=> Holds(q, k)
        BY <1>3, SaysTheSame
  <1>5. \A q \in Procs : todo'[q] = todo[q] \/ (q = p /\ (todo'[q] = Nothing \/ (~Running(p, j) /\ todo'[q] = Archiving(j, p))))
        BY <1>1, <1>2 DEF JobTypes
  <1>6. ~Running(p, j) => held[p][j].status \in Ended
        BY <1>1, <1>2 DEF JobTypes, JobRecords, Running, Holds
  <1>7. IdleProcsKnowNothing'
        BY <1>1, <1>2, <1>4, <1>5 DEF JobsSafe, IdleProcsKnowNothing, Alive
  <1>8. RowsAreTheirs'
        BY <1>1, <1>2, <1>4 DEF JobsSafe, RowsAreTheirs
  <1>9. JournalNamesTheOwner' /\ LocalOrphansAreNobodys'
        BY <1>1, <1>2 DEF JobsSafe, JournalNamesTheOwner, LocalOrphansAreNobodys
  <1>10. UnstartedIsUnknown'
        BY <1>1, <1>2, <1>4 DEF JobsSafe, UnstartedIsUnknown
  <1>11. LeftIsEnded'
        BY <1>1, <1>3, <1>5, <1>6 DEF JobsSafe, LeftIsEnded, None
  <1>12. CreatorIsAlone'
        BY <1>1, <1>2, <1>3, <1>4 DEF JobsSafe, CreatorIsAlone
  <1>13. KilledIsOver'
        BY <1>1, <1>2, <1>3, <1>4 DEF JobsSafe, KilledIsOver
  <1> QED BY <1>7, <1>8, <1>9, <1>10, <1>11, <1>12, <1>13 DEF JobsSafe

\* A process exits or is killed: its memory is gone, the files stay.
LEMMA ForgetKeeps ==
    ASSUME JobsInv, NEW p \in Procs, Alive(p), Forget(p)
    PROVE  JobsSafe'
  <1> USE NoneIsNobody
  <1>1. JobTypes /\ JobsSafe
        BY DEF JobsInv
  <1>2. UNCHANGED <<journal, archive, startedAt, daemon>>
        BY DEF Forget, files
  <1>3. /\ \A q \in Procs : q # p => /\ proc'[q] = proc[q] /\ held'[q] = held[q] /\ own'[q] = own[q]
                                     /\ orphans'[q] = orphans[q] /\ todo'[q] = todo[q]
        /\ proc'[p] = "dead" /\ orphans'[p] = {} /\ todo'[p] = Nothing
        /\ \A k \in Jobs : held'[p][k] = NoJob /\ own'[p][k] = NoRow
        BY <1>1 DEF Forget, JobTypes
  <1>4. \A q \in Procs, k \in Jobs : /\ Running(q, k)' <=> (q # p /\ Running(q, k))
                                     /\ Holds(q, k)' <=> (q # p /\ Holds(q, k))
        BY <1>3 DEF Running, Holds, None
  <1>5. \A q \in Procs : Alive(q)' <=> (q # p /\ Alive(q))
        BY <1>3 DEF Alive
  <1>7. IdleProcsKnowNothing'
        BY <1>1, <1>3, <1>4, <1>5 DEF JobsSafe, IdleProcsKnowNothing
  <1>8. RowsAreTheirs'
        BY <1>1, <1>3, <1>4 DEF JobsSafe, RowsAreTheirs
  <1>9. JournalNamesTheOwner'
        BY <1>1, <1>2, <1>3 DEF JobsSafe, JournalNamesTheOwner
  <1>6. /\ \A q \in Procs : orphans'[q] \subseteq orphans[q]
        /\ \A q \in Procs, k \in Jobs : own[q][k] = NoRow => own'[q][k] = NoRow
        BY <1>3
  <1>15. \A q \in Procs : \A o \in orphans[q] : o.job \in Jobs
        BY <1>1 DEF JobTypes
  <1>10. LocalOrphansAreNobodys'
        BY <1>1, <1>2, <1>6, <1>15 DEF JobsSafe, LocalOrphansAreNobodys
  <1>11. UnstartedIsUnknown'
        BY <1>1, <1>2, <1>3, <1>4 DEF JobsSafe, UnstartedIsUnknown
  <1>12. LeftIsEnded'
        BY <1>1, <1>3 DEF JobsSafe, LeftIsEnded
  <1>13. CreatorIsAlone'
        BY <1>1, <1>2, <1>3, <1>4 DEF JobsSafe, CreatorIsAlone
  <1>14. KilledIsOver'
        BY <1>1, <1>2, <1>3, <1>4 DEF JobsSafe, KilledIsOver, None
  <1> QED BY <1>7, <1>8, <1>9, <1>10, <1>11, <1>12, <1>13, <1>14 DEF JobsSafe

\* The journal after a write of p: each row is one of the rows p publishes, or
\* what it was, or it was p's and p publishes none for this job.
LEMMA WrittenRows ==
    ASSUME NEW p \in Procs, NEW rows \in [Jobs -> JournalRows], Persist(p, rows), NEW k \in Jobs
    PROVE  \/ journal'[k] = journal[k]
           \/ rows[k] # NoRow /\ journal'[k] = rows[k]
           \/ rows[k] = NoRow /\ journal[k].owner = p /\ journal'[k] = NoRow
  BY DEF Persist, Rewritten

\* NoteExecution and ContinueLocally: a row is changed and published again.
LEMMA RepublishKeeps ==
    ASSUME JobsInv, NEW p \in Procs, NEW j \in Jobs, NoteExecution(p, j) \/ ContinueLocally(p, j)
    PROVE  JobsSafe'
  <1> USE NoneIsNobody
  <1>1. JobTypes /\ JobsSafe
        BY DEF JobsInv
  <1>2. /\ UNCHANGED <<clock, proc, orphans, todo, archive, startedAt, daemon>>
        /\ Running(p, j) /\ proc[p] = "up"
        /\ Persist(p, own'[p])
        BY DEF NoteExecution, ContinueLocally, Serving
  <1>3. PICK e \in BOOLEAN : /\ held' = [held EXCEPT ![p][j].execution = e]
                             /\ own' = [own EXCEPT ![p][j].execution = e]
        BY DEF NoteExecution, ContinueLocally
  <1>4. \A q \in Procs, k \in Jobs : /\ held'[q][k].status = held[q][k].status
                                     /\ held'[q][k].restored = held[q][k].restored
        BY <1>1, <1>3 DEF JobTypes, JobRecords
  <1>5. \A q \in Procs, k \in Jobs : /\ Running(q, k)' <=> Running(q, k)
                                     /\ Holds(q, k)' <=> Holds(q, k)
        BY <1>4, SaysTheSame
  <1>6. /\ \A q \in Procs, k \in Jobs : q # p \/ k # j => own'[q][k] = own[q][k]
        /\ own'[p][j] = [own[p][j] EXCEPT !.execution = e]
    <2>1. own \in [Procs -> [Jobs -> JournalRows]]
          BY <1>1 DEF JobTypes
    <2>2. own' = [own EXCEPT ![p] = [own[p] EXCEPT ![j] = [own[p][j] EXCEPT !.execution = e]]]
          BY <1>3, <2>1
    <2> QED BY <2>1, <2>2
  <1>18. own'[p] \in [Jobs -> JournalRows]
    <2>1. own \in [Procs -> [Jobs -> JournalRows]]
          BY <1>1 DEF JobTypes
    <2>2. own[p][j] \in JournalRows
          BY <2>1
    <2>3. [own[p][j] EXCEPT !.execution = e] \in JournalRows
          BY <2>2 DEF JournalRows
    <2>4. own' = [own EXCEPT ![p] = [own[p] EXCEPT ![j] = [own[p][j] EXCEPT !.execution = e]]]
          BY <1>3, <2>1
    <2> QED BY <2>1, <2>3, <2>4
  <1>7. own[p][j] # NoRow /\ own[p][j].owner = p
        BY <1>1, <1>2 DEF JobsSafe, RowsAreTheirs
  <1>8. own'[p][j] # NoRow /\ own'[p][j].owner = p
    <2>1. own'[p][j].owner = p
          BY <1>1, <1>6, <1>7 DEF JobTypes, JournalRows
    <2> QED BY <2>1
  <1>9. \A k \in Jobs : \/ journal'[k] = journal[k]
                        \/ own'[p][k] # NoRow /\ journal'[k] = own'[p][k]
                        \/ own'[p][k] = NoRow /\ journal[k].owner = p /\ journal'[k] = NoRow
        BY <1>2, <1>18, WrittenRows
  <1>10. IdleProcsKnowNothing'
        BY <1>1, <1>2, <1>5, <1>6 DEF JobsSafe, IdleProcsKnowNothing, Alive
  <1>11. RowsAreTheirs'
    <2>1. \A q \in Procs, k \in Jobs : own'[q][k] # NoRow <=> own[q][k] # NoRow
          BY <1>6, <1>7, <1>8
    <2>2. ASSUME NEW q \in Procs, NEW k \in Jobs, own'[q][k] # NoRow
          PROVE  own'[q][k].owner = q
      <3>1. own[q][k] # NoRow => own[q][k].owner = q
            BY <1>1 DEF JobsSafe, RowsAreTheirs
      <3>2. CASE q = p /\ k = j
            BY <1>8, <3>2
      <3>3. CASE q # p \/ k # j
            BY <1>6, <2>2, <3>1, <3>3
      <3> QED BY <3>2, <3>3
    <2>3. \A q \in Procs, k \in Jobs : Running(q, k)' => own'[q][k] # NoRow
          BY <1>1, <1>5, <2>1 DEF JobsSafe, RowsAreTheirs
    <2> QED BY <1>1, <2>1, <2>2, <2>3 DEF JobsSafe, RowsAreTheirs
  <1>12. JournalNamesTheOwner'
    <2>1. \A k \in Jobs : own'[p][k] # NoRow => own'[p][k].owner = p
          BY <1>11 DEF RowsAreTheirs
    <2>2. ASSUME NEW k \in Jobs, journal'[k] # NoRow
          PROVE  journal'[k].owner \in Procs /\ proc'[journal'[k].owner] \notin {"unborn", "restored"}
          BY <1>1, <1>2, <1>9, <2>1, <2>2 DEF JobsSafe, JournalNamesTheOwner
    <2>3. ASSUME NEW q \in Procs, NEW k \in Jobs, own'[q][k] # NoRow
          PROVE  journal'[k] = NoRow \/ journal'[k].owner = q
      <3>1. own[q][k] # NoRow
            BY <1>6, <1>7, <2>3
      <3>2. journal[k] = NoRow \/ journal[k].owner = q
            BY <1>1, <3>1 DEF JobsSafe, JournalNamesTheOwner
      <3>3. own'[p][k] # NoRow => p = q
            BY <1>11, <2>3 DEF RowsAreTheirs
      <3> QED BY <1>9, <2>1, <3>2, <3>3
    <2> QED BY <2>2, <2>3 DEF JournalNamesTheOwner
  <1>13. UnstartedIsUnknown'
    <2>1. startedAt[j] # Never
          BY <1>1, <1>7 DEF JobsSafe, UnstartedIsUnknown
    <2>2. \A k \in Jobs : startedAt[k] = Never => own'[p][k] = NoRow /\ journal'[k] = NoRow
          BY <1>1, <1>6, <1>9, <2>1 DEF JobsSafe, UnstartedIsUnknown
    <2> QED BY <1>1, <1>2, <1>5, <1>6, <2>1, <2>2 DEF JobsSafe, UnstartedIsUnknown
  <1>14. LeftIsEnded'
        BY <1>1, <1>2, <1>4 DEF JobsSafe, LeftIsEnded
  <1>15. CreatorIsAlone'
        BY <1>1, <1>2, <1>4, <1>5 DEF JobsSafe, CreatorIsAlone
  <1>16. LocalOrphansAreNobodys'
    <2>1. ASSUME NEW q \in Procs, NEW o \in orphans[q], ~o.row.execution
          PROVE  ~journal'[o.job].execution /\ \A r \in Procs : own'[r][o.job] = NoRow
      <3>1. /\ o.job \in Jobs /\ ~journal[o.job].execution
            /\ \A r \in Procs : own[r][o.job] = NoRow
            BY <1>1, <2>1 DEF JobsSafe, LocalOrphansAreNobodys, JobTypes
      <3> QED BY <1>6, <1>7, <1>9, <3>1
    <2> QED BY <1>2, <2>1 DEF LocalOrphansAreNobodys
  <1>17. KilledIsOver'
    <2>1. ASSUME NEW k \in Jobs, archive[k].status = "killed" \/ \E q \in Procs : held'[q][k].status = "killed"
          PROVE  /\ \A q \in Procs : Running(q, k)' => held'[q][k].restored
                 /\ \/ daemon[k] # "running"
                    \/ ~journal'[k].execution /\ \A q \in Procs : own'[q][k] = NoRow
      <3>1. /\ \A q \in Procs : Running(q, k) => held[q][k].restored
            /\ \/ daemon[k] # "running"
               \/ ~journal[k].execution /\ \A q \in Procs : own[q][k] = NoRow
            BY <1>1, <1>4, <2>1 DEF JobsSafe, KilledIsOver
      <3> QED BY <1>4, <1>5, <1>6, <1>7, <1>9, <3>1
    <2> QED BY <1>2, <2>1 DEF KilledIsOver
  <1> QED BY <1>10, <1>11, <1>12, <1>13, <1>14, <1>15, <1>16, <1>17 DEF JobsSafe

\* Boot and Find: a process learns how jobs ended from the archive.
LEMMA LearnKeeps ==
    ASSUME JobsInv, NEW p \in Procs,
           \A q \in Procs : proc'[q] = proc[q] \/ (q = p /\ proc[q] = "unborn" /\ proc'[q] = "restored"),
           proc[p] \in {"unborn", "up"}, proc'[p] \in {"restored", "up"},
           \A q \in Procs, k \in Jobs :
              \/ held'[q][k] = held[q][k]
              \/ q = p /\ ~Holds(q, k) /\ ~Holds(q, k)'
              \/ /\ q = p /\ ~Holds(q, k) /\ archive[k] # NoRecord
                 /\ held'[q][k].status = archive[k].status,
           UNCHANGED <<clock, own, orphans, todo, files, startedAt, daemon>>
    PROVE  JobsSafe'
  <1> USE NoneIsNobody
  <1>1. JobTypes /\ JobsSafe
        BY DEF JobsInv
  <1>2. UNCHANGED <<own, orphans, todo, journal, archive, startedAt, daemon>>
        BY DEF files
  <1>3. \A k \in Jobs : archive[k].status # "running"
        BY <1>1 DEF JobTypes, ArchiveRecords, Ended, None
  <1>4. \A q \in Procs, k \in Jobs : /\ Running(q, k)' <=> Running(q, k)
                                     /\ Running(q, k) => held'[q][k] = held[q][k]
                                     /\ Holds(q, k) => held'[q][k] = held[q][k]
                                     /\ Holds(q, k)' => Holds(q, k) \/ (q = p /\ archive[k] # NoRecord)
        BY <1>3 DEF Running, Holds, None
  <1>5. IdleProcsKnowNothing'
        BY <1>1, <1>2, <1>4 DEF JobsSafe, IdleProcsKnowNothing, Alive
  <1>6. RowsAreTheirs'
        BY <1>1, <1>2, <1>4 DEF JobsSafe, RowsAreTheirs
  <1>7. JournalNamesTheOwner'
        BY <1>1, <1>2 DEF JobsSafe, JournalNamesTheOwner, JobTypes
  <1>8. UnstartedIsUnknown'
        BY <1>1, <1>2, <1>4 DEF JobsSafe, UnstartedIsUnknown
  <1>9. LeftIsEnded'
        BY <1>1, <1>2, <1>4 DEF JobsSafe, LeftIsEnded, Holds, Ended, None
  <1>10. CreatorIsAlone'
        BY <1>1, <1>2, <1>4 DEF JobsSafe, CreatorIsAlone
  <1>11. LocalOrphansAreNobodys'
        BY <1>1, <1>2 DEF JobsSafe, LocalOrphansAreNobodys
  <1>13. \A q \in Procs, k \in Jobs : held'[q][k].status = "killed" =>
            held[q][k].status = "killed" \/ archive[k].status = "killed"
        BY DEF Holds, None
  <1>12. KilledIsOver'
        BY <1>1, <1>2, <1>4, <1>13 DEF JobsSafe, KilledIsOver
  <1> QED BY <1>5, <1>6, <1>7, <1>8, <1>9, <1>10, <1>11, <1>12 DEF JobsSafe

\* A job read from the archive has the archive's status.
LEMMA ReportedStatus ==
    ASSUME NEW x, NEW s, NEW t, x = Job(s, t, FALSE, TRUE, FALSE)
    PROVE  x.status = s
  BY DEF Job

\* Boot and Find learn from the archive and from nothing else.
LEMMA LearnsKeep ==
    ASSUME JobsInv, NEW p \in Procs, Boot(p) \/ \E j \in Jobs : Find(p, j)
    PROVE  JobsSafe'
  <1> USE NoneIsNobody
  <1>1. JobTypes /\ IdleProcsKnowNothing
        BY DEF JobsInv, JobsSafe
  <1>2. CASE Boot(p)
    <2>1. /\ proc[p] = "unborn"
          /\ \A q \in Procs : proc'[q] = proc[q] \/ (q = p /\ proc'[q] = "restored")
          /\ proc'[p] = "restored"
          BY <1>1, <1>2 DEF Boot, JobTypes
    <2>2. \A k \in Jobs : ~Holds(p, k)
          BY <1>1, <2>1 DEF IdleProcsKnowNothing, Alive
    <2>3. held \in [Procs -> [Jobs -> JobRecords]]
          BY <1>1 DEF JobTypes
    <2>4. /\ \A q \in Procs : q # p => held'[q] = held[q]
          /\ \A k \in Jobs : held'[p][k] =
                IF archive[k] = NoRecord THEN NoJob
                ELSE Job(archive[k].status, archive[k].endedAt, FALSE, TRUE, FALSE)
          BY <1>2, <2>3 DEF Boot
    <2>5. \A k \in Jobs : \/ ~Holds(p, k)'
                          \/ archive[k] # NoRecord /\ held'[p][k].status = archive[k].status
      <3>1. NoJob.status = None
            BY NoneIsNobody
      <3>2. ASSUME NEW k \in Jobs, archive[k] # NoRecord
            PROVE  held'[p][k].status = archive[k].status
        <4>1. held'[p][k] = Job(archive[k].status, archive[k].endedAt, FALSE, TRUE, FALSE)
              BY <2>4, <3>2
        <4> HIDE NoneIsNobody
        <4> QED BY <4>1, ReportedStatus
      <3>3. \A k \in Jobs : archive[k] = NoRecord => held'[p][k] = NoJob
            BY <2>4
      <3> QED BY <3>1, <3>2, <3>3 DEF Holds
    <2>6. UNCHANGED <<clock, own, orphans, todo, files, startedAt, daemon>>
          BY <1>2 DEF Boot
    <2> QED BY <2>1, <2>2, <2>4, <2>5, <2>6, LearnKeeps
  <1>3. CASE \E j \in Jobs : Find(p, j)
    <2>1. PICK j \in Jobs : Find(p, j)
          BY <1>3
    <2>2. held \in [Procs -> [Jobs -> JobRecords]]
          BY <1>1 DEF JobTypes
    <2>3. held'[p][j] = Job(archive[j].status, archive[j].endedAt, FALSE, TRUE, FALSE)
          BY <2>1, <2>2 DEF Find
    <2>8. PICK x : held' = [held EXCEPT ![p][j] = x]
          BY <2>1 DEF Find
    <2> HIDE NoneIsNobody
    <2>4. \A q \in Procs, k \in Jobs : q # p \/ k # j => held'[q][k] = held[q][k]
          BY <2>2, <2>8
    <2>5. proc' = proc /\ proc[p] = "up" /\ ~Holds(p, j) /\ archive[j] # NoRecord
          BY <2>1 DEF Find, Serving
    <2>6. held'[p][j].status = archive[j].status
          BY <2>3 DEF Job
    <2>7. UNCHANGED <<clock, own, orphans, todo, files, startedAt, daemon>>
          BY <2>1 DEF Find
    <2> QED BY <2>4, <2>5, <2>6, <2>7, LearnKeeps
  <1> QED BY <1>2, <1>3

\* What changes nothing that the invariant speaks of but the daemon's work, which only
\* ends or begins for the job that its creator runs.
LEMMA DaemonKeeps ==
    ASSUME JobsInv, UNCHANGED <<proc, held, own, orphans, todo, journal, archive, startedAt>>,
           \A k \in Jobs : daemon'[k] = "running" =>
              daemon[k] = "running" \/ \E q \in Procs : Running(q, k) /\ ~held[q][k].restored
    PROVE  JobsSafe'
  <1>1. JobsSafe
        BY DEF JobsInv
  <1>2. KilledIsOver'
        BY <1>1 DEF JobsSafe, KilledIsOver, Running
  <1>3. /\ IdleProcsKnowNothing' /\ RowsAreTheirs' /\ JournalNamesTheOwner'
        /\ UnstartedIsUnknown' /\ LeftIsEnded' /\ CreatorIsAlone'
        BY <1>1 DEF JobsSafe, IdleProcsKnowNothing, RowsAreTheirs, JournalNamesTheOwner, UnstartedIsUnknown,
                    LeftIsEnded, CreatorIsAlone, Running, Holds, Alive
  <1>4. LocalOrphansAreNobodys'
        BY <1>1 DEF JobsSafe, LocalOrphansAreNobodys
  <1> QED BY <1>1, <1>2, <1>3, <1>4 DEF JobsSafe

\* A start, the daemon's own steps and the clock are such steps.
LEMMA DaemonsKeep ==
    ASSUME JobsInv,
           \/ \E p \in Procs, j \in Jobs : StartExecution(p, j)
           \/ \E j \in Jobs : DaemonStep(j)
           \/ JobsTick
           \/ UNCHANGED jobsVars
    PROVE  JobsSafe'
  <1>1. JobTypes
        BY DEF JobsInv
  <1>2. UNCHANGED <<proc, held, own, orphans, todo, journal, archive, startedAt>>
        BY DEF StartExecution, DaemonStep, JobsTick, jobsVars, memory, files
  <1>3. CASE \E p \in Procs, j \in Jobs : StartExecution(p, j)
        BY <1>1, <1>2, <1>3, DaemonKeeps DEF StartExecution, JobTypes
  <1>4. CASE \E j \in Jobs : DaemonStep(j)
        BY <1>1, <1>2, <1>4, DaemonKeeps DEF DaemonStep, JobTypes, Ended
  <1>5. CASE JobsTick \/ UNCHANGED jobsVars
        BY <1>1, <1>2, <1>5, DaemonKeeps DEF JobsTick, jobsVars
  <1> QED BY <1>3, <1>4, <1>5

\* Ready, StopServing and SkipOrphan: a process goes on with nothing new to say.
LEMMA StagesKeep ==
    ASSUME JobsInv, NEW p \in Procs, Ready(p) \/ StopServing(p) \/ SkipOrphan(p)
    PROVE  JobsSafe'
  <1>1. JobTypes /\ JobsSafe
        BY DEF JobsInv
  <1>2. UNCHANGED <<held, own, todo, journal, archive, startedAt, daemon>>
        BY DEF Ready, StopServing, SkipOrphan, memory, files
  <1>3. /\ \A q \in Procs : orphans'[q] \subseteq orphans[q]
        /\ \A q \in Procs : \A o \in orphans[q] : o.job \in Jobs
        BY <1>1 DEF Ready, StopServing, SkipOrphan, memory, files, Taken, JobTypes
  <1>4. /\ proc[p] \in {"adopting", "up"} /\ proc'[p] \in {"adopting", "up", "stopping"}
        /\ \A q \in Procs : q # p => proc'[q] = proc[q]
        BY <1>1 DEF Ready, StopServing, SkipOrphan, Adopting, Serving, JobTypes
  <1>5. \A q \in Procs, k \in Jobs : /\ Running(q, k)' <=> Running(q, k)
                                     /\ Holds(q, k)' <=> Holds(q, k)
                                     /\ Alive(q)' <=> Alive(q)
        BY <1>2, <1>4 DEF Running, Holds, Alive
  <1>6. IdleProcsKnowNothing'
        BY <1>1, <1>2, <1>3, <1>4, <1>5 DEF JobsSafe, IdleProcsKnowNothing
  <1>7. RowsAreTheirs' /\ LeftIsEnded'
        BY <1>1, <1>2, <1>5 DEF JobsSafe, RowsAreTheirs, LeftIsEnded
  <1>8. JournalNamesTheOwner'
        BY <1>1, <1>2, <1>4 DEF JobsSafe, JournalNamesTheOwner
  <1>9. UnstartedIsUnknown' /\ CreatorIsAlone'
        BY <1>1, <1>2, <1>3, <1>5 DEF JobsSafe, UnstartedIsUnknown, CreatorIsAlone
  <1>10. LocalOrphansAreNobodys'
        BY <1>1, <1>2, <1>3 DEF JobsSafe, LocalOrphansAreNobodys
  <1>11. KilledIsOver'
        BY <1>1, <1>2, <1>5 DEF JobsSafe, KilledIsOver
  <1> QED BY <1>6, <1>7, <1>8, <1>9, <1>10, <1>11 DEF JobsSafe

\* ReadJournal: the rows whose owner is gone.
LEMMA ReadKeeps ==
    ASSUME JobsInv, NEW p \in Procs, ReadJournal(p)
    PROVE  JobsSafe'
  <1>1. JobTypes /\ JobsSafe
        BY DEF JobsInv
  <1>2. UNCHANGED <<held, own, todo, journal, archive, startedAt, daemon>>
        BY DEF ReadJournal, files
  <1>3. /\ proc[p] = "restored" /\ proc'[p] = "adopting"
        /\ \A q \in Procs : q # p => proc'[q] = proc[q]
        BY <1>1 DEF ReadJournal, JobTypes
  <1>4. /\ \A q \in Procs : q # p => orphans'[q] = orphans[q]
        /\ \A o \in orphans'[p] : /\ o.job \in Jobs /\ o.row = journal[o.job] /\ journal[o.job] # NoRow
                                  /\ ~OwnedElsewhere(journal[o.job], p)
    <2>1. PICK hidden \in SUBSET Procs :
             orphans' = [orphans EXCEPT ![p] =
                {[job |-> j, row |-> journal[j]] :
                   j \in {k \in Jobs : /\ journal[k] # NoRow
                                       /\ ~OwnedElsewhere(journal[k], p)
                                       /\ journal[k].owner \notin hidden}}]
          BY DEF ReadJournal
    <2>2. DOMAIN orphans = Procs
          BY <1>1 DEF JobTypes
    <2> QED BY <2>1, <2>2
  <1>5. \A q \in Procs, k \in Jobs : /\ Running(q, k)' <=> Running(q, k)
                                     /\ Holds(q, k)' <=> Holds(q, k)
                                     /\ Alive(q)' <=> Alive(q)
        BY <1>2, <1>3 DEF Running, Holds, Alive
  <1>a. \A q \in Procs, k \in Jobs : own[q][k] # NoRow => Alive(q) /\ q # p
        BY <1>1, <1>3 DEF JobsSafe, IdleProcsKnowNothing, Alive
  <1>b. \A o \in orphans'[p] : \A q \in Procs : own[q][o.job] = NoRow
    <2>1. SUFFICES ASSUME NEW o \in orphans'[p], NEW q \in Procs, own[q][o.job] # NoRow
                   PROVE  FALSE
          OBVIOUS
    <2>2. o.job \in Jobs /\ journal[o.job] # NoRow /\ ~OwnedElsewhere(journal[o.job], p)
          BY <1>4
    <2>3. Alive(q) /\ q # p
          BY <1>a, <2>1, <2>2
    <2>4. journal[o.job].owner = q
          BY <1>1, <2>1, <2>2 DEF JobsSafe, JournalNamesTheOwner
    <2> QED BY <2>2, <2>3, <2>4, NoneIsNobody DEF OwnedElsewhere
  <1>6. IdleProcsKnowNothing'
        BY <1>1, <1>2, <1>3, <1>4, <1>5 DEF JobsSafe, IdleProcsKnowNothing, Alive
  <1>7. RowsAreTheirs' /\ LeftIsEnded'
        BY <1>1, <1>2, <1>5 DEF JobsSafe, RowsAreTheirs, LeftIsEnded
  <1>8. JournalNamesTheOwner'
        BY <1>1, <1>2, <1>3 DEF JobsSafe, JournalNamesTheOwner
  <1>9. UnstartedIsUnknown'
        BY <1>1, <1>2, <1>4, <1>5 DEF JobsSafe, UnstartedIsUnknown
  <1>10. CreatorIsAlone'
    <2>1. \A q \in Procs, k \in Jobs : Running(q, k) => own[q][k] # NoRow
          BY <1>1 DEF JobsSafe, RowsAreTheirs
    <2> QED BY <1>1, <1>2, <1>4, <1>5, <1>b, <2>1 DEF JobsSafe, CreatorIsAlone
  <1>11. LocalOrphansAreNobodys'
    <2>1. ASSUME NEW q \in Procs, NEW o \in orphans'[q], ~o.row.execution
          PROVE  ~journal[o.job].execution /\ \A r \in Procs : own[r][o.job] = NoRow
      <3>1. CASE q = p
            BY <1>4, <1>b, <2>1, <3>1
      <3>2. CASE q # p
            BY <1>1, <1>4, <2>1, <3>2 DEF JobsSafe, LocalOrphansAreNobodys
      <3> QED BY <3>1, <3>2
    <2> QED BY <1>2, <2>1 DEF LocalOrphansAreNobodys
  <1>12. KilledIsOver'
        BY <1>1, <1>2, <1>5 DEF JobsSafe, KilledIsOver
  <1> QED BY <1>6, <1>7, <1>8, <1>9, <1>10, <1>11, <1>12 DEF JobsSafe

\* AdoptLocal: a local job whose process died is reported killed.
LEMMA AdoptKeeps ==
    ASSUME JobsInv, NEW p \in Procs, AdoptLocal(p)
    PROVE  JobsSafe'
  <1>1. JobTypes /\ JobsSafe
        BY DEF JobsInv
  <1>2. UNCHANGED <<proc, own, journal, archive, startedAt, daemon>>
        BY DEF AdoptLocal, files
  <1>3. PICK o \in orphans[p] :
           /\ proc[p] = "adopting" /\ todo[p] = Nothing
           /\ ~Holds(p, o.job) /\ ~o.row.execution
           /\ orphans' = [orphans EXCEPT ![p] = @ \ {o}]
           /\ held' = [held EXCEPT ![p][o.job] = Job("killed", startedAt[o.job], FALSE, FALSE, TRUE)]
           /\ todo' = [todo EXCEPT ![p] = Archiving(o.job, o.row.owner)]
        BY DEF AdoptLocal, Adopting, Taken
  <1> DEFINE j == o.job
  <1>4. j \in Jobs
        BY <1>1 DEF JobTypes
  <1>5. /\ held \in [Procs -> [Jobs -> JobRecords]]
        /\ DOMAIN orphans = Procs /\ DOMAIN todo = Procs
        BY <1>1 DEF JobTypes
  <1>6. /\ OnlyItsJob(p, j)
        /\ held'[p][j] = Job("killed", startedAt[j], FALSE, FALSE, TRUE)
        BY <1>3, <1>4, <1>5 DEF OnlyItsJob
  <1>7. held'[p][j].status = "killed"
        BY <1>6 DEF Job
  <1>8. /\ \A q \in Procs : orphans'[q] \subseteq orphans[q]
        /\ \A q \in Procs : q # p => todo'[q] = todo[q]
        /\ todo'[p] = Archiving(j, o.row.owner)
        BY <1>3, <1>5
  <1>9. ~journal[j].execution /\ \A q \in Procs : own[q][j] = NoRow
        BY <1>1, <1>3 DEF JobsSafe, LocalOrphansAreNobodys
  <1>10. \A q \in Procs, k \in Jobs : /\ Running(q, k)' <=> Running(q, k)
                                      /\ Running(q, k) => held'[q][k] = held[q][k]
                                      /\ Holds(q, k)' <=> (Holds(q, k) \/ (q = p /\ k = j))
        BY <1>3, <1>6, <1>7 DEF Running, Holds, OnlyItsJob, None
  <1>11. \A q \in Procs : ~Running(q, j)
        BY <1>1, <1>4, <1>9 DEF JobsSafe, RowsAreTheirs
  <1> HIDE DEF j
  <1>12. IdleProcsKnowNothing'
        BY <1>1, <1>2, <1>3, <1>8, <1>10 DEF JobsSafe, IdleProcsKnowNothing, Alive
  <1>13. RowsAreTheirs'
        BY <1>1, <1>2, <1>10 DEF JobsSafe, RowsAreTheirs
  <1>14. JournalNamesTheOwner'
        BY <1>1, <1>2 DEF JobsSafe, JournalNamesTheOwner
  <1>15. UnstartedIsUnknown'
    <2>1. startedAt[j] # Never
          BY <1>1, <1>4 DEF JobsSafe, UnstartedIsUnknown, j
    <2> QED BY <1>1, <1>2, <1>8, <1>10, <2>1 DEF JobsSafe, UnstartedIsUnknown
  <1>16. LeftIsEnded'
    <2>1. todo'[p].job = j
          BY <1>8, NoneIsNobody
    <2>2. ASSUME NEW q \in Procs, todo'[q].step # None
          PROVE  todo'[q].job \in Jobs /\ held'[q][todo'[q].job].status \in Ended
      <3>1. CASE q = p
            BY <1>4, <1>7, <2>1, <3>1 DEF Ended
      <3>2. CASE q # p
            BY <1>1, <1>6, <1>8, <2>2, <3>2 DEF JobsSafe, LeftIsEnded, OnlyItsJob
      <3> QED BY <3>1, <3>2
    <2> QED BY <2>2 DEF LeftIsEnded
  <1>17. CreatorIsAlone'
        BY <1>1, <1>2, <1>4, <1>8, <1>10, <1>11 DEF JobsSafe, CreatorIsAlone
  <1>18. LocalOrphansAreNobodys'
        BY <1>1, <1>2, <1>8 DEF JobsSafe, LocalOrphansAreNobodys
  <1>19. KilledIsOver'
    <2>1. ASSUME NEW k \in Jobs, archive[k].status = "killed" \/ \E q \in Procs : held'[q][k].status = "killed"
          PROVE  /\ \A q \in Procs : Running(q, k) => held[q][k].restored
                 /\ \/ daemon[k] # "running"
                    \/ ~journal[k].execution /\ \A q \in Procs : own[q][k] = NoRow
      <3>1. CASE k = j
            BY <1>9, <1>11, <3>1
      <3>2. CASE k # j
            BY <1>1, <1>6, <2>1, <3>2 DEF JobsSafe, KilledIsOver, OnlyItsJob
      <3> QED BY <3>1, <3>2
    <2> QED BY <1>2, <1>10, <2>1 DEF KilledIsOver
  <1> QED BY <1>12, <1>13, <1>14, <1>15, <1>16, <1>17, <1>18, <1>19 DEF JobsSafe

\* ClaimOrphan: a daemon job is taken over with its row.
LEMMA ClaimKeeps ==
    ASSUME JobsInv, NEW p \in Procs, ClaimOrphan(p)
    PROVE  JobsSafe'
  <1>1. JobTypes /\ JobsSafe
        BY DEF JobsInv
  <1>2. UNCHANGED <<proc, todo, archive, startedAt, daemon>>
        BY DEF ClaimOrphan
  <1>3. PICK o \in orphans[p] :
           /\ proc[p] = "adopting" /\ todo[p] = Nothing
           /\ ~Holds(p, o.job) /\ o.row.execution
           /\ orphans' = [orphans EXCEPT ![p] = @ \ {o}]
           /\ \/ /\ journal[o.job].execution /\ ~OwnedElsewhere(journal[o.job], p)
                 /\ journal' = [journal EXCEPT ![o.job].owner = p]
                 /\ own' = [own EXCEPT ![p][o.job] = Row(p, TRUE)]
                 /\ held' = [held EXCEPT ![p][o.job] = Job("running", Never, TRUE, TRUE, TRUE)]
              \/ UNCHANGED <<journal, own, held>>
        BY DEF ClaimOrphan, Adopting, Taken
  <1>4. o.job \in Jobs
        BY <1>1 DEF JobTypes
  <1>5. \A q \in Procs : orphans'[q] \subseteq orphans[q]
        BY <1>1, <1>3 DEF JobTypes
  <1>6. CASE UNCHANGED <<journal, own, held>>
    <2>1. \A q \in Procs : \A x \in orphans[q] : x.job \in Jobs
          BY <1>1 DEF JobTypes
    <2>2. \A q \in Procs, k \in Jobs : (Running(q, k)' <=> Running(q, k)) /\ (Holds(q, k)' <=> Holds(q, k))
          BY <1>6 DEF Running, Holds
    <2>3. IdleProcsKnowNothing' /\ RowsAreTheirs' /\ JournalNamesTheOwner'
          BY <1>1, <1>2, <1>3, <1>5, <1>6, <2>2 DEF JobsSafe, IdleProcsKnowNothing, RowsAreTheirs,
             JournalNamesTheOwner, Alive
    <2>4. UnstartedIsUnknown' /\ LeftIsEnded' /\ CreatorIsAlone'
          BY <1>1, <1>2, <1>5, <1>6, <2>2 DEF JobsSafe, UnstartedIsUnknown, LeftIsEnded, CreatorIsAlone
    <2>5. LocalOrphansAreNobodys' /\ KilledIsOver'
          BY <1>1, <1>2, <1>5, <1>6, <2>1, <2>2 DEF JobsSafe, LocalOrphansAreNobodys, KilledIsOver
    <2> QED BY <2>3, <2>4, <2>5 DEF JobsSafe
  <1>7. ASSUME NEW j \in Jobs, j = o.job,
               journal[j].execution, ~OwnedElsewhere(journal[j], p),
               journal' = [journal EXCEPT ![j].owner = p],
               own' = [own EXCEPT ![p][j] = Row(p, TRUE)],
               held' = [held EXCEPT ![p][j] = Job("running", Never, TRUE, TRUE, TRUE)]
        PROVE  JobsSafe'
    <2>1. /\ held \in [Procs -> [Jobs -> JobRecords]] /\ own \in [Procs -> [Jobs -> JournalRows]]
          /\ journal \in [Jobs -> JournalRows]
          BY <1>1 DEF JobTypes
    <2>2. /\ OnlyItsJob(p, j)
          /\ held'[p][j] = Job("running", Never, TRUE, TRUE, TRUE)
          BY <1>7, <2>1 DEF OnlyItsJob
    <2>3. held'[p][j].status = "running" /\ held'[p][j].restored
          BY <2>2 DEF Job
    <2>4. /\ \A q \in Procs, k \in Jobs : q # p \/ k # j => own'[q][k] = own[q][k]
          /\ own'[p][j] = Row(p, TRUE)
          BY <1>7, <2>1
    <2>5. own'[p][j] # NoRow /\ own'[p][j].owner = p
      <3>1. own'[p][j].owner = p
            BY <2>4 DEF Row
      <3> QED BY <3>1, NoneIsNobody
    <2>6. /\ \A k \in Jobs : k # j => journal'[k] = journal[k]
          /\ journal'[j] = [journal[j] EXCEPT !.owner = p]
          BY <1>7, <2>1
    <2>7. journal[j] \in JournalRows
          BY <2>1
    <2>8. journal'[j].owner = p
          BY <2>6, <2>7 DEF JournalRows
    <2>9. journal[j] # NoRow
          BY <1>7, NoneIsNobody
    <2>10. \A q \in Procs : own[q][j] # NoRow => q = p
      <3>1. SUFFICES ASSUME NEW q \in Procs, own[q][j] # NoRow, q # p
                     PROVE  FALSE
            OBVIOUS
      <3>2. journal[j].owner = q
            BY <1>1, <2>9, <3>1 DEF JobsSafe, JournalNamesTheOwner
      <3>3. Alive(q)
            BY <1>1, <3>1 DEF JobsSafe, IdleProcsKnowNothing, Alive
      <3> QED BY <1>7, <3>1, <3>2, <3>3, NoneIsNobody DEF OwnedElsewhere
    <2>11. \A q \in Procs, k \in Jobs : /\ Running(q, k)' <=> (Running(q, k) \/ (q = p /\ k = j))
                                        /\ Holds(q, k)' <=> (Holds(q, k) \/ (q = p /\ k = j))
           BY <2>2, <2>3 DEF Running, Holds, OnlyItsJob, None
    <2>12. IdleProcsKnowNothing'
      <3>1. \A q \in Procs : proc[q] # "adopting" => q # p
            BY <1>3
      <3> QED BY <1>1, <1>2, <1>3, <1>5, <2>4, <2>11, <3>1 DEF JobsSafe, IdleProcsKnowNothing, Alive
    <2>13. RowsAreTheirs'
      <3>4. /\ \A q \in Procs, k \in Jobs : own[q][k] # NoRow => own[q][k].owner = q
            /\ \A q \in Procs, k \in Jobs : Running(q, k) => own[q][k] # NoRow
            BY <1>1 DEF JobsSafe, RowsAreTheirs
      <3>1. ASSUME NEW q \in Procs, NEW k \in Jobs, own'[q][k] # NoRow
            PROVE  own'[q][k].owner = q
        <4>1. CASE q = p /\ k = j
              BY <2>5, <4>1
        <4>2. CASE q # p \/ k # j
              BY <2>4, <3>1, <3>4, <4>2
        <4> QED BY <4>1, <4>2
      <3>2. \A q \in Procs, k \in Jobs : Running(q, k)' => own'[q][k] # NoRow
            BY <2>4, <2>5, <2>11, <3>4
      <3>3. \A q, r \in Procs, k \in Jobs : own'[q][k] # NoRow /\ own'[r][k] # NoRow => q = r
            BY <1>1, <2>4, <2>10 DEF JobsSafe, RowsAreTheirs
      <3> QED BY <3>1, <3>2, <3>3 DEF RowsAreTheirs
    <2>14. JournalNamesTheOwner'
      <3>1. \A k \in Jobs : journal'[k] # NoRow =>
               journal'[k].owner \in Procs /\ proc[journal'[k].owner] \notin {"unborn", "restored"}
            BY <1>1, <1>3, <2>6, <2>8 DEF JobsSafe, JournalNamesTheOwner
      <3>2. ASSUME NEW q \in Procs, NEW k \in Jobs, own'[q][k] # NoRow
            PROVE  journal'[k] = NoRow \/ journal'[k].owner = q
        <4>1. own[q][k] # NoRow => journal[k] = NoRow \/ journal[k].owner = q
              BY <1>1 DEF JobsSafe, JournalNamesTheOwner
        <4>2. own'[q][j] # NoRow => q = p
              BY <2>4, <2>10
        <4>3. CASE k = j
              BY <2>8, <3>2, <4>2, <4>3
        <4>4. CASE k # j
              BY <2>4, <2>6, <3>2, <4>1, <4>4
        <4> QED BY <4>3, <4>4
      <3> QED BY <1>2, <3>1, <3>2 DEF JournalNamesTheOwner
    <2>15. UnstartedIsUnknown'
      <3>1. startedAt[j] # Never
            BY <1>1, <2>9 DEF JobsSafe, UnstartedIsUnknown
      <3> QED BY <1>1, <1>2, <1>5, <2>4, <2>6, <2>11, <3>1 DEF JobsSafe, UnstartedIsUnknown
    <2>16. LeftIsEnded'
      <3>1. \A q \in Procs : todo[q].step # None => held'[q][todo[q].job] = held[q][todo[q].job] /\ todo[q].job \in Jobs
            BY <1>1, <1>3, <2>2, NoneIsNobody DEF JobsSafe, LeftIsEnded, OnlyItsJob
      <3> QED BY <1>1, <1>2, <3>1 DEF JobsSafe, LeftIsEnded
    <2>17. CreatorIsAlone'
      <3>1. \A q \in Procs, k \in Jobs : Running(q, k)' /\ ~held'[q][k].restored =>
               k # j /\ Running(q, k) /\ held'[q][k] = held[q][k]
        <4>1. SUFFICES ASSUME NEW q \in Procs, NEW k \in Jobs, Running(q, k)', ~held'[q][k].restored
                       PROVE  k # j /\ Running(q, k) /\ held'[q][k] = held[q][k]
              OBVIOUS
        <4>2. q # p \/ k # j
              BY <2>3, <4>1
        <4>3. Running(q, k) /\ held'[q][k] = held[q][k]
              BY <2>2, <2>11, <4>1, <4>2 DEF OnlyItsJob
        <4>4. k # j
          <5>1. \A x \in orphans[p] : x.job # k
                BY <1>1, <4>1, <4>3 DEF JobsSafe, CreatorIsAlone
          <5> QED BY <1>7, <5>1
        <4> QED BY <4>3, <4>4
      <3> QED BY <1>1, <1>2, <1>5, <2>11, <3>1 DEF JobsSafe, CreatorIsAlone
    <2>18. LocalOrphansAreNobodys'
      <3>1. ASSUME NEW q \in Procs, NEW x \in orphans'[q], ~x.row.execution
            PROVE  ~journal'[x.job].execution /\ \A r \in Procs : own'[r][x.job] = NoRow
        <4>1. x.job \in Jobs /\ ~journal[x.job].execution /\ \A r \in Procs : own[r][x.job] = NoRow
              BY <1>1, <1>5, <3>1 DEF JobsSafe, LocalOrphansAreNobodys, JobTypes
        <4>2. x.job # j
              BY <1>7, <4>1
        <4> QED BY <2>4, <2>6, <4>1, <4>2
      <3> QED BY <3>1 DEF LocalOrphansAreNobodys
    <2>19. KilledIsOver'
      <3>1. ASSUME NEW k \in Jobs, archive[k].status = "killed" \/ \E q \in Procs : held'[q][k].status = "killed"
            PROVE  /\ \A q \in Procs : Running(q, k)' => held'[q][k].restored
                   /\ \/ daemon[k] # "running"
                      \/ ~journal'[k].execution /\ \A q \in Procs : own'[q][k] = NoRow
        <4>1. archive[k].status = "killed" \/ \E q \in Procs : held[q][k].status = "killed"
              BY <2>2, <2>3, <3>1 DEF OnlyItsJob
        <4>2. /\ \A q \in Procs : Running(q, k) => held[q][k].restored
              /\ \/ daemon[k] # "running"
                 \/ ~journal[k].execution /\ \A q \in Procs : own[q][k] = NoRow
              BY <1>1, <4>1 DEF JobsSafe, KilledIsOver
        <4>3. \A q \in Procs : Running(q, k)' => held'[q][k].restored
              BY <2>2, <2>3, <2>11, <4>2 DEF OnlyItsJob
        <4>4. daemon[k] # "running" \/ k # j
              BY <1>7, <4>2
        <4> QED BY <2>4, <2>6, <4>2, <4>3, <4>4
      <3> QED BY <1>2, <3>1 DEF KilledIsOver
    <2> QED BY <2>12, <2>13, <2>14, <2>15, <2>16, <2>17, <2>18, <2>19 DEF JobsSafe
  <1> QED BY <1>3, <1>4, <1>6, <1>7

\* RecordJob: an ended job goes into the archive.
LEMMA RecordKeeps ==
    ASSUME JobsInv, NEW p \in Procs, RecordJob(p)
    PROVE  JobsSafe'
  <1>1. JobTypes /\ JobsSafe
        BY DEF JobsInv
  <1>2. UNCHANGED <<proc, held, own, orphans, journal, startedAt, daemon>>
        BY DEF RecordJob
  <1> DEFINE j == todo[p].job
  <1>3. j \in Jobs /\ held[p][j].status \in Ended
        BY <1>1 DEF JobsSafe, LeftIsEnded, RecordJob, None
  <1>4. archive' = archive \/ WriteArchive(j, Record(held[p][j].status, held[p][j].endedAt))
        BY DEF RecordJob
  <1>5. \A k \in Jobs : \/ archive'[k] = archive[k]
                        \/ archive'[k] = NoRecord
                        \/ k = j /\ archive'[k].status = held[p][j].status
    <2>1. CASE archive' = archive
          BY <2>1
    <2>2. CASE WriteArchive(j, Record(held[p][j].status, held[p][j].endedAt))
      <3>1. PICK kept \in SUBSET Jobs : archive' =
               [k \in Jobs |-> IF k \in kept
                               THEN [archive EXCEPT ![j] = Record(held[p][j].status, held[p][j].endedAt)][k]
                               ELSE NoRecord]
            BY <2>2 DEF WriteArchive
      <3>2. Record(held[p][j].status, held[p][j].endedAt).status = held[p][j].status
            BY DEF Record
      <3>3. DOMAIN archive = Jobs
            BY <1>1 DEF JobTypes
      <3> HIDE DEF j
      <3> QED BY <1>3, <3>1, <3>2, <3>3
    <2> QED BY <1>4, <2>1, <2>2
  <1>6. /\ \A q \in Procs : q # p => todo'[q] = todo[q]
        /\ todo'[p].step # None => todo'[p].job = j
    <2>1. todo' = [todo EXCEPT ![p] = Nothing] \/ todo' = [todo EXCEPT ![p] = Clearing(@.job, @.owner)]
          BY DEF RecordJob
    <2>2. DOMAIN todo = Procs
          BY <1>1 DEF JobTypes
    <2>3. todo'[p] = Nothing \/ todo'[p] = Clearing(j, todo[p].owner)
          BY <2>1, <2>2
    <2>4. \A q \in Procs : q # p => todo'[q] = todo[q]
          BY <2>1, <2>2
    <2>5. CASE todo'[p] = Nothing
          BY <2>4, <2>5 DEF Nothing
    <2>6. CASE todo'[p] = Clearing(j, todo[p].owner)
          BY <2>4, <2>6 DEF Clearing
    <2> QED BY <2>3, <2>5, <2>6
  <1>7. Holds(p, j) /\ ~Running(p, j) /\ Alive(p) /\ proc[p] # "restored"
    <2>1. Holds(p, j) /\ ~Running(p, j)
          BY <1>3 DEF Holds, Running, Ended, None
    <2>2. todo[p] # Nothing
          BY NoneIsNobody DEF RecordJob, None
    <2> QED BY <1>1, <2>1, <2>2 DEF JobsSafe, IdleProcsKnowNothing, Alive
  <1> HIDE DEF j
  <1>8. \A q \in Procs, k \in Jobs : (Running(q, k)' <=> Running(q, k)) /\ (Holds(q, k)' <=> Holds(q, k))
        BY <1>2 DEF Running, Holds
  <1>9. IdleProcsKnowNothing'
        BY <1>1, <1>2, <1>6, <1>7, <1>8 DEF JobsSafe, IdleProcsKnowNothing, Alive
  <1>10. RowsAreTheirs' /\ JournalNamesTheOwner' /\ LocalOrphansAreNobodys'
        BY <1>1, <1>2, <1>8 DEF JobsSafe, RowsAreTheirs, JournalNamesTheOwner, LocalOrphansAreNobodys
  <1>11. UnstartedIsUnknown'
    <2>1. startedAt[j] # Never
          BY <1>1, <1>3, <1>7 DEF JobsSafe, UnstartedIsUnknown
    <2> QED BY <1>1, <1>2, <1>5, <1>8, <2>1 DEF JobsSafe, UnstartedIsUnknown
  <1>12. LeftIsEnded'
        BY <1>1, <1>2, <1>3, <1>6 DEF JobsSafe, LeftIsEnded
  <1>13. CreatorIsAlone'
    <2>1. \A q \in Procs : Running(q, j) => held[q][j].restored
          BY <1>1, <1>3, <1>7 DEF JobsSafe, CreatorIsAlone
    <2> QED BY <1>1, <1>2, <1>5, <1>8, <2>1 DEF JobsSafe, CreatorIsAlone
  <1>14. KilledIsOver'
    <2>1. \A k \in Jobs : archive'[k].status = "killed" =>
             archive[k].status = "killed" \/ \E q \in Procs : held[q][k].status = "killed"
          BY <1>5, NoneIsNobody DEF None
    <2> QED BY <1>1, <1>2, <1>8, <2>1 DEF JobsSafe, KilledIsOver
  <1> QED BY <1>9, <1>10, <1>11, <1>12, <1>13, <1>14 DEF JobsSafe

\* ClearRow and ClearOrphan: the row of an ended job is taken back.
LEMMA ClearsKeep ==
    ASSUME JobsInv, NEW p \in Procs, ClearRow(p) \/ ClearOrphan(p)
    PROVE  JobsSafe'
  <1>1. JobTypes /\ JobsSafe
        BY DEF JobsInv
  <1>2. /\ UNCHANGED <<proc, held, orphans, archive, startedAt, daemon>>
        /\ todo' = [todo EXCEPT ![p] = Nothing]
        /\ todo[p].step = "clear"
        BY DEF ClearRow, ClearOrphan
  <1>3. todo[p].job \in Jobs /\ held[p][todo[p].job].status \in Ended
        BY <1>1, <1>2 DEF JobsSafe, LeftIsEnded, None
  <1>4. /\ todo'[p].step = None
        /\ \A q \in Procs : q # p => todo'[q] = todo[q]
        BY <1>1, <1>2, NoneIsNobody DEF JobTypes
  <1>5. ~Running(p, todo[p].job)
        BY <1>3 DEF Running, Ended
  <1>6. /\ own \in [Procs -> [Jobs -> JournalRows]] /\ journal \in [Jobs -> JournalRows]
        BY <1>1 DEF JobTypes
  <1>7. /\ \A q \in Procs, k \in Jobs : own'[q][k] = own[q][k] \/ (own'[q][k] = NoRow /\ ~Running(q, k))
        /\ \A k \in Jobs : \/ journal'[k] = journal[k]
                           \/ journal'[k] = NoRow
                           \/ own'[p][k] # NoRow /\ journal'[k] = own'[p][k]
    <2>1. CASE ClearRow(p)
      <3>1. CASE own[p][todo[p].job] = NoRow
            BY <2>1, <3>1 DEF ClearRow
      <3>2. CASE own[p][todo[p].job] # NoRow
        <4>1. /\ own' = [own EXCEPT ![p][todo[p].job] = NoRow]
              /\ Persist(p, [own[p] EXCEPT ![todo[p].job] = NoRow])
              BY <2>1, <3>2 DEF ClearRow
        <4>2. [own[p] EXCEPT ![todo[p].job] = NoRow] \in [Jobs -> JournalRows]
              BY <1>6, NoneIsNobody
        <4>3. own'[p] = [own[p] EXCEPT ![todo[p].job] = NoRow]
              BY <1>6, <4>1
        <4>4. \A k \in Jobs : \/ journal'[k] = journal[k]
                              \/ journal'[k] = NoRow
                              \/ own'[p][k] # NoRow /\ journal'[k] = own'[p][k]
              BY <4>1, <4>2, <4>3, WrittenRows
        <4>5. \A q \in Procs, k \in Jobs : own'[q][k] = own[q][k] \/ (own'[q][k] = NoRow /\ ~Running(q, k))
              BY <1>3, <1>5, <1>6, <4>1
        <4> QED BY <4>4, <4>5
      <3> QED BY <3>1, <3>2
    <2>2. CASE ClearOrphan(p)
          BY <1>3, <1>6, <2>2 DEF ClearOrphan
    <2> QED BY <2>1, <2>2
  <1>8. \A q \in Procs, k \in Jobs : (Running(q, k)' <=> Running(q, k)) /\ (Holds(q, k)' <=> Holds(q, k))
        BY <1>2 DEF Running, Holds
  <1>9. todo'[p] = Nothing
        BY <1>1, <1>2 DEF JobTypes
  <1>10. IdleProcsKnowNothing'
        BY <1>1, <1>2, <1>4, <1>7, <1>8, <1>9 DEF JobsSafe, IdleProcsKnowNothing, Alive
  <1>11. RowsAreTheirs'
        BY <1>1, <1>2, <1>7, <1>8 DEF JobsSafe, RowsAreTheirs
  <1>12. JournalNamesTheOwner'
    <2>1. \A k \in Jobs : own'[p][k] # NoRow => own'[p][k].owner = p /\ proc[p] \notin {"unborn", "restored"}
          BY <1>1, <1>2, <1>10, <1>11 DEF RowsAreTheirs, IdleProcsKnowNothing
    <2>2. \A k \in Jobs : journal'[k] # NoRow =>
             journal'[k].owner \in Procs /\ proc[journal'[k].owner] \notin {"unborn", "restored"}
          BY <1>1, <1>7, <2>1 DEF JobsSafe, JournalNamesTheOwner
    <2>3. ASSUME NEW q \in Procs, NEW k \in Jobs, own'[q][k] # NoRow
          PROVE  journal'[k] = NoRow \/ journal'[k].owner = q
      <3>1. journal[k] = NoRow \/ journal[k].owner = q
            BY <1>1, <1>7, <2>3 DEF JobsSafe, JournalNamesTheOwner
      <3>2. own'[p][k] # NoRow => p = q
            BY <1>11, <2>3 DEF RowsAreTheirs
      <3> QED BY <1>7, <2>1, <3>1, <3>2
    <2> QED BY <1>2, <2>2, <2>3 DEF JournalNamesTheOwner
  <1>13. UnstartedIsUnknown'
    <2>1. \A q \in Procs, k \in Jobs : startedAt[k] = Never => own'[q][k] = NoRow /\ journal'[k] = NoRow
          BY <1>1, <1>7 DEF JobsSafe, UnstartedIsUnknown
    <2> QED BY <1>1, <1>2, <1>8, <2>1 DEF JobsSafe, UnstartedIsUnknown
  <1>14. LeftIsEnded'
        BY <1>1, <1>2, <1>4 DEF JobsSafe, LeftIsEnded
  <1>15. CreatorIsAlone'
        BY <1>1, <1>2, <1>8 DEF JobsSafe, CreatorIsAlone
  <1>16. LocalOrphansAreNobodys'
    <2>1. ASSUME NEW q \in Procs, NEW o \in orphans[q], ~o.row.execution
          PROVE  ~journal'[o.job].execution /\ \A r \in Procs : own'[r][o.job] = NoRow
      <3>1. o.job \in Jobs /\ ~journal[o.job].execution /\ \A r \in Procs : own[r][o.job] = NoRow
            BY <1>1, <2>1 DEF JobsSafe, LocalOrphansAreNobodys, JobTypes
      <3> QED BY <1>7, <3>1, NoneIsNobody
    <2> QED BY <1>2, <2>1 DEF LocalOrphansAreNobodys
  <1>17. KilledIsOver'
    <2>1. \A k \in Jobs : ~journal[k].execution /\ (\A q \in Procs : own[q][k] = NoRow) =>
             ~journal'[k].execution /\ \A q \in Procs : own'[q][k] = NoRow
          BY <1>7, NoneIsNobody
    <2> QED BY <1>1, <1>2, <1>8, <2>1 DEF JobsSafe, KilledIsOver
  <1> QED BY <1>10, <1>11, <1>12, <1>13, <1>14, <1>15, <1>16, <1>17 DEF JobsSafe

\* Create: a new job, with a row before any lane runs.
LEMMA CreateKeeps ==
    ASSUME JobsInv, NEW p \in Procs, NEW j \in Jobs, Create(p, j)
    PROVE  JobsSafe'
  <1>1. JobTypes /\ JobsSafe
        BY DEF JobsInv
  <1>2. /\ UNCHANGED <<proc, orphans, todo, archive, daemon>>
        /\ proc[p] = "up" /\ startedAt[j] = Never
        /\ Persist(p, own'[p])
        BY DEF Create, Serving
  <1>3. /\ held \in [Procs -> [Jobs -> JobRecords]] /\ own \in [Procs -> [Jobs -> JournalRows]]
        /\ DOMAIN startedAt = Jobs
        BY <1>1 DEF JobTypes
  <1>4. /\ OnlyItsJob(p, j)
        /\ held'[p][j] = Job("running", Never, FALSE, FALSE, TRUE)
        BY <1>3 DEF Create, OnlyItsJob
  <1>5. held'[p][j].status = "running"
        BY <1>4 DEF Job
  <1>6. /\ \A q \in Procs, k \in Jobs : q # p \/ k # j => own'[q][k] = own[q][k]
        /\ own'[p][j] = Row(p, FALSE)
        BY <1>3 DEF Create
  <1>7. own'[p][j].owner = p
        BY <1>6 DEF Row
  <1>8. own'[p][j] # NoRow
        BY <1>7, NoneIsNobody
  <1>9. own'[p] \in [Jobs -> JournalRows]
    <2>1. Row(p, FALSE) \in JournalRows
          BY NoneIsNobody
    <2>2. own' = [own EXCEPT ![p][j] = Row(p, FALSE)]
          BY DEF Create
    <2> QED BY <1>3, <2>1, <2>2
  <1>10. \A k \in Jobs : \/ journal'[k] = journal[k]
                         \/ own'[p][k] # NoRow /\ journal'[k] = own'[p][k]
                         \/ own'[p][k] = NoRow /\ journal[k].owner = p /\ journal'[k] = NoRow
        BY <1>2, <1>9, WrittenRows
  <1>11. /\ journal[j] = NoRow /\ archive[j] = NoRecord
         /\ \A q \in Procs : own[q][j] = NoRow /\ ~Holds(q, j) /\ \A o \in orphans[q] : o.job # j
        BY <1>1, <1>2 DEF JobsSafe, UnstartedIsUnknown
  <1>12. startedAt'[j] # Never /\ \A k \in Jobs : k # j => startedAt'[k] = startedAt[k]
    <2>1. clock \in Nat /\ startedAt' = [startedAt EXCEPT ![j] = clock]
          BY <1>1 DEF Create, JobTypes
    <2> QED BY <1>3, <2>1 DEF Never
  <1>13. \A q \in Procs, k \in Jobs : /\ Running(q, k)' <=> (Running(q, k) \/ (q = p /\ k = j))
                                      /\ Holds(q, k)' <=> (Holds(q, k) \/ (q = p /\ k = j))
        BY <1>4, <1>5 DEF Running, Holds, OnlyItsJob, None
  <1>14. IdleProcsKnowNothing'
        BY <1>1, <1>2, <1>6, <1>13 DEF JobsSafe, IdleProcsKnowNothing, Alive
  <1>15. RowsAreTheirs'
    <2>1. /\ \A q \in Procs, k \in Jobs : own[q][k] # NoRow => own[q][k].owner = q
          /\ \A q \in Procs, k \in Jobs : Running(q, k) => own[q][k] # NoRow
          /\ \A q, r \in Procs, k \in Jobs : own[q][k] # NoRow /\ own[r][k] # NoRow => q = r
          BY <1>1 DEF JobsSafe, RowsAreTheirs
    <2>2. ASSUME NEW q \in Procs, NEW k \in Jobs, own'[q][k] # NoRow
          PROVE  own'[q][k].owner = q
      <3>1. CASE q = p /\ k = j
            BY <1>7, <3>1
      <3>2. CASE q # p \/ k # j
            BY <1>6, <2>1, <2>2, <3>2
      <3> QED BY <3>1, <3>2
    <2>3. ASSUME NEW q \in Procs, NEW k \in Jobs, Running(q, k)'
          PROVE  own'[q][k] # NoRow
      <3>1. CASE q = p /\ k = j
            BY <1>8, <3>1
      <3>2. CASE q # p \/ k # j
            BY <1>6, <1>13, <2>1, <2>3, <3>2
      <3> QED BY <3>1, <3>2
    <2>4. \A q, r \in Procs, k \in Jobs : own'[q][k] # NoRow /\ own'[r][k] # NoRow => q = r
          BY <1>6, <1>11, <2>1
    <2> QED BY <2>2, <2>3, <2>4 DEF RowsAreTheirs
  <1>16. JournalNamesTheOwner'
    <2>1. \A k \in Jobs : own'[p][k] # NoRow => own'[p][k].owner = p
          BY <1>15 DEF RowsAreTheirs
    <2>2. \A k \in Jobs : journal'[k] # NoRow =>
             journal'[k].owner \in Procs /\ proc[journal'[k].owner] \notin {"unborn", "restored"}
          BY <1>1, <1>2, <1>10, <2>1 DEF JobsSafe, JournalNamesTheOwner
    <2>3. ASSUME NEW q \in Procs, NEW k \in Jobs, own'[q][k] # NoRow
          PROVE  journal'[k] = NoRow \/ journal'[k].owner = q
      <3>1. journal[k] = NoRow \/ journal[k].owner = q
        <4>1. CASE k = j
              BY <1>11, <4>1
        <4>2. CASE k # j
              BY <1>1, <1>6, <2>3, <4>2 DEF JobsSafe, JournalNamesTheOwner
        <4> QED BY <4>1, <4>2
      <3>2. own'[p][k] # NoRow => p = q
            BY <1>15, <2>3 DEF RowsAreTheirs
      <3> QED BY <1>10, <2>1, <3>1, <3>2
    <2> QED BY <1>2, <2>2, <2>3 DEF JournalNamesTheOwner
  <1>17. UnstartedIsUnknown'
    <2>1. \A k \in Jobs : startedAt'[k] = Never => k # j /\ startedAt[k] = Never
          BY <1>12
    <2>2. \A k \in Jobs : startedAt'[k] = Never => own'[p][k] = NoRow /\ journal'[k] = NoRow
          BY <1>1, <1>6, <1>10, <2>1 DEF JobsSafe, UnstartedIsUnknown
    <2> QED BY <1>1, <1>2, <1>6, <1>13, <2>1, <2>2 DEF JobsSafe, UnstartedIsUnknown
  <1>18. LeftIsEnded'
    <2>1. \A q \in Procs : todo[q].step # None =>
             todo[q].job \in Jobs /\ held[q][todo[q].job].status \in Ended /\ Holds(q, todo[q].job)
          BY <1>1 DEF JobsSafe, LeftIsEnded, Holds, Ended, None
    <2> QED BY <1>2, <1>4, <1>11, <2>1 DEF LeftIsEnded, OnlyItsJob
  <1>19. CreatorIsAlone'
    <2>1. ASSUME NEW q \in Procs, NEW k \in Jobs, Running(q, k)', ~held'[q][k].restored
          PROVE  /\ archive[k] = NoRecord
                 /\ \A r \in Procs : (r # q => ~Holds(r, k)') /\ \A o \in orphans[r] : o.job # k
      <3>1. CASE k = j
            BY <1>11, <1>13, <2>1, <3>1 DEF Running, Holds, None
      <3>2. CASE k # j
            BY <1>1, <1>4, <1>13, <2>1, <3>2 DEF JobsSafe, CreatorIsAlone, OnlyItsJob
      <3> QED BY <3>1, <3>2
    <2> QED BY <1>2, <2>1 DEF CreatorIsAlone
  <1>20. LocalOrphansAreNobodys'
    <2>1. ASSUME NEW q \in Procs, NEW o \in orphans[q], ~o.row.execution
          PROVE  ~journal'[o.job].execution /\ \A r \in Procs : own'[r][o.job] = NoRow
      <3>1. o.job \in Jobs /\ ~journal[o.job].execution /\ \A r \in Procs : own[r][o.job] = NoRow
            BY <1>1, <2>1 DEF JobsSafe, LocalOrphansAreNobodys, JobTypes
      <3>2. o.job # j
            BY <1>11
      <3> QED BY <1>6, <1>10, <3>1, <3>2, NoneIsNobody
    <2> QED BY <1>2, <2>1 DEF LocalOrphansAreNobodys
  <1>21. KilledIsOver'
    <2>1. ASSUME NEW k \in Jobs, archive[k].status = "killed" \/ \E q \in Procs : held'[q][k].status = "killed"
          PROVE  /\ \A q \in Procs : Running(q, k)' => held'[q][k].restored
                 /\ \/ daemon[k] # "running"
                    \/ ~journal'[k].execution /\ \A q \in Procs : own'[q][k] = NoRow
      <3>1. k # j
        <4>1. archive[j].status # "killed"
              BY <1>11, NoneIsNobody DEF None
        <4>2. \A q \in Procs : q # p => held'[q][j] = held[q][j] /\ held[q][j].status = None
              BY <1>4, <1>11 DEF OnlyItsJob, Holds
        <4> QED BY <1>5, <2>1, <4>1, <4>2 DEF None
      <3>2. \A q \in Procs : held'[q][k] = held[q][k] /\ own'[q][k] = own[q][k] /\ (Running(q, k)' <=> Running(q, k))
            BY <1>4, <1>6, <1>13, <3>1 DEF OnlyItsJob
      <3>3. /\ \A q \in Procs : Running(q, k) => held[q][k].restored
            /\ \/ daemon[k] # "running"
               \/ ~journal[k].execution /\ \A q \in Procs : own[q][k] = NoRow
            BY <1>1, <2>1, <3>2 DEF JobsSafe, KilledIsOver
      <3> QED BY <1>10, <3>2, <3>3, NoneIsNobody
    <2> QED BY <1>2, <2>1 DEF KilledIsOver
  <1> QED BY <1>14, <1>15, <1>16, <1>17, <1>18, <1>19, <1>20, <1>21 DEF JobsSafe

\* The invariant of the jobs holds in every reachable state.
LEMMA JobsStart == JobsInit => JobsInv
  <1> SUFFICES ASSUME JobsInit
               PROVE  JobsInv
      OBVIOUS
  <1> USE NoneIsNobody
  <1>1. /\ \A p \in Procs : proc[p] = "unborn" /\ orphans[p] = {} /\ todo[p] = Nothing
        /\ \A p \in Procs, j \in Jobs : held[p][j] = NoJob /\ own[p][j] = NoRow
        /\ \A j \in Jobs : journal[j] = NoRow /\ archive[j] = NoRecord
        BY DEF JobsInit
  <1>2. \A p \in Procs, j \in Jobs : ~Holds(p, j) /\ ~Running(p, j)
        BY <1>1 DEF Holds, Running, None
  <1>3. IdleProcsKnowNothing /\ RowsAreTheirs /\ JournalNamesTheOwner /\ UnstartedIsUnknown
        BY <1>1, <1>2 DEF IdleProcsKnowNothing, RowsAreTheirs, JournalNamesTheOwner, UnstartedIsUnknown
  <1>4. LeftIsEnded /\ CreatorIsAlone /\ LocalOrphansAreNobodys
        BY <1>1, <1>2 DEF LeftIsEnded, CreatorIsAlone, LocalOrphansAreNobodys
  <1>5. KilledIsOver
        BY <1>1, <1>2 DEF KilledIsOver, None
  <1> QED BY <1>3, <1>4, <1>5, TypesStart DEF JobsInv, JobsSafe

\* Every step keeps the invariant.
LEMMA JobsStay == JobsInv /\ [JobsNext]_jobsVars => JobsInv'
  <1> SUFFICES ASSUME JobsInv, [JobsNext]_jobsVars
               PROVE  JobsInv'
      OBVIOUS
  <1>1. JobTypes'
        BY TypesStay DEF JobsInv, JobsSafe
  <1>2. ASSUME NEW p \in Procs,
               \/ Boot(p) \/ ReadJournal(p) \/ SkipOrphan(p) \/ AdoptLocal(p)
               \/ ClaimOrphan(p) \/ Ready(p)
               \/ RecordJob(p) \/ ClearRow(p) \/ ClearOrphan(p)
               \/ StopServing(p) \/ Exit(p) \/ Crash(p)
        PROVE  JobsSafe'
    <2>1. CASE Exit(p) \/ Crash(p)
          BY <2>1, ForgetKeeps DEF Exit, Crash, Alive
    <2> QED BY <1>2, <2>1, LearnsKeep, ReadKeeps, StagesKeep, AdoptKeeps, ClaimKeeps, RecordKeeps, ClearsKeep
  <1>3. ASSUME NEW p \in Procs, NEW j \in Jobs,
               \/ Create(p, j) \/ NoteExecution(p, j) \/ StartExecution(p, j)
               \/ ContinueLocally(p, j) \/ CompleteJob(p, j) \/ RefreshBrokerJob(p, j)
               \/ CancelJob(p, j) \/ CancelExecution(p, j) \/ NoteTreeDelta(p, j)
               \/ Find(p, j)
        PROVE  JobsSafe'
        BY <1>3, CreateKeeps, RepublishKeeps, DaemonsKeep, EndsKeep, TreeDeltaKeeps, LearnsKeep
  <1>4. ASSUME NEW j \in Jobs, DaemonStep(j)
        PROVE  JobsSafe'
        BY <1>4, DaemonsKeep
  <1>6. ASSUME JobsTick PROVE JobsSafe'
        BY <1>6, DaemonsKeep
  <1>7. ASSUME UNCHANGED jobsVars PROVE JobsSafe'
        BY <1>7, DaemonsKeep
  <1>8. ASSUME JobsNext PROVE JobsSafe'
        BY <1>2, <1>3, <1>4, <1>6, <1>8, Zenon DEF JobsNext
  <1>5. JobsSafe'
        BY <1>7, <1>8
  <1> QED BY <1>1, <1>5 DEF JobsInv

\* The lives of jobs: what the state of the processes, the two files and the daemon has
\* in common in every reachable state (JobsInv).
THEOREM JobsAreSound == JobsSpec => []JobsInv
  <1> QED BY JobsStart, JobsStay, PTL DEF JobsSpec

\* A job has one process that answers for it, and as long as the process that created it
\* runs it, nobody says that it was killed, whatever processes crash, write and adopt.
THEOREM JobsHaveOneAnswerer == JobsSpec => []OneProcessAnswers
  <1>1. ASSUME JobsInv PROVE OneProcessAnswers
    <2>1. JobsSafe
          BY <1>1 DEF JobsInv
    <2>2. OneCollector
          BY <2>1 DEF JobsSafe, RowsAreTheirs, OneCollector
    <2>3. ASSUME NEW p \in Procs, NEW j \in Jobs, Running(p, j), ~held[p][j].restored
          PROVE  archive[j].status # "killed" /\ \A q \in Procs : held[q][j].status # "killed"
          BY <2>1, <2>3 DEF JobsSafe, KilledIsOver
    <2> QED BY <2>2, <2>3 DEF OneProcessAnswers, LiveJobIsNotKilled
  <1> QED BY <1>1, JobsAreSound, PTL

-----------------------------------------------------------------------------
\* An archive that has room for every job loses no report.
LEMMA RoomyArchive ==
    ASSUME JobTypes, IsFiniteSet(Jobs), Cardinality(Jobs) <= MaxArchived,
           NEW j \in Jobs, NEW r \in ArchiveRecords, r # NoRecord, WriteArchive(j, r)
    PROVE  archive'[j] = r /\ \A k \in Jobs : k # j => archive'[k] = archive[k]
  <1> DEFINE merged == [archive EXCEPT ![j] = r]
             there == {k \in Jobs : merged[k] # NoRecord}
  <1>1. PICK kept \in SUBSET there : /\ Bounded(merged, kept)
                                     /\ archive' = [k \in Jobs |-> IF k \in kept THEN merged[k] ELSE NoRecord]
        BY DEF WriteArchive
  <1>2. IsFiniteSet(there) /\ Cardinality(there) <= Cardinality(Jobs) /\ Cardinality(there) \in Nat
        BY FS_Subset, FS_CardinalityType
  <1>3. Cardinality(kept) = IF Cardinality(there) <= MaxArchived THEN Cardinality(there) ELSE MaxArchived
        BY <1>1 DEF Bounded
  <1>4. Cardinality(Jobs) \in Nat /\ MaxArchived \in Nat
        BY FS_CardinalityType, JobsAssumption
  <1> HIDE DEF there
  <1>5. kept = there
    <2>1. Cardinality(kept) = Cardinality(there)
          BY <1>2, <1>3, <1>4
    <2> QED BY <1>1, <1>2, <2>1, FS_Subset
  <1> USE DEF there
  <1>6. archive \in [Jobs -> ArchiveRecords]
        BY DEF JobTypes
  <1>7. j \in there /\ merged[j] = r /\ \A k \in Jobs : k # j => merged[k] = archive[k]
        BY <1>6
  <1>8. \A k \in Jobs : archive'[k] = merged[k]
        BY <1>1, <1>5
  <1> QED BY <1>7, <1>8

\* A record of the archive names how its job ended.
LEMMA RecordedIsEnded ==
    ASSUME JobTypes, NEW p \in Procs, NEW j \in Jobs, held[p][j].status \in Ended
    PROVE  LET r == Record(held[p][j].status, held[p][j].endedAt)
           IN r \in ArchiveRecords /\ r # NoRecord /\ r.status = held[p][j].status
  <1>1. held[p][j] \in JobRecords
        BY DEF JobTypes
  <1>2. held[p][j].endedAt \in Int
        BY <1>1 DEF JobRecords
  <1> QED BY <1>2, NoneIsNobody DEF Record, ArchiveRecords, Ended, None

\* Initially no file speaks of any job.
LEMMA ArchivedStart == JobsInit => ClearedIsArchived
  BY NoneIsNobody DEF JobsInit, ClearedIsArchived, Alive, Nothing, None

\* One step of the archive: it keeps what it has, and a job about to be cleared is in it.
\* One step of the journal: what leaves it is of such a job, or was its owner's own to leave.
LEMMA ArchivedStays ==
    ASSUME IsFiniteSet(Jobs), Cardinality(Jobs) <= MaxArchived,
           JobsInv, ClearedIsArchived, [JobsNext]_jobsVars
    PROVE  /\ ClearedIsArchived'
           /\ \A j \in Jobs : (journal[j] # NoRow /\ journal'[j] = NoRow) => archive'[j] # NoRecord
  <1>1. JobTypes /\ JobsSafe
        BY DEF JobsInv
  <1> DEFINE Goal == /\ ClearedIsArchived'
                     /\ \A j \in Jobs : (journal[j] # NoRow /\ journal'[j] = NoRow) => archive'[j] # NoRecord
  <1>2. ASSUME UNCHANGED <<own, journal, archive>>,
               \A q \in Procs : \/ todo'[q] = todo[q]
                                \/ todo'[q].step # "clear",
               \A q \in Procs : Alive(q)' => Alive(q)
        PROVE  Goal
        BY <1>2 DEF ClearedIsArchived
  <1>3. /\ \A j, q : Archiving(j, q).step # "clear"
        /\ Nothing.step # "clear"
        BY DEF Archiving, Nothing, None
  <1>4. DOMAIN todo = Procs /\ DOMAIN proc = Procs /\ DOMAIN own = Procs
        /\ own \in [Procs -> [Jobs -> JournalRows]] /\ journal \in [Jobs -> JournalRows]
        BY <1>1 DEF JobTypes
  <1>5. ASSUME NEW p \in Procs, Boot(p)
        PROVE  Goal
    <2>1. UNCHANGED <<own, todo, journal, archive>> /\ proc[p] = "unborn"
          BY <1>5 DEF Boot, files
    <2>2. \A q \in Procs : Alive(q)' => Alive(q) \/ q = p
          BY <1>4, <1>5 DEF Boot, Alive
    <2>3. \A j \in Jobs : journal[j].owner # p
      <3>1. \A j \in Jobs : journal[j] # NoRow => proc[journal[j].owner] # "unborn"
            BY <1>1 DEF JobsSafe, JournalNamesTheOwner
      <3> QED BY <2>1, <3>1, NoneIsNobody
    <2> QED BY <2>1, <2>2, <2>3 DEF ClearedIsArchived
  <1>6. ASSUME NEW p \in Procs, ReadJournal(p) \/ SkipOrphan(p) \/ Ready(p) \/ StopServing(p)
        PROVE  Goal
    <2>1. UNCHANGED <<own, todo, journal, archive>>
          BY <1>6 DEF ReadJournal, SkipOrphan, Ready, StopServing, files, memory
    <2>2. \A q \in Procs : Alive(q)' => Alive(q)
          BY <1>4, <1>6 DEF ReadJournal, SkipOrphan, Ready, StopServing, Adopting, Serving, Alive
    <2> QED BY <1>2, <2>1, <2>2
  <1>7. ASSUME NEW p \in Procs, Exit(p) \/ Crash(p)
        PROVE  Goal
    <2>1. /\ \A q \in Procs : q # p => todo'[q] = todo[q] /\ own'[q] = own[q] /\ proc'[q] = proc[q]
          /\ todo'[p] = Nothing /\ proc'[p] = "dead"
          /\ UNCHANGED <<journal, archive>>
          BY <1>4, <1>7 DEF Exit, Crash, Forget, files
    <2>2. \A q \in Procs : Alive(q)' => q # p /\ Alive(q)
          BY <2>1 DEF Alive
    <2> QED BY <1>3, <2>1, <2>2 DEF ClearedIsArchived
  <1>8. ASSUME NEW p \in Procs, AdoptLocal(p)
        PROVE  Goal
    <2>1. UNCHANGED <<proc, own, journal, archive>>
          BY <1>8 DEF AdoptLocal, files
    <2>2. PICK o \in orphans[p] : todo' = [todo EXCEPT ![p] = Archiving(o.job, o.row.owner)]
          BY <1>8 DEF AdoptLocal
    <2>3. o.job \in Jobs
          BY <1>1 DEF JobTypes
    <2>4. \A q \in Procs : todo'[q] = todo[q] \/ todo'[q].step # "clear"
          BY <1>3, <1>4, <2>2, <2>3
    <2> QED BY <1>2, <2>1, <2>4 DEF Alive
  <1>9. ASSUME NEW p \in Procs, ClaimOrphan(p)
        PROVE  Goal
    <2>1. UNCHANGED <<proc, todo, archive>>
          BY <1>9 DEF ClaimOrphan
    <2>2. PICK o \in orphans[p] :
             \/ UNCHANGED <<journal, own>>
             \/ /\ journal' = [journal EXCEPT ![o.job].owner = p]
                /\ own' = [own EXCEPT ![p][o.job] = Row(p, TRUE)]
          BY <1>9 DEF ClaimOrphan
    <2>3. o.job \in Jobs
          BY <1>1 DEF JobTypes
    <2>4. CASE UNCHANGED <<journal, own>>
          BY <2>1, <2>4 DEF ClearedIsArchived, Alive
    <2>5. ASSUME journal' = [journal EXCEPT ![o.job].owner = p],
                 own' = [own EXCEPT ![p][o.job] = Row(p, TRUE)]
          PROVE  Goal
      <3>1. /\ \A k \in Jobs : k # o.job => journal'[k] = journal[k]
            /\ journal'[o.job] = [journal[o.job] EXCEPT !.owner = p]
            BY <1>4, <2>3, <2>5
      <3>2. journal'[o.job].owner = p
        <4>1. journal[o.job] \in JournalRows
              BY <1>4, <2>3
        <4> QED BY <3>1, <4>1 DEF JournalRows
      <3>3. /\ \A q \in Procs, k \in Jobs : q # p \/ k # o.job => own'[q][k] = own[q][k]
            /\ own'[p][o.job] = Row(p, TRUE)
            BY <1>4, <2>3, <2>5
      <3>4. own'[p][o.job].owner = p
            BY <3>3 DEF Row
      <3>5. own'[p][o.job] # NoRow /\ journal'[o.job] # NoRow
            BY <3>2, <3>4, NoneIsNobody
      <3>6. ASSUME NEW q \in Procs, NEW k \in Jobs, Alive(q)', journal'[k].owner = q, own'[q][k] = NoRow
            PROVE  archive[k] # NoRecord
            BY <2>1, <3>1, <3>2, <3>3, <3>5, <3>6 DEF ClearedIsArchived, Alive
      <3> QED BY <2>1, <3>1, <3>5, <3>6 DEF ClearedIsArchived
    <2> QED BY <2>2, <2>4, <2>5
  <1>10. ASSUME NEW p \in Procs, RecordJob(p)
         PROVE  Goal
    <2> DEFINE j == todo[p].job
               r == Record(held[p][j].status, held[p][j].endedAt)
    <2>1. UNCHANGED <<proc, own, journal>>
          BY <1>10 DEF RecordJob
    <2>2. j \in Jobs /\ held[p][j].status \in Ended
          BY <1>1, <1>10 DEF JobsSafe, LeftIsEnded, RecordJob, None
    <2>3. r \in ArchiveRecords /\ r # NoRecord
          BY <1>1, <2>2, RecordedIsEnded
    <2>4. CASE WriteArchive(j, r) /\ todo' = [todo EXCEPT ![p] = Clearing(@.job, @.owner)]
      <3>1. archive'[j] = r /\ \A k \in Jobs : k # j => archive'[k] = archive[k]
        <4> HIDE DEF j, r
        <4> QED BY <1>1, <2>2, <2>3, <2>4, RoomyArchive
      <3>2. /\ todo'[p].job = j
            /\ \A q \in Procs : q # p => todo'[q] = todo[q]
            BY <1>4, <2>4 DEF Clearing
      <3>3. \A k \in Jobs : archive[k] # NoRecord => archive'[k] # NoRecord
            BY <2>3, <3>1
      <3>4. \A q \in Procs : todo[q].step = "clear" => todo[q].job \in Jobs
            BY <1>1 DEF JobsSafe, LeftIsEnded, None
      <3> HIDE DEF j, r
      <3>5. \A q \in Procs : todo'[q].step = "clear" => archive'[todo'[q].job] # NoRecord
            BY <2>2, <2>3, <3>1, <3>2, <3>3, <3>4 DEF ClearedIsArchived
      <3> QED BY <2>1, <3>3, <3>5 DEF ClearedIsArchived, Alive
    <2>5. CASE UNCHANGED archive /\ todo' = [todo EXCEPT ![p] = Nothing]
      <3>1. \A q \in Procs : todo'[q] = todo[q] \/ todo'[q].step # "clear"
            BY <1>3, <1>4, <2>5
      <3> QED BY <1>2, <2>1, <2>5, <3>1 DEF Alive
    <2> QED BY <1>10, <2>4, <2>5 DEF RecordJob
  <1>11. ASSUME NEW p \in Procs, ClearRow(p)
         PROVE  Goal
    <2>1. UNCHANGED <<proc, archive>> /\ todo[p].step = "clear" /\ todo' = [todo EXCEPT ![p] = Nothing]
          BY <1>11 DEF ClearRow
    <2> DEFINE j == todo[p].job
    <2>2. j \in Jobs /\ archive[j] # NoRecord
          BY <1>1, <2>1 DEF JobsSafe, LeftIsEnded, ClearedIsArchived, None
    <2>3. /\ \A q \in Procs, k \in Jobs : own'[q][k] = own[q][k] \/ k = j
          /\ \A k \in Jobs : \/ journal'[k] = journal[k]
                             \/ own[p][k] # NoRow /\ journal'[k] = own[p][k] /\ k # j
                             \/ own[p][k] = NoRow /\ journal[k].owner = p /\ journal'[k] = NoRow
                             \/ k = j
      <3>1. CASE own[p][j] = NoRow
            BY <1>11, <3>1 DEF ClearRow
      <3>2. CASE own[p][j] # NoRow
        <4>1. own' = [own EXCEPT ![p][j] = NoRow] /\ Persist(p, [own[p] EXCEPT ![j] = NoRow])
              BY <1>11, <3>2 DEF ClearRow
        <4> HIDE DEF j
        <4>2. [own[p] EXCEPT ![j] = NoRow] \in [Jobs -> JournalRows]
              BY <1>4, NoneIsNobody
        <4>3. \A k \in Jobs : k # j => [own[p] EXCEPT ![j] = NoRow][k] = own[p][k]
              BY <1>4
        <4>4. \A k \in Jobs : \/ journal'[k] = journal[k]
                              \/ own[p][k] # NoRow /\ journal'[k] = own[p][k] /\ k # j
                              \/ own[p][k] = NoRow /\ journal[k].owner = p /\ journal'[k] = NoRow
                              \/ k = j
              BY <4>1, <4>2, <4>3, WrittenRows
        <4>5. \A q \in Procs, k \in Jobs : own'[q][k] = own[q][k] \/ k = j
              BY <1>4, <4>1
        <4> QED BY <4>4, <4>5
      <3> QED BY <3>1, <3>2
    <2>4. /\ Alive(p) /\ \A q \in Procs : (Alive(q)' <=> Alive(q))
          /\ \A q \in Procs, k \in Jobs : own[q][k] # NoRow => own[q][k].owner = q
      <3>1. todo[p] # Nothing
            BY <2>1 DEF Nothing, None
      <3>2. Alive(p)
            BY <1>1, <3>1 DEF JobsSafe, IdleProcsKnowNothing, Alive
      <3>3. \A q \in Procs, k \in Jobs : own[q][k] # NoRow => own[q][k].owner = q
            BY <1>1 DEF JobsSafe, RowsAreTheirs
      <3> QED BY <2>1, <3>2, <3>3 DEF Alive
    <2> HIDE DEF j
    <2>5. \A q \in Procs, k \in Jobs : Alive(q) /\ journal[k].owner = q /\ own[q][k] = NoRow => archive[k] # NoRecord
          BY DEF ClearedIsArchived
    <2>6. ASSUME NEW q \in Procs, NEW k \in Jobs, Alive(q), journal'[k].owner = q, own'[q][k] = NoRow
          PROVE  archive[k] # NoRecord
      <3>1. CASE k = j
            BY <2>2, <3>1
      <3>2. CASE k # j
        <4>1. own[q][k] = NoRow
              BY <2>3, <2>6, <3>2
        <4>2. journal'[k] = journal[k] \/ journal'[k] = NoRow
              BY <2>3, <2>4, <2>6, <3>2, <4>1
        <4> QED BY <2>5, <2>6, <4>1, <4>2, NoneIsNobody
      <3> QED BY <3>1, <3>2
    <2>7. \A k \in Jobs : (journal[k] # NoRow /\ journal'[k] = NoRow) => archive[k] # NoRecord
          BY <2>2, <2>3, <2>4, <2>5
    <2>8. \A q \in Procs : todo'[q].step = "clear" => todo'[q] = todo[q]
          BY <1>3, <1>4, <2>1
    <2> QED BY <2>1, <2>4, <2>6, <2>7, <2>8 DEF ClearedIsArchived
  <1>12. ASSUME NEW p \in Procs, ClearOrphan(p)
         PROVE  Goal
    <2>1. UNCHANGED <<proc, own, archive>> /\ todo[p].step = "clear" /\ todo' = [todo EXCEPT ![p] = Nothing]
          BY <1>12 DEF ClearOrphan
    <2>2. todo[p].job \in Jobs /\ archive[todo[p].job] # NoRecord
          BY <1>1, <2>1 DEF JobsSafe, LeftIsEnded, ClearedIsArchived, None
    <2>3. \A k \in Jobs : journal'[k] = journal[k] \/ (journal'[k] = NoRow /\ k = todo[p].job)
          BY <1>4, <1>12, <2>2 DEF ClearOrphan
    <2>4. \A q \in Procs : todo'[q].step = "clear" => todo'[q] = todo[q]
          BY <1>3, <1>4, <2>1
    <2> QED BY <2>1, <2>2, <2>3, <2>4, NoneIsNobody DEF ClearedIsArchived, Alive
  <1>13. ASSUME NEW p \in Procs, NEW j \in Jobs, Create(p, j) \/ NoteExecution(p, j) \/ ContinueLocally(p, j)
         PROVE  Goal
    <2>1. UNCHANGED <<proc, todo, archive>> /\ proc[p] = "up" /\ Persist(p, own'[p])
          BY <1>13 DEF Create, NoteExecution, ContinueLocally, Serving
    <2>2. own' \in [Procs -> [Jobs -> JournalRows]]
          BY <1>13, <1>1, TypesStay DEF JobTypes, JobsNext, JobsSafe
    <2>3. \A q \in Procs, k \in Jobs : q # p \/ k # j => own'[q][k] = own[q][k]
      <3>1. CASE Create(p, j)
            BY <1>4, <3>1 DEF Create
      <3>2. CASE NoteExecution(p, j)
            BY <1>4, <3>2 DEF NoteExecution
      <3>3. CASE ContinueLocally(p, j)
            BY <1>4, <3>3 DEF ContinueLocally
      <3> QED BY <1>13, <3>1, <3>2, <3>3
    <2>4. own'[p][j] # NoRow
      <3>1. held \in [Procs -> [Jobs -> JobRecords]]
            BY <1>1 DEF JobTypes
      <3>2. held'[p][j].status = "running"
        <4>1. CASE Create(p, j)
          <5>1. held'[p][j] = Job("running", Never, FALSE, FALSE, TRUE)
                BY <3>1, <4>1 DEF Create
          <5> QED BY <5>1 DEF Job
        <4>2. CASE NoteExecution(p, j) \/ ContinueLocally(p, j)
          <5>1. PICK e \in BOOLEAN : held' = [held EXCEPT ![p][j].execution = e]
                BY <4>2 DEF NoteExecution, ContinueLocally
          <5>2. held[p][j].status = "running"
                BY <4>2 DEF NoteExecution, ContinueLocally, Running
          <5>3. held'[p][j].status = held[p][j].status
                BY <3>1, <5>1 DEF JobRecords
          <5> QED BY <5>2, <5>3
        <4> QED BY <1>13, <4>1, <4>2
      <3>3. RowsAreTheirs'
            BY <1>13, CreateKeeps, RepublishKeeps DEF JobsSafe
      <3> QED BY <3>2, <3>3 DEF RowsAreTheirs, Running
    <2>5. \A k \in Jobs : \/ journal'[k] = journal[k]
                          \/ own'[p][k] # NoRow /\ journal'[k] = own'[p][k]
                          \/ own'[p][k] = NoRow /\ journal[k].owner = p /\ journal'[k] = NoRow
          BY <2>1, <2>2, WrittenRows
    <2>6. \A k \in Jobs : own'[p][k] # NoRow => own'[p][k].owner = p
          BY <1>13, CreateKeeps, RepublishKeeps DEF JobsSafe, RowsAreTheirs
    <2>7. \A q \in Procs, k \in Jobs : Alive(q) /\ journal[k].owner = q /\ own[q][k] = NoRow => archive[k] # NoRecord
          BY DEF ClearedIsArchived
    <2>8. Alive(p)
          BY <2>1 DEF Alive
    <2>9. ASSUME NEW q \in Procs, NEW k \in Jobs, Alive(q), journal'[k].owner = q, own'[q][k] = NoRow
          PROVE  archive[k] # NoRecord
      <3>1. own[q][k] = NoRow
        <4>1. CASE q = p /\ k = j
              BY <2>4, <2>9, <4>1
        <4>2. CASE q # p \/ k # j
              BY <2>3, <2>9, <4>2
        <4> QED BY <4>1, <4>2
      <3>2. journal'[k] = journal[k]
            BY <2>5, <2>6, <2>9, NoneIsNobody
      <3> QED BY <2>7, <2>9, <3>1, <3>2
    <2>10. ASSUME NEW k \in Jobs, journal[k] # NoRow, journal'[k] = NoRow
           PROVE  archive[k] # NoRecord
      <3>1. own'[p][k] = NoRow /\ journal[k].owner = p
            BY <2>5, <2>10
      <3>2. own[p][k] = NoRow
            BY <2>3, <2>4, <3>1
      <3> QED BY <2>7, <2>8, <3>1, <3>2
    <2> QED BY <2>1, <2>9, <2>10 DEF ClearedIsArchived, Alive
  <1>14. ASSUME NEW p \in Procs, NEW j \in Jobs,
                \/ CompleteJob(p, j) \/ RefreshBrokerJob(p, j) \/ CancelJob(p, j)
                \/ CancelExecution(p, j) \/ NoteTreeDelta(p, j)
         PROVE  Goal
    <2>1. UNCHANGED <<proc, own, journal, archive>>
          BY <1>14 DEF CompleteJob, RefreshBrokerJob, CancelJob, CancelExecution, NoteTreeDelta, End, files
    <2>2. todo' = [todo EXCEPT ![p] = Nothing] \/ todo' = [todo EXCEPT ![p] = Archiving(j, p)]
          BY <1>14 DEF CompleteJob, RefreshBrokerJob, CancelJob, CancelExecution, NoteTreeDelta, End
    <2>3. \A q \in Procs : todo'[q] = todo[q] \/ todo'[q].step # "clear"
          BY <1>3, <1>4, <2>2
    <2> QED BY <1>2, <2>1, <2>3 DEF Alive
  <1>15. ASSUME \/ \E p \in Procs, j \in Jobs : StartExecution(p, j) \/ Find(p, j)
                \/ \E j \in Jobs : DaemonStep(j)
                \/ JobsTick
                \/ UNCHANGED jobsVars
         PROVE  Goal
    <2>1. UNCHANGED <<proc, own, todo, journal, archive>>
          BY <1>15 DEF StartExecution, Find, DaemonStep, JobsTick, jobsVars, memory, files
    <2> QED BY <1>2, <2>1 DEF Alive
  <1> HIDE DEF Goal
  <1>16. ASSUME JobsNext PROVE Goal
         BY <1>5, <1>6, <1>7, <1>8, <1>9, <1>10, <1>11, <1>12, <1>13, <1>14, <1>15, <1>16, Zenon DEF JobsNext
  <1>17. Goal
         BY <1>15, <1>16
  <1> QED BY <1>17 DEF Goal

\* "It cannot lose the handle entirely": as long as the archive has room for every job, a
\* row leaves the journal only when the archive has the job's report, and no write erases
\* the row of another process, whatever crashes and fails.
THEOREM HandlesAreKept ==
    ASSUME IsFiniteSet(Jobs), Cardinality(Jobs) <= MaxArchived
    PROVE  JobsSpec => HandleIsNeverLost
  <1>1. JobsInv /\ ClearedIsArchived /\ [JobsNext]_jobsVars => ClearedIsArchived'
        BY ArchivedStays
  <1>2. JobsInv /\ ClearedIsArchived /\ [JobsNext]_jobsVars =>
           \A j \in Jobs : (journal[j] # NoRow /\ journal'[j] = NoRow) => archive'[j] # NoRecord
        BY ArchivedStays
  <1>3. JobsSpec => []ClearedIsArchived
        BY <1>1, ArchivedStart, JobsAreSound, PTL DEF JobsSpec
  <1> QED BY <1>2, <1>3, JobsAreSound, PTL DEF JobsSpec, HandleIsNeverLost

\* The execution survives its MCP process: what the daemon still runs under a row that
\* names it is archived as killed by nobody.
THEOREM RestartsKeepDaemonWork == JobsSpec => RestartKeepsDaemonWork
  <1>1. ASSUME JobsInv, [JobsNext]_jobsVars,
               NEW j \in Jobs, journal[j].execution, daemon[j] = "running",
               archive'[j] # archive[j]
        PROVE  archive'[j].status # "killed"
    <2>1. JobTypes /\ JobsSafe
          BY <1>1 DEF JobsInv
    <2>2. PICK p \in Procs : RecordJob(p)
      <3>1. CASE JobsNext
        <4>1. \A p \in Procs : \/ RecordJob(p)
                               \/ ~(\/ Boot(p) \/ ReadJournal(p) \/ SkipOrphan(p) \/ AdoptLocal(p)
                                    \/ ClaimOrphan(p) \/ Ready(p) \/ ClearRow(p) \/ ClearOrphan(p)
                                    \/ StopServing(p) \/ Exit(p) \/ Crash(p))
              BY <1>1 DEF Boot, ReadJournal, SkipOrphan, AdoptLocal, ClaimOrphan, Ready, ClearRow, ClearOrphan,
                          StopServing, Exit, Crash, Forget, files
        <4>2. \A p \in Procs, k \in Jobs :
                 ~(\/ Create(p, k) \/ NoteExecution(p, k) \/ StartExecution(p, k)
                   \/ ContinueLocally(p, k) \/ CompleteJob(p, k) \/ RefreshBrokerJob(p, k)
                   \/ CancelJob(p, k) \/ CancelExecution(p, k) \/ NoteTreeDelta(p, k)
                   \/ Find(p, k))
          <5>1. \A p \in Procs, k \in Jobs :
                   ~(Create(p, k) \/ NoteExecution(p, k) \/ ContinueLocally(p, k))
                BY <1>1 DEF Create, NoteExecution, ContinueLocally
          <5>4. \A p \in Procs, k \in Jobs :
                   ~(StartExecution(p, k) \/ CancelExecution(p, k) \/ NoteTreeDelta(p, k) \/ Find(p, k))
                BY <1>1 DEF StartExecution, CancelExecution, NoteTreeDelta, Find, files
          <5>2. \A p, k, s : ~End(p, k, s)
                BY <1>1 DEF End, files
          <5>3. \A p \in Procs, k \in Jobs : ~(CompleteJob(p, k) \/ RefreshBrokerJob(p, k) \/ CancelJob(p, k))
                BY <5>2 DEF CompleteJob, RefreshBrokerJob, CancelJob
          <5> QED BY <5>1, <5>3, <5>4
        <4>3. ~JobsTick /\ \A k \in Jobs : ~DaemonStep(k)
              BY <1>1 DEF JobsTick, DaemonStep, files
        <4> QED BY <3>1, <4>1, <4>2, <4>3, Zenon DEF JobsNext
      <3>2. CASE UNCHANGED jobsVars
            BY <1>1, <3>2 DEF jobsVars
      <3> QED BY <1>1, <3>1, <3>2
    <2> DEFINE k == todo[p].job
               r == Record(held[p][k].status, held[p][k].endedAt)
    <2>3. k \in Jobs /\ held[p][k].status \in Ended
          BY <2>1, <2>2 DEF JobsSafe, LeftIsEnded, RecordJob, None
    <2>4. r.status = held[p][k].status
          BY <2>1, <2>3, RecordedIsEnded
    <2>5. archive' = archive \/ WriteArchive(k, r)
          BY <2>2 DEF RecordJob
    <2>6. PICK kept \in SUBSET Jobs :
             archive' = [i \in Jobs |-> IF i \in kept THEN [archive EXCEPT ![k] = r][i] ELSE NoRecord]
      <3> HIDE DEF k, r
      <3> QED BY <1>1, <2>5 DEF WriteArchive
    <2>7. archive'[j] = NoRecord \/ (j = k /\ archive'[j] = r)
      <3> HIDE DEF k, r
      <3>1. DOMAIN archive = Jobs
            BY <2>1 DEF JobTypes
      <3> QED BY <1>1, <2>3, <2>6, <3>1
    <2>8. j = k => held[p][k].status # "killed"
          BY <1>1, <2>1, <2>3 DEF JobsSafe, KilledIsOver
    <2> QED BY <2>4, <2>7, <2>8, NoneIsNobody DEF None
  <1>2. JobsInv /\ [JobsNext]_jobsVars =>
           \A j \in Jobs : (/\ journal[j].execution /\ daemon[j] = "running"
                            /\ archive'[j] # archive[j]) => archive'[j].status # "killed"
        BY <1>1
  <1> QED BY <1>2, JobsAreSound, PTL DEF JobsSpec, RestartKeepsDaemonWork

\* What a caller was promised outlives the process that promised it, as long as the
\* archive has room for every job: the handle, and the daemon's work under it.
THEOREM PromisesAreKept ==
    ASSUME IsFiniteSet(Jobs), Cardinality(Jobs) <= MaxArchived
    PROVE  JobsSpec => JobsOutliveTheirProcess
  BY HandlesAreKept, RestartsKeepDaemonWork DEF JobsOutliveTheirProcess
=============================================================================
