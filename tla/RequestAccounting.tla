-------------------------- MODULE RequestAccounting -------------------------
(***************************************************************************)
(* The ledger entry of one request: RequestAccountingState                 *)
(* (src/accounting-state.ts) over the request lifecycle it drives          *)
(* (src/accounting.ts).  The runner starts serve attempts, two at a time   *)
(* when it hedges, and repair attempts inside a serve attempt; it commits  *)
(* the attempt whose first byte reaches the client and completes each one. *)
(* The HTTP response closes on its own: "finish" once what was written has *)
(* left the process, "close" at any time when the client goes away.  The   *)
(* request is complete when the response is over and no attempt is active. *)
(***************************************************************************)
EXTENDS Integers, FiniteSets

CONSTANTS MaxAttempts,   \* bound: attempts of the request
          Attributions   \* whose credential an attempt uses

ASSUME AttemptAssumption == MaxAttempts \in Nat

Attempts == 1 .. MaxAttempts
Nobody == 0
Roles == {"serve", "repair"}
Outcomes == {"success", "error", "cancelled"}
NoTerminal == [outcome |-> "none", winner |-> Nobody, attribution |-> "unknown",
               attemptCount |-> 0]

VARIABLES attempts,      \* AttemptState of each attempt, in the order of their start
          started,       \* how many have been started
          active,        \* the attempts not completed yet
          commitAttempt, \* requestCommitAttemptId
          lastAttribution,
          response,      \* what the handler did with the response: open, ended, destroyed
          responseTerminal,
          finalized,
          terminal,      \* the request-completed event, once it is recorded
          refused        \* the lifecycle refused a completion; the state swallows it

accountingVars == <<attempts, started, active, commitAttempt, lastAttribution, response,
          responseTerminal, finalized, terminal, refused>>

NotStarted == [role |-> "none", attribution |-> "unknown", outcome |-> "none",
               abandoned |-> "no"]

AccountingInit ==
    /\ attempts = [a \in Attempts |-> NotStarted]
    /\ started = 0
    /\ active = {}
    /\ commitAttempt = Nobody
    /\ lastAttribution = "unknown"
    /\ response = "open"
    /\ responseTerminal = "none"
    /\ finalized = "no"
    /\ terminal = NoTerminal
    /\ refused = "no"

-----------------------------------------------------------------------------
Completed(objects, a) == objects[a].outcome # "none"
Serves(objects) == {a \in Attempts : objects[a].role = "serve"}
Successes(objects) == {a \in Serves(objects) : objects[a].outcome = "success"}
First(set) == CHOOSE a \in set : \A b \in set : a <= b
Latest(set) == CHOOSE a \in set : \A b \in set : b <= a

\* Faulty: the first attempt that succeeded wins, whoever was committed.
WinnerBySuccess(objects) ==
    IF Successes(objects) # {} THEN First(Successes(objects)) ELSE commitAttempt

\* The attempt a completion names: the committed one, else the first success.
Winner(objects) ==
    IF commitAttempt # Nobody THEN commitAttempt
    ELSE IF Successes(objects) # {} THEN First(Successes(objects)) ELSE Nobody

\* What finalizeIfReady asks the lifecycle to record.
Asked(objects, ending) ==
    IF ending = "cancelled" THEN "cancelled"
    ELSE IF Successes(objects) # {}
         THEN objects[Winner(objects)].outcome
         ELSE "error"

\* AccountingRequestLifecycle.complete refuses a winner that does not match.
Accepts(objects, outcome) ==
    LET winner == Winner(objects)
    IN IF winner = Nobody THEN outcome # "success"
       ELSE \/ outcome = "success"
            \/ winner = commitAttempt /\ objects[winner].outcome = outcome

\* The request-completed event.  A winner names the attribution; without one
\* it is the attribution of the last attempt.
Event(objects, outcome, attribution) ==
    [outcome |-> outcome, winner |-> Winner(objects), attemptCount |-> started,
     attribution |-> IF Winner(objects) # Nobody
                     THEN objects[Winner(objects)].attribution ELSE attribution]

\* The end of an attempt the response left behind.
LeftBehind(objects) ==
    [a \in Attempts |-> IF a \in active /\ ~Completed(objects, a)
                        THEN [objects[a] EXCEPT !.outcome = "error"] ELSE objects[a]]

\* finalizeIfReady over the attempts and the active set a step leaves.  A
\* finished response completes the attempts left active, in the order of their
\* start, through complete, which finalizes in turn: the innermost call records
\* and the outer ones find the request complete.  A cancelled one waits for
\* them.  What the lifecycle refuses is caught and nothing is recorded.
FinalizeIfReady(objects, remaining, ending, attribution) ==
    IF finalized = "yes" \/ ending = "none" \/ (remaining # {} /\ ending # "finished")
    THEN /\ attempts' = objects
         /\ active' = remaining
         /\ lastAttribution' = attribution
         /\ UNCHANGED <<finalized, terminal, refused>>
    ELSE LET settled == LeftBehind(objects)
             last == IF remaining = {} THEN attribution
                     ELSE settled[Latest(remaining)].attribution
             outcome == Asked(settled, ending)
         IN /\ attempts' = settled
            /\ active' = {}
            /\ lastAttribution' = last
            /\ finalized' = "yes"
            /\ IF Accepts(settled, outcome)
               THEN terminal' = Event(settled, outcome, last) /\ UNCHANGED refused
               ELSE refused' = "yes" /\ UNCHANGED terminal

-----------------------------------------------------------------------------

\* startServe and startRepair.  A request that is over starts nothing; the
\* runner goes on without an accounting attempt.
Start(role, attribution) ==
    /\ finalized = "no" /\ responseTerminal # "cancelled"
    /\ started < MaxAttempts
    /\ started' = started + 1
    /\ attempts' = [attempts EXCEPT ![started + 1] =
                       [NotStarted EXCEPT !.role = role, !.attribution = attribution]]
    /\ active' = active \cup {started + 1}
    /\ lastAttribution' = attribution
    /\ UNCHANGED <<commitAttempt, response, responseTerminal, finalized, terminal, refused>>

\* markCommitted: the first serve attempt with a byte for the client.
MarkCommitted(a) ==
    /\ attempts[a].role = "serve" /\ ~Completed(attempts, a)
    /\ commitAttempt = Nobody
    /\ commitAttempt' = a
    /\ UNCHANGED <<attempts, started, active, lastAttribution, response,
                   responseTerminal, finalized, terminal, refused>>

\* Faulty: the last completion does not finalize a request that waits for it.
CompleteWithoutFinalize(a, outcome, abandoned) ==
    /\ attempts' = [attempts EXCEPT ![a] = [@ EXCEPT !.outcome = outcome,
                                                     !.abandoned = abandoned]]
    /\ active' = active \ {a}
    /\ lastAttribution' = attempts[a].attribution
    /\ UNCHANGED <<finalized, terminal, refused, started, commitAttempt, responseTerminal>>

\* completeAttempt and the bookkeeping of complete.
Complete(a, outcome, abandoned) ==
    /\ FinalizeIfReady([attempts EXCEPT ![a] = [@ EXCEPT !.outcome = outcome,
                                                         !.abandoned = abandoned]],
                       active \ {a}, responseTerminal, attempts[a].attribution)
    /\ UNCHANGED <<started, commitAttempt, responseTerminal>>

\* The serving attempt has written its answer, or what it had of it and an error
\* frame: the handler ends the response and completes the attempt in one turn.
Answer(a, outcome) ==
    /\ a \in active /\ attempts[a].role = "serve" /\ response = "open"
    /\ outcome \in {"success", "error"}
    /\ response' = "ended"
    /\ Complete(a, outcome, "no")

\* An attempt fails before its first byte and the walk goes on, or a repair
\* attempt ends.
GiveUp(a, outcome) ==
    /\ a \in active /\ commitAttempt # a
    /\ outcome = "error" \/ (outcome = "success" /\ attempts[a].role = "repair")
    /\ Complete(a, outcome, "no")
    /\ UNCHANGED response

\* The client has gone while the attempt ran.
Cancel(a) == /\ a \in active /\ response = "destroyed"
             /\ Complete(a, "cancelled", "no")
             /\ UNCHANGED response

\* The loser of a hedge is abandoned by the relay.
Abandon(a) == /\ a \in active /\ attempts[a].role = "serve" /\ commitAttempt # a
              /\ Cardinality(active \cap Serves(attempts)) > 1 \/ response = "ended"
              /\ Complete(a, "cancelled", "yes")
              /\ UNCHANGED response

\* Every candidate failed: the handler answers with the failure.
AnswerFailure == /\ response = "open" /\ active = {} /\ commitAttempt = Nobody
                 /\ response' = "ended"
                 /\ UNCHANGED <<attempts, started, active, commitAttempt, lastAttribution,
                                responseTerminal, finalized, terminal, refused>>

\* The client disconnects before the response has left the process.
Disconnect == /\ response \in {"open", "ended"} /\ responseTerminal = "none"
              /\ response' = "destroyed"
              /\ UNCHANGED <<attempts, started, active, commitAttempt, lastAttribution,
                             responseTerminal, finalized, terminal, refused>>

\* The "finish" and the "close" listener.
Finish == /\ response = "ended" /\ responseTerminal = "none"
          /\ responseTerminal' = "finished"
          /\ FinalizeIfReady(attempts, active, "finished", lastAttribution)
          /\ UNCHANGED <<started, commitAttempt, response>>

Close == /\ response = "destroyed" /\ responseTerminal = "none"
         /\ responseTerminal' = "cancelled"
         /\ FinalizeIfReady(attempts, active, "cancelled", lastAttribution)
         /\ UNCHANGED <<started, commitAttempt, response>>

AccountingNext ==
    \/ \E role \in Roles, attribution \in Attributions :
          Start(role, attribution)
    \/ \E a \in Attempts : MarkCommitted(a) /\ response = "open"
    \/ \E a \in Attempts, outcome \in Outcomes : Answer(a, outcome)
    \/ \E a \in Attempts, outcome \in Outcomes : GiveUp(a, outcome)
    \/ \E a \in Attempts : Cancel(a)
    \/ \E a \in Attempts : Abandon(a)
    \/ AnswerFailure
    \/ Disconnect
    \/ Finish
    \/ Close

\* The runner completes every attempt it started and ends the response, and the
\* response of a connection always closes.
ResponseEnds == Finish \/ Close
AttemptEnds == \E a \in Attempts, outcome \in Outcomes :
                   Answer(a, outcome) \/ GiveUp(a, outcome) \/ Cancel(a)
AccountingFairness == /\ WF_accountingVars(ResponseEnds)
                      /\ WF_accountingVars(AttemptEnds)
                      /\ WF_accountingVars(AnswerFailure)

AccountingSpec == AccountingInit /\ [][AccountingNext]_accountingVars
FairAccountingSpec == AccountingSpec /\ AccountingFairness

-----------------------------------------------------------------------------
AttemptStates == [role : Roles \cup {"none"}, attribution : Attributions \cup {"unknown"},
                  outcome : Outcomes \cup {"none"}, abandoned : {"yes", "no"}]

AccountingTypes ==
    /\ attempts \in [Attempts -> AttemptStates]
    /\ started \in 0 .. MaxAttempts
    /\ active \subseteq 1 .. started
    /\ commitAttempt \in 0 .. started
    /\ lastAttribution \in Attributions \cup {"unknown"}
    /\ response \in {"open", "ended", "destroyed"}
    /\ responseTerminal \in {"none", "finished", "cancelled"}
    /\ finalized \in {"yes", "no"}
    /\ refused \in {"yes", "no"}

Recorded == terminal # NoTerminal

\* A response that was delivered is in the ledger from that moment on, with
\* every attempt made for it, although attempts may still be running: a late
\* completion changes nothing and nothing starts any more.
DeliveredIsRecorded ==
    responseTerminal = "finished" =>
        Recorded /\ terminal.attemptCount = started /\ active = {}

\* The ledger calls a request successful only if the response was delivered and
\* the attempt it names served it.
SuccessWasServed ==
    (Recorded /\ terminal.outcome = "success") =>
        /\ responseTerminal = "finished"
        /\ attempts[terminal.winner].outcome = "success"
        /\ attempts[terminal.winner].role = "serve"

\* The attempt whose bytes reached the client is the one the ledger names and
\* attributes the request to, whatever the other attempts did.
CommittedServeIsAuthoritative ==
    (Recorded /\ commitAttempt # Nobody) =>
        /\ terminal.winner = commitAttempt
        /\ terminal.attribution = attempts[commitAttempt].attribution

\* What the ledger says of a request is what happened to it (the two parts above).
LedgerNamesTheServer == SuccessWasServed /\ CommittedServeIsAuthoritative

\* A request whose answer was delivered is in the ledger, under who delivered it.
LedgerIsTrue == DeliveredIsRecorded /\ LedgerNamesTheServer

\* Every request is finalized in the end: neither a cancelled response nor a
\* hedge leaves one waiting for an attempt.
EveryRequestIsFinalized == <>(finalized = "yes")
=============================================================================
