----------------------------- MODULE MCResponses ----------------------------
(***************************************************************************)
(* A request's answer, what is kept of it, and the lock its files are      *)
(* shared under, each part in a behaviour of its own: `part` names the one *)
(* whose steps a behaviour takes.                                          *)
(***************************************************************************)
EXTENDS FileLock, RequestAccounting, StreamRelay

VARIABLE part

responseVars == <<part, vars, accountingVars, streamVars>>

ResponsesInit == /\ part \in {"lock", "accounting", "stream"}
                 /\ Init /\ AccountingInit /\ StreamInit
                 /\ part # "stream" => relay.mode = "observe"
Lock_ == part = "lock" /\ Next /\ UNCHANGED <<part, accountingVars, streamVars>>
Accounting_ == part = "accounting" /\ AccountingNext /\ UNCHANGED <<part, vars, streamVars>>
Stream_ == part = "stream" /\ StreamNext /\ UNCHANGED <<part, vars, accountingVars>>
ResponsesNext == Lock_ \/ Accounting_ \/ Stream_

\* Only the part whose steps the behaviour takes is promised any.
ResponsesFairness == /\ Fairness
                     /\ WF_accountingVars(part = "accounting" /\ ResponseEnds)
                     /\ WF_accountingVars(part = "accounting" /\ AttemptEnds)
                     /\ WF_accountingVars(part = "accounting" /\ AnswerFailure)
ResponsesSpec == ResponsesInit /\ [][ResponsesNext]_responseVars /\ ResponsesFairness

\* Every request whose answer a behaviour follows is finalized in the end:
\* neither a cancelled response nor a hedge leaves one waiting for an attempt.
EveryAnswerIsFinalized == part = "accounting" => EveryRequestIsFinalized
=============================================================================
