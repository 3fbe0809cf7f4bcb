---------------------------- MODULE CandidateWalk ----------------------------
(***************************************************************************)
(* One proxied request: the loop of anthropicMessagesPath and              *)
(* openAiFrontPath (routes/messages.ts, routes/openai-front.ts) with the   *)
(* candidate runner's helpers (candidate-runner.ts) and the hedge race     *)
(* (hedge-race.ts), over the CredentialWalk that hands out candidates.     *)
(*                                                                         *)
(* The relay is one Node.js process: only at an await can a timer, the     *)
(* client's socket, a provider or another request run.  pc "race",         *)
(* "inspect", "respond" and "repair" are such awaits; "top" and "settled"  *)
(* are points of one synchronous run, where nothing else happens.          *)
(***************************************************************************)
EXTENDS CredentialWalk

CONSTANTS SlowPrep,       \* attempts whose request must be converted before egress
          Misconfigured,  \* attempts whose forward headers cannot be built
          Capable,        \* attempts other requests may bring to their hard cap
          InitiallyCapped,
          FrontKind,          \* "anthropic" or "openai"
          RepairMode      \* "on": config mode "repair" and a reshaper resolves

ASSUME WalkConstants ==
    /\ SlowPrep \subseteq Attempts /\ Misconfigured \subseteq Attempts
    /\ Capable \subseteq Attempts /\ InitiallyCapped \subseteq Attempts
    /\ FrontKind \in {"anthropic", "openai"} /\ RepairMode \in {"on", "off"}

VARIABLES walk,     \* the CredentialWalk
          spent,    \* has the walk budget elapsed
          capped,   \* attempts at an operator-declared cap, as the ledger has it
          refused,  \* attempts nextUncappedAttempt rejected for a cap
          egressed, \* Pool429Tracker.egressed
          pc, primary, hedge, current,
          delay,    \* the hedge timer of the race
          phase, result,   \* per attempt: its fetch, and what it settled with
          aborted,  \* attempts whose AbortController fired
          lease,    \* per attempt: the breaker lease, and how it was completed
          client,   \* res.destroyed
          heads     \* response heads written
wvars == <<walk, spent, capped, refused, egressed>>
rvars == <<pc, primary, hedge, current, delay>>
avars == <<phase, result, aborted, lease>>
requestVars  == <<wvars, rvars, avars, client, heads>>

\* Statuses the walk fails over from: 401/402/403/429 with the credential, and
\* 5xx, 400, 404, 410 with the deployment.  Any other 4xx is the client's.
FailoverStatus == {"credential", "deployment"}
HttpError == FailoverStatus \cup {"client"}
Outcomes == HttpError \cup {"rejected", "local", "dead", "deadLocal", "cancelled",
                            "ready", "buffered"}

TypeOK ==
    /\ walk \in WalkType
    /\ spent \in {"no", "yes"} /\ egressed \in {"no", "yes"}
    /\ capped \subseteq Attempts /\ refused \subseteq Attempts
    /\ pc \in {"top", "race", "settled", "inspect", "respond", "repair", "done"}
    /\ {primary, hedge, current} \subseteq Attempts \cup {None}
    /\ delay \in {"off", "armed", "fired"}
    /\ phase \in [Attempts -> {"idle", "prep", "flying", "settled"}]
    /\ result \in [Attempts -> Outcomes \cup {"none"}]
    /\ aborted \subseteq Attempts
    /\ lease \in [Attempts -> {"none", "open", "succeeded", "failed", "refused",
                               "cancelled", "abandoned"}]
    /\ client \in {"here", "gone"} /\ heads \in 0..2

RequestInit ==
    /\ walk = NewWalk /\ spent = "no" /\ refused = {} /\ egressed = "no"
    /\ capped = InitiallyCapped
    /\ pc = "top" /\ primary = None /\ hedge = None /\ current = None /\ delay = "off"
    /\ phase = [a \in Attempts |-> "idle"] /\ result = [a \in Attempts |-> "none"]
    /\ aborted = {} /\ lease = [a \in Attempts |-> "none"]
    /\ client = "here" /\ heads = 0
-----------------------------------------------------------------------------
\* The walk is asked; a capped candidate is rejected and the walk asked again.
Asked(w, r) == LET n == WalkNext(w, spent)
               IN  [walk |-> n.walk, offer |-> n.offer, refused |-> r]
AskedAgain(n) == IF n.offer = None \/ n.offer \notin capped THEN n
                 ELSE Asked(RecordRejected(n.walk, n.offer), n.refused \cup {n.offer})

\* nextUncappedAttempt: offer, and reject for a cap, until a candidate is free.
NextUncapped(w) ==
    LET offered[i \in 0..Cardinality(Attempts)] ==     \* after i rejections at most
            IF i = 0 THEN Asked(w, refused)
            ELSE CHOOSE n \in {AskedAgain(m) : m \in {offered[i - 1]}} : TRUE
    IN  offered[Cardinality(Attempts)]

\* failClosed, endWalk's and respondAllCapped's answer: a head and its body, once.
Answer == heads' = IF heads = 0 THEN 1 ELSE heads
Finish == pc' = "done" /\ UNCHANGED <<primary, hedge, current, delay>>
Goto(p) == pc' = p /\ UNCHANGED <<primary, hedge, current, delay>>

\* oneShotFetch: onEgress runs only while the attempt's signal is not aborted.
MayEgress(a) == a \notin aborted

\* onEgress: begin the breaker lease and the accounting attempt, then mark the
\* walk.  recordStarted throws when the walk no longer holds the attempt, with
\* the lease already begun.
OnEgress(a, w) ==
    /\ egressed' = "yes"
    /\ lease' = [lease EXCEPT ![a] = "open"]
    /\ \/ /\ ~StartThrows(w, a)
          /\ walk' = RecordStarted(w, a)
          /\ phase' = [phase EXCEPT ![a] = "flying"] /\ UNCHANGED result
       \/ /\ StartThrows(w, a)
          /\ walk' = w
          /\ phase' = [phase EXCEPT ![a] = "settled"]
          /\ result' = [result EXCEPT ![a] = "rejected"]

\* beginAttemptRun and startAttempt: a request with documents awaits their
\* conversion before egress; any other reaches egress at once.
StartRun(a, w) ==
    \/ a \notin SlowPrep /\ OnEgress(a, w)
    \/ /\ a \in SlowPrep
       /\ walk' = w /\ phase' = [phase EXCEPT ![a] = "prep"]
       /\ UNCHANGED <<egressed, lease, result>>

Top ==
    /\ pc = "top"
    /\ UNCHANGED <<spent, capped, aborted, client>>
    /\ \/ client = "gone" /\ Finish
          /\ UNCHANGED <<walk, refused, egressed, phase, result, lease, heads>>
       \/ /\ client = "here"
          /\ \E n \in {NextUncapped(walk)} :
             /\ refused' = n.refused
             /\ \/ /\ n.offer = None /\ walk' = n.walk
                   /\ IF n.refused # {} /\ egressed = "no" THEN Answer ELSE UNCHANGED heads
                   /\ Finish /\ UNCHANGED <<egressed, phase, result, lease>>
                \/ /\ n.offer \in Misconfigured
                   /\ walk' = RecordRejected(n.walk, n.offer)
                   /\ Answer /\ Finish /\ UNCHANGED <<egressed, phase, result, lease>>
                \/ /\ n.offer \in Attempts \ Misconfigured
                   /\ StartRun(n.offer, n.walk)
                   /\ pc' = "race" /\ primary' = n.offer /\ hedge' = None
                   /\ delay' = IF MaxInFlight > 1 THEN "armed" ELSE "off"
                   /\ UNCHANGED <<current, heads>>
-----------------------------------------------------------------------------
\* attemptWon: settled with something the walk would not move on from.
Won(a) == phase[a] = "settled" /\ result[a] \in {"client", "local", "ready", "buffered"}
Lost(a) == phase[a] = "settled" /\ ~Won(a)

\* Faulty: a race that both sides lost goes on.
RaceNeedsAWin ==
    IF hedge = None THEN Won(primary) ELSE Won(primary) \/ Won(hedge)

RaceOver ==
    IF hedge = None THEN phase[primary] = "settled"
    ELSE Won(primary) \/ Won(hedge) \/ (Lost(primary) /\ Lost(hedge))

Awaiting == \/ pc \in {"inspect", "respond", "repair"}
            \/ pc = "race" /\ ~RaceOver

Racing(a) == pc = "race" /\ ~RaceOver /\ a \in {primary, hedge} \ {None}
Live(a) == Racing(a) \/ (pc \in {"inspect", "respond", "repair"} /\ a = current)

\* The document conversion of a slow attempt ends.  That of a retired hedge
\* loser ends in the background, after its race and even after the request.
Prepared(a) ==
    /\ phase[a] = "prep" /\ (Racing(a) \/ Awaiting \/ pc = "done")
    /\ UNCHANGED <<spent, capped, refused, rvars, aborted, client, heads>>
    /\ \/ MayEgress(a) /\ OnEgress(a, walk)
       \/ /\ phase' = [phase EXCEPT ![a] = "settled"]
          /\ result' = [result EXCEPT ![a] = IF a \in aborted THEN "rejected" ELSE "local"]
          /\ UNCHANGED <<walk, egressed, lease>>

\* A fetch settles.  A stream settles with its commit probe's verdict.
Settle(a) ==
    /\ Racing(a) /\ phase[a] = "flying"
    /\ \E r \in IF client = "gone" THEN {"rejected", "cancelled"}
                ELSE IF a \in aborted THEN {"rejected", "dead"}
                ELSE Outcomes \ {"local", "cancelled"} :
          result' = [result EXCEPT ![a] = r]
    /\ phase' = [phase EXCEPT ![a] = "settled"]
    /\ UNCHANGED <<wvars, rvars, aborted, lease, client, heads>>

\* The hedge timer fires before the primary settled: startHedge.
StartHedge ==
    /\ pc = "race" /\ ~RaceOver /\ delay = "armed"
    /\ delay' = "fired"
    /\ UNCHANGED <<pc, primary, current, spent, capped, aborted, client, heads>>
    /\ \/ /\ client = "gone"
          /\ UNCHANGED <<walk, refused, egressed, hedge, phase, result, lease>>
       \/ /\ client = "here"
          /\ \E n \in {NextUncapped(walk)} :
             /\ refused' = n.refused
             /\ \/ /\ n.offer \in {None, primary} /\ walk' = n.walk
                   /\ UNCHANGED <<egressed, hedge, phase, result, lease>>
                \/ /\ n.offer \in Misconfigured \ {primary}
                   /\ walk' = RecordRejected(n.walk, n.offer)
                   /\ UNCHANGED <<egressed, hedge, phase, result, lease>>
                \/ /\ n.offer \in Attempts \ (Misconfigured \cup {primary})
                   /\ StartRun(n.offer, n.walk) /\ hedge' = n.offer

\* The deadline timer of an attempt, or a watchdog of its stream.
Deadline(a) ==
    /\ Live(a) /\ phase[a] \in {"prep", "flying", "settled"} /\ a \notin aborted
    /\ aborted' = aborted \cup {a}
    /\ UNCHANGED <<wvars, rvars, phase, result, lease, client, heads>>

\* The client's socket closes: every live run's listener aborts it.
ClientLeaves ==
    /\ Awaiting /\ client = "here"
    /\ client' = "gone" /\ aborted' = aborted \cup {a \in Attempts : Live(a)}
    /\ UNCHANGED <<wvars, rvars, phase, result, lease, heads>>

\* Other requests complete, or a cap's period ends.
CapsMove ==
    /\ Awaiting
    /\ \E a \in Capable : capped' = IF a \in capped THEN capped \ {a} ELSE capped \cup {a}
    /\ UNCHANGED <<walk, spent, refused, egressed, rvars, avars, client, heads>>

BudgetElapses ==
    /\ Awaiting /\ spent = "no" /\ spent' = "yes"
    /\ UNCHANGED <<walk, capped, refused, egressed, rvars, avars, client, heads>>
-----------------------------------------------------------------------------
\* An exception out of the loop: its finally block releases an unbegun primary,
\* and the server's catch answers 502.
Throws(w) ==
    /\ walk' = w /\ Answer /\ Finish

\* Faulty: the loser is aborted and its lease forgotten.
LeaseLeftOpen(y) == lease

\* retireHedgeLoser completes the loser's lease, if it has begun one.
RetiredLease(y) ==
    IF lease[y] = "open" THEN [lease EXCEPT ![y] = "abandoned"] ELSE lease

RaceEnd ==
    /\ pc = "race" /\ RaceOver
    /\ UNCHANGED <<spent, capped, refused, egressed, phase, result, client>>
    /\ LET x == IF hedge # None /\ Won(hedge) THEN hedge ELSE primary
           y == IF x = hedge THEN primary ELSE hedge
       IN  \/ /\ hedge = None
              /\ current' = x /\ pc' = "settled"
              /\ UNCHANGED <<walk, primary, hedge, delay, aborted, lease, heads>>
           \/ /\ hedge # None
              /\ aborted' = aborted \cup {y}
              /\ lease' = RetiredLease(y)
              /\ \/ /\ lease[y] # "none" /\ RecordThrows(walk, y)
                    /\ Throws(IF lease[primary] = "none" /\ IsPending(walk, primary)
                              THEN RecordRejected(walk, primary) ELSE walk)
                 \/ /\ ~(lease[y] # "none" /\ RecordThrows(walk, y))
                    /\ walk' = IF lease[y] # "none" THEN RecordAbandoned(walk, y)
                               ELSE IF IsPending(walk, y) THEN RecordRejected(walk, y)
                               ELSE walk
                    /\ current' = x /\ pc' = "settled"
                    /\ UNCHANGED <<primary, hedge, delay, heads>>

\* endWalk: look one candidate ahead; fail over to it, or answer.
EndWalk(w, tryNext) ==
    \E n \in {IF tryNext THEN NextUncapped(w)
              ELSE [walk |-> w, offer |-> None, refused |-> refused]} :
        /\ walk' = n.walk /\ refused' = n.refused
        /\ IF n.offer # None /\ client = "here" THEN Goto("top") /\ UNCHANGED heads
           ELSE Answer /\ Finish

Complete(a, how) == lease' = [lease EXCEPT ![a] = how]

\* completeAttempt*, then walk.record, which throws if the walk let go of it.
CompleteAndRecord(x, how, kind, tryNext) ==
    /\ Complete(x, how)
    /\ \/ RecordThrows(walk, x) /\ Throws(walk) /\ UNCHANGED refused
       \/ ~RecordThrows(walk, x) /\ EndWalk(Record(walk, x, kind, "none"), tryNext)

\* The client is gone: the attempt is cancelled and nothing is written.
Cancel(x) ==
    /\ Complete(x, "cancelled")
    /\ walk' = IF RecordThrows(walk, x) THEN walk ELSE Record(walk, x, "cancelled", "none")
    /\ Finish /\ UNCHANGED <<refused, heads>>

\* The attempt never reached the provider: no lease to complete.
SettledUnbegun ==
    /\ pc = "settled" /\ lease[current] = "none"
    /\ walk' = IF IsPending(walk, current) THEN RecordRejected(walk, current) ELSE walk
    /\ IF client = "gone" THEN UNCHANGED heads ELSE Answer
    /\ Finish
    /\ UNCHANGED <<spent, capped, refused, egressed, avars, client>>

\* Faulty: whoever aborted the fetch, the deployment is charged.
ChargeAnyone(x) == CompleteAndRecord(x, "failed", "timeout", TRUE)

\* The fetch was rejected: a client that left is a cancellation, never a charge.
TransportFailure(x) ==
    IF client = "gone" THEN Cancel(x)
    ELSE CompleteAndRecord(x, "failed", IF x \in aborted THEN "timeout" ELSE "provider-transport", TRUE)

SettledFailed ==
    LET x == current IN
    /\ pc = "settled" /\ lease[x] = "open"
    /\ \/ result[x] = "rejected" /\ TransportFailure(x)
       \/ result[x] = "cancelled" /\ Cancel(x)
       \/ result[x] = "dead" /\ CompleteAndRecord(x, "failed", IF x \in aborted THEN "timeout" ELSE "protocol", TRUE)
       \/ result[x] = "deadLocal" /\ CompleteAndRecord(x, "failed", IF x \in aborted THEN "timeout" ELSE "local", FALSE)
    /\ UNCHANGED <<spent, capped, egressed, phase, result, aborted, client>>

\* A response: an error status has its body read first; a committed stream and a
\* buffered answer end the walk, except that repair decides about the latter.
SettledResponse ==
    LET x == current IN
    /\ pc = "settled" /\ lease[x] = "open"
    /\ \/ result[x] \in HttpError /\ Goto("inspect") /\ UNCHANGED <<walk, heads>>
       \/ /\ result[x] = "buffered" /\ RepairMode = "on" /\ FrontKind = "anthropic"
          /\ Goto("repair") /\ UNCHANGED <<walk, heads>>
       \/ /\ \/ result[x] = "ready"
             \/ result[x] = "buffered" /\ ~(RepairMode = "on" /\ FrontKind = "anthropic")
          /\ walk' = Record(walk, x, "success", "none")
          /\ heads' = heads + 1 /\ Goto("respond")
    /\ UNCHANGED <<spent, capped, refused, egressed, avars, client>>
-----------------------------------------------------------------------------
\* inspectCandidateResponse fails to read the body: completePostHeaderBodyFailure.
InspectFails ==
    LET x == current IN
    /\ pc = "inspect"
    /\ IF client = "gone" THEN Cancel(x)
       ELSE CompleteAndRecord(x, "failed", IF x \in aborted THEN "timeout" ELSE "protocol", TRUE)
    /\ UNCHANGED <<spent, capped, egressed, phase, result, aborted, client>>

\* The error body is read.  It may name the scope of the refusal.  The walk
\* moves on when the status allows it and a candidate is left; otherwise this
\* error is the answer.
InspectRead ==
    LET x == current IN
    /\ pc = "inspect" /\ x \notin aborted
    /\ \E scope \in IF result[x] = "credential" THEN {"none", "credential"}
                    ELSE IF result[x] = "deployment" THEN {"none", "deployment", "provider"}
                    ELSE {"none"} :
       \E w \in {Record(walk, x, result[x], scope)} :
         \E n \in {IF result[x] \in FailoverStatus /\ client = "here" THEN NextUncapped(w)
                   ELSE [walk |-> w, offer |-> None, refused |-> refused]} :
             /\ walk' = n.walk /\ refused' = n.refused
             /\ IF n.offer # None
                THEN Complete(x, "refused") /\ Goto("top") /\ UNCHANGED heads
                ELSE heads' = heads + 1 /\ Goto("respond") /\ UNCHANGED lease
    /\ UNCHANGED <<spent, capped, egressed, phase, result, aborted, client>>

\* An error status is the answer: its body, already read, is written.
RespondError ==
    /\ pc = "respond" /\ result[current] \in HttpError
    /\ Complete(current, IF client = "gone" /\ FrontKind = "anthropic" THEN "cancelled"
                         ELSE "refused")
    /\ Finish
    /\ UNCHANGED <<wvars, phase, result, aborted, client, heads>>

\* An answer is copied to its end; its tool calls may turn out to be invalid.
RespondEnds ==
    /\ pc = "respond" /\ result[current] \notin HttpError
    /\ client = "here" /\ current \notin aborted
    /\ \E how \in {"succeeded", "refused"} : Complete(current, how)
    /\ Finish
    /\ UNCHANGED <<wvars, phase, result, aborted, client, heads>>

\* It breaks off, by itself or by a watchdog: handleMidStreamError.
RespondBreaks ==
    /\ pc = "respond" /\ result[current] \notin HttpError /\ client = "here"
    /\ Complete(current, "failed")
    /\ Finish
    /\ UNCHANGED <<wvars, phase, result, aborted, client, heads>>

\* Its client left: the copy stops at the next chunk.
RespondGone ==
    /\ pc = "respond" /\ result[current] \notin HttpError /\ client = "gone"
    /\ Complete(current, "cancelled")
    /\ Finish
    /\ UNCHANGED <<wvars, phase, result, aborted, client, heads>>

\* repairBufferedPath: the body is read whole and its tool calls validated.
RepairAnswers ==
    LET x == current IN
    /\ pc = "repair" /\ client = "here"
    /\ \/ /\ Complete(x, "failed") /\ walk' = Record(walk, x, "local", "none")   \* unread
       \/ /\ x \notin aborted /\ Complete(x, "refused")                          \* unusable
          /\ walk' = Record(walk, x, "local", "none")
       \/ /\ x \notin aborted /\ Complete(x, "succeeded")
          /\ walk' = Record(walk, x, "success", "none")
    /\ Answer /\ Finish
    /\ UNCHANGED <<spent, capped, refused, egressed, phase, result, aborted, client>>

\* The client left while the body was read, or while the reshaper worked on a
\* tool call already found invalid; the walk records a cancellation either way.
RepairCancelled ==
    /\ pc = "repair" /\ client = "gone"
    /\ \E how \in {"cancelled", "refused"} : Complete(current, how)
    /\ walk' = Record(walk, current, "cancelled", "none")
    /\ Finish
    /\ UNCHANGED <<refused, heads>>
    /\ UNCHANGED <<spent, capped, egressed, phase, result, aborted, client>>

\* Repair gave up: nothing has been written, so the next candidate may answer.
RepairDeadTurn ==
    /\ pc = "repair"
    /\ CompleteAndRecord(current, "refused", "protocol", client = "here")
    /\ UNCHANGED <<spent, capped, egressed, phase, result, aborted, client>>

Done == pc = "done" /\ UNCHANGED requestVars

\* What the relay, its timers and the providers do.
Progress ==
    \/ Top \/ StartHedge \/ RaceEnd
    \/ SettledUnbegun \/ SettledFailed \/ SettledResponse
    \/ InspectFails \/ InspectRead
    \/ RespondError \/ RespondEnds \/ RespondBreaks \/ RespondGone
    \/ RepairAnswers \/ RepairCancelled \/ RepairDeadTurn
    \/ \E a \in Attempts : Prepared(a) \/ Settle(a) \/ Deadline(a)

RequestNext == Progress \/ ClientLeaves \/ CapsMove \/ BudgetElapses \/ Done

RequestSpec == RequestInit /\ [][RequestNext]_requestVars /\ WF_requestVars(Progress)
-----------------------------------------------------------------------------
\* A request whose client is still there ends with exactly one response head:
\* no path of the loop falls out of it silently, and none answers twice.
AlwaysAnswered == pc = "done" /\ client = "here" => heads = 1

\* When the request is over every breaker lease it began has been completed,
\* the hedge loser's too, and no conversion finishing late opens another.
LeasesReturned == pc = "done" => \A a \in Attempts : lease[a] # "open"

\* A request that is over was answered and holds nothing.
WalkIsSettled == AlwaysAnswered /\ LeasesReturned

\* Nothing is sent to a provider for an answer that has begun, for a client that
\* has left or for a walk that has stopped.
NoStartOnceSettled ==
    [][(\E a \in Attempts : lease[a] = "none" /\ lease'[a] = "open")
          => heads = 0 /\ client = "here" /\ walk.stopped = "no"]_requestVars

\* The walk is breadth first: no deployment is tried with a second credential
\* before every deployment whose provider is reachable has had its turn.
BreadthFirst ==
    [][\A g \in GroupIds : \A i, j \in DOMAIN Groups[g] :
          /\ j < i /\ lease[Groups[g][j]] # "none"
          /\ lease[Groups[g][i]] = "none" /\ lease'[Groups[g][i]] = "open"
          => \A h \in GroupIds : walk'.cursor[h] > 0
                                 \/ Provider[h] \in walk.badProviders]_requestVars

\* Candidates are started while the request is undecided, and every deployment before any
\* spare credential.
StartsAreOrderly == NoStartOnceSettled /\ BreadthFirst

\* A client that has left is never charged to a deployment as a failure, unless
\* the deployment's own stream was found dead before it left.
GoneClientNotCharged ==
    [][\A a \in Attempts :
          lease[a] = "open" /\ lease'[a] = "failed" => client = "here" \/ result[a] \in {"dead", "deadLocal"}]_requestVars

\* A candidate the walk refuses for its hard cap spends nothing: no lease.
CappedSpendsNothing == \A a \in refused : lease[a] = "none"

\* Every request comes to an end.
Ends == <>(pc = "done")
=============================================================================
