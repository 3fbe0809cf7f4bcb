----------------------------- MODULE AttemptProofs -----------------------------
(***************************************************************************)
(* Proofs about one attempt of a request and about what the ledger says of *)
(* the request, for any front, wire, number of attempts and credentials,   *)
(* and any order of answers, deadlines and departures: an attempt is       *)
(* charged once and to the side whose doing its failure was, and the entry *)
(* of the request is made exactly when it must be and says what happened.  *)
(* Last, about what refusals mean and leave: the operator's accepted words *)
(* hold, however the daemon and the operator's command share the file of   *)
(* them, what is known of a target is said and unsaid as it should be, and *)
(* whatever is known, ordering leaves out no deployment that would do.     *)
(***************************************************************************)
EXTENDS BackendCall, RequestAccounting, TargetFacts, RequestRouting,
        FiniteSetTheorems, WellFoundedInduction, TLAPS

(***************************************************************************)
(* The charge of one attempt.                                              *)
(***************************************************************************)

CallShapes == [front : CallFronts, wire : Wires, stream : BOOLEAN, tools : BOOLEAN, asksUsage : BOOLEAN]
Replies == [status : {0, 200, 400, 429, 500, 502}, origin : {"none", "local", "upstream"},
            body : {"none", "error", "stream", "buffered"}]
BeforeStages == {"translate", "documents", "map"}
EgressStages == {"sent", "preflight", "body", "mapBack", "frontBack"}

CallTypes ==
    /\ call \in CallShapes
    /\ stage \in BeforeStages \cup EgressStages
                 \cup {"send", "rejected", "errorBody", "bodyFailed", "answered", "streaming", "done"}
    /\ signal \in {"live", "deadline", "gone"}
    /\ posts \in Nat
    /\ leases \in {0, 1}
    /\ reply \in Replies
    /\ fault \in {"none", "caller", "relay", "upstream"}

\* A lease is begun with the first request sent, and charged when the attempt is done.
LeaseFollowsTheStage ==
    /\ leases = 1 => posts > 0
    /\ stage \in BeforeStages => leases = 0
    /\ stage \in EgressStages \cup {"errorBody", "bodyFailed", "streaming"} => leases = 1
    /\ stage # "done" => charges = <<>>
    /\ charges # <<>> => leases = 1
    /\ stage = "done" /\ leases = 1 => charges # <<>>

\* Until something fails nobody is at fault.  What failed after egress while the
\* client waited is whose doing the reply says it is.
FaultFollowsTheStage ==
    /\ stage \in BeforeStages \cup EgressStages \cup {"send", "streaming"} => fault = "none"
    /\ stage = "errorBody" => fault = "upstream"
    /\ leases = 1 => fault # "caller"
    /\ signal = "live" /\ leases = 1 /\ stage \in {"rejected", "bodyFailed"} => fault = "upstream"
    /\ stage = "errorBody" => reply.body = "error" /\ reply.origin = "upstream" /\ reply.status # 200
    /\ stage = "answered" =>
          \/ /\ reply.body = "error" /\ reply.status # 200
             /\ leases = 1 /\ signal = "live" =>
                   \/ reply.origin = "upstream" /\ fault = "upstream"
                   \/ reply.origin = "local" /\ fault = "relay"
          \/ reply.body \in {"stream", "buffered"} /\ reply.status = 200 /\ fault = "none" /\ leases = 1

CallInv == CallTypes /\ LeaseFollowsTheStage /\ FaultFollowsTheStage /\ ChargeNamesTheAuthor

-----------------------------------------------------------------------------
LEMMA CallStarts == CallInit => CallInv
    BY DEF CallInit, CallInv, CallTypes, CallShapes, Replies, NoReply, BeforeStages, EgressStages, LeaseFollowsTheStage,
           FaultFollowsTheStage, ChargeNamesTheAuthor

\* The relay's own refusals before egress are charged to nobody: no lease was begun.
LEMMA BeforeEgressIsSound ==
    ASSUME CallInv, TranslateFront \/ TranscodeDocuments \/ MapToChat \/ MapToResponses
    PROVE  CallInv'
  <1>1. /\ stage \in BeforeStages /\ UNCHANGED <<call, signal, posts, leases, charges, recorded, walksOn>>
        /\ \/ stage' \in {"documents", "map", "send"} /\ UNCHANGED <<reply, fault>>
           \/ /\ \E status \in {400, 502} : reply' = [status |-> status, origin |-> "local", body |-> "error"]
              /\ stage' = "answered" /\ fault' \in {fault, "caller", "relay"}
        BY DEF TranslateFront, TranscodeDocuments, MapToChat, MapToResponses, Mapped, BeforeEgress,
               RefusedBeforeEgress, ReplyIs, Blame, Refusal, BeforeStages
  <1>2. leases = 0 /\ charges = <<>> /\ leases' = 0 /\ charges' = <<>> /\ fault = "none"
        BY <1>1 DEF CallInv, LeaseFollowsTheStage, FaultFollowsTheStage, BeforeStages, EgressStages
  <1>3. CallTypes'
        BY <1>1 DEF CallInv, CallTypes, Replies, BeforeStages
  <1>4. LeaseFollowsTheStage'
        BY <1>1, <1>2 DEF LeaseFollowsTheStage, EgressStages
  <1>5. FaultFollowsTheStage'
        BY <1>1, <1>2 DEF FaultFollowsTheStage, BeforeStages, EgressStages
  <1>6. ChargeNamesTheAuthor'
        BY <1>2 DEF ChargeNamesTheAuthor
  <1> QED BY <1>3, <1>4, <1>5, <1>6 DEF CallInv

\* The first request sent begins the lease; a request sent again does not.
LEMMA EgressIsSound ==
    ASSUME CallInv, Send \/ TransportFails \/ ErrorStatus \/ ReadErrorBody \/ Succeeds
    PROVE  CallInv'
  <1>1. charges = <<>> /\ charges' = <<>> /\ stage' # "done" /\ call' = call /\ signal' = signal
        BY DEF Send, TransportFails, ErrorStatus, ReadErrorBody, Succeeds, CallInv, LeaseFollowsTheStage
  <1>2. ChargeNamesTheAuthor'
        BY <1>1 DEF ChargeNamesTheAuthor
  <1> USE DEF CallTypes, LeaseFollowsTheStage, FaultFollowsTheStage, BeforeStages, EgressStages
  <1>3. CASE Send
    <2>1. /\ stage = "send" /\ fault = "none" /\ fault' = "none" /\ reply' = reply
          /\ \/ stage' = "sent" /\ leases' = 1 /\ posts' = posts + 1
             \/ stage' = "rejected" /\ leases' = leases /\ posts' = posts /\ (signal # "live" \/ posts = 0)
          BY <1>3 DEF Send, BeginsAttempt, Aborted, CallInv
    <2> QED BY <1>1, <1>2, <2>1 DEF CallInv
  <1>4. CASE TransportFails
    <2>1. /\ stage = "sent" /\ stage' = "rejected" /\ UNCHANGED <<posts, leases, reply>>
          /\ fault' = IF signal # "live" THEN fault ELSE IF fault = "none" THEN "upstream" ELSE fault
          BY <1>4 DEF TransportFails, Aborted, Blame
    <2> QED BY <1>1, <1>2, <2>1 DEF CallInv
  <1>5. CASE ErrorStatus
    <2>1. PICK status \in {400, 429, 500} :
             /\ stage = "sent" /\ signal = "live" /\ posts' = posts /\ leases' = leases
             /\ \/ stage' = "send" /\ reply' = reply /\ fault' = fault
                \/ /\ stage' = "errorBody" /\ fault' = IF fault = "none" THEN "upstream" ELSE fault
                   /\ reply' = [status |-> status, origin |-> "upstream", body |-> "error"]
          BY <1>5 DEF ErrorStatus, Aborted, Blame, Refusal
    <2>2. reply' = reply \/ (reply' \in Replies /\ reply'.body = "error" /\ reply'.origin = "upstream"
                             /\ reply'.status # 200)
          BY <2>1 DEF Replies
    <2> QED BY <1>1, <1>2, <2>1, <2>2 DEF CallInv
  <1>6. CASE ReadErrorBody
    <2>1. /\ stage = "errorBody" /\ UNCHANGED <<posts, leases, reply, fault>>
          /\ stage' \in {"answered", "bodyFailed"}
          BY <1>6 DEF ReadErrorBody
    <2> QED BY <1>1, <1>2, <2>1 DEF CallInv
  <1>7. CASE Succeeds
    <2>1. /\ stage = "sent" /\ UNCHANGED <<posts, leases, reply, fault>> /\ stage' \in {"preflight", "body"}
          BY <1>7 DEF Succeeds
    <2> QED BY <1>1, <1>2, <2>1 DEF CallInv
  <1> QED BY <1>3, <1>4, <1>5, <1>6, <1>7

\* The translations on the way back keep the origin of a failure.
LEMMA EnvelopeIsSound ==
    ASSUME CallInv,
           \/ PreflightFails \/ PreflightPasses \/ BodyBreaks \/ BodyInvalid \/ BodyValid
           \/ AnthropicAnswer \/ DirectAnswer \/ ChatAnswer \/ ResponsesAnswer \/ TranslateAnswer
    PROVE  CallInv'
  <1> DEFINE delivered == [status |-> 200, origin |-> "none", body |-> IF call.stream THEN "stream" ELSE "buffered"]
             turnedDown(origin) == [status |-> 502, origin |-> origin, body |-> "error"]
             blamed(who) == IF fault = "none" THEN who ELSE fault
  <1>1. /\ stage \in EgressStages /\ UNCHANGED <<call, signal, posts, leases, charges, recorded, walksOn>>
        /\ \/ stage' = "mapBack" /\ UNCHANGED <<reply, fault>>
           \/ stage' = "bodyFailed" /\ UNCHANGED reply
              /\ fault' = IF signal # "live" THEN fault ELSE blamed("upstream")
           \/ stage' \in {"frontBack", "answered"} /\ reply' = delivered /\ UNCHANGED fault
           \/ stage' = "answered" /\ reply' = turnedDown("upstream")
              /\ fault' = IF signal # "live" THEN fault ELSE blamed("upstream")
           \/ stage' = "answered" /\ reply' = turnedDown("upstream") /\ fault' = blamed("upstream")
           \/ stage' = "answered" /\ reply' = turnedDown("local") /\ fault' = blamed("relay")
        BY DEF PreflightFails, PreflightPasses, BodyBreaks, BodyInvalid, BodyValid, AnthropicAnswer, DirectAnswer,
               ChatAnswer, ResponsesAnswer, TranslateAnswer, PassesOn, MapperFails, RecoversCall, InEnvelope,
               ReplyIs, Blame, Refusal, Delivered, Aborted, EgressStages
  <1>2. leases = 1 /\ charges = <<>> /\ fault = "none" /\ leases' = 1 /\ charges' = <<>>
        BY <1>1 DEF CallInv, LeaseFollowsTheStage, FaultFollowsTheStage, EgressStages
  <1>3. /\ delivered \in Replies /\ delivered.status = 200 /\ delivered.body \in {"stream", "buffered"}
        /\ turnedDown("upstream") \in Replies /\ turnedDown("upstream").origin = "upstream"
        /\ turnedDown("upstream").body = "error" /\ turnedDown("upstream").status = 502
        /\ turnedDown("local") \in Replies /\ turnedDown("local").origin = "local"
        /\ turnedDown("local").body = "error" /\ turnedDown("local").status = 502
        BY DEF Replies
  <1> HIDE DEF delivered, turnedDown
  <1>4. CallTypes'
        BY <1>1, <1>2, <1>3 DEF CallInv, CallTypes, EgressStages
  <1>5. LeaseFollowsTheStage'
        BY <1>1, <1>2 DEF CallInv, LeaseFollowsTheStage, BeforeStages, EgressStages
  <1>6. FaultFollowsTheStage'
        BY <1>1, <1>2, <1>3 DEF CallInv, FaultFollowsTheStage, BeforeStages, EgressStages
  <1>7. ChargeNamesTheAuthor'
        BY <1>2 DEF ChargeNamesTheAuthor
  <1> QED BY <1>4, <1>5, <1>6, <1>7 DEF CallInv

-----------------------------------------------------------------------------
\* What a charge must say of the failure it is for, while the client waits.
Names(provenance, who, tries) ==
    /\ who = "none" => provenance = "success"
    /\ who = "upstream" => provenance \in {"upstream", "invalid-upstream-envelope"}
                                       \cup (IF RelayWritesFrames THEN {"success"} ELSE {})
    /\ who = "relay" /\ ~Misattributed => provenance = "relay-mapper-defect" /\ ~tries
    /\ who # "caller"

\* An attempt that began ends with one charge that names the author of its failure.
LEMMA ChargingIsSound ==
    ASSUME CallInv, stage # "done", leases = 1, stage' = "done",
           UNCHANGED <<call, signal, posts, leases, reply>>, NEW provenance,
           charges' = (IF charges = <<>> THEN <<provenance>> ELSE charges),
           fault' \in {"none", "caller", "relay", "upstream"}, fault' # "caller",
           signal = "live" => Names(provenance, fault', walksOn')
    PROVE  CallInv'
  <1>1. charges' = <<provenance>> /\ charges' # <<>> /\ charges'[1] = provenance
        BY DEF CallInv, LeaseFollowsTheStage
  <1>2. CallTypes' /\ LeaseFollowsTheStage' /\ FaultFollowsTheStage'
        BY <1>1 DEF CallInv, CallTypes, LeaseFollowsTheStage, FaultFollowsTheStage, BeforeStages, EgressStages
  <1>3. RelayWritesFrames' = RelayWritesFrames /\ Misattributed' = Misattributed
        BY DEF RelayWritesFrames, FrontTranslates, WireTranslates, Direct, Kind, Misattributed
  <1>4. ChargeNamesTheAuthor'
        BY <1>1, <1>3, Zenon DEF ChargeNamesTheAuthor, Names
  <1> QED BY <1>2, <1>4 DEF CallInv

\* The ends of an attempt without an answer, and those with an error status.
LEMMA FailuresAreSound ==
    ASSUME CallInv, NeverBegan \/ TransportFailed \/ BodyFailed \/ RespondStatus PROVE CallInv'
  <1>1. fault \in {"none", "caller", "relay", "upstream"} /\ (leases = 1 => fault # "caller")
        BY DEF CallInv, CallTypes, FaultFollowsTheStage
  <1>2. CASE NeverBegan
    <2>1. leases = 0 /\ stage' = "done" /\ charges = <<>> /\ charges' = <<>>
          /\ UNCHANGED <<call, signal, posts, leases, reply, fault, walksOn>>
          BY <1>2 DEF NeverBegan, AtFront, CallInv, LeaseFollowsTheStage
    <2> QED BY <2>1 DEF CallInv, CallTypes, LeaseFollowsTheStage, FaultFollowsTheStage, BeforeStages, EgressStages,
                        ChargeNamesTheAuthor
  <1>3. CASE TransportFailed
    <2>1. PICK p : p = Charged("upstream")
          OBVIOUS
    <2>2. /\ stage = "rejected" /\ leases = 1 /\ stage' = "done" /\ fault' = fault
          /\ UNCHANGED <<call, signal, posts, leases, reply>>
          /\ charges' = IF charges = <<>> THEN <<p>> ELSE charges
          BY <1>3, <2>1 DEF TransportFailed, Settles, Complete_, AtFront
    <2>3. signal = "live" => p = "upstream" /\ fault = "upstream"
          BY <2>1, <2>2 DEF Charged, Aborted, CallInv, FaultFollowsTheStage
    <2> QED BY <1>1, <2>2, <2>3, ChargingIsSound DEF Names
  <1>4. CASE BodyFailed
    <2>1. PICK p : p = Charged("invalid-upstream-envelope")
          OBVIOUS
    <2>2. /\ stage = "bodyFailed" /\ leases = 1 /\ stage' = "done" /\ fault' = fault
          /\ UNCHANGED <<call, signal, posts, leases, reply>>
          /\ charges' = IF charges = <<>> THEN <<p>> ELSE charges
          BY <1>4, <2>1 DEF BodyFailed, Settles, Complete_, AtFront, CallInv, LeaseFollowsTheStage
    <2>3. signal = "live" => p = "invalid-upstream-envelope" /\ fault = "upstream"
          BY <2>1, <2>2 DEF Charged, Aborted, CallInv, FaultFollowsTheStage
    <2> QED BY <1>1, <2>2, <2>3, ChargingIsSound DEF Names
  <1>5. CASE RespondStatus
    <2>1. PICK p : p = IF call.front = "messages" /\ signal = "gone" THEN "client-cancellation" ELSE HttpProvenance
          OBVIOUS
    <2>2. /\ stage = "answered" /\ leases = 1 /\ reply.status # 200 /\ stage' = "done" /\ fault' = fault
          /\ UNCHANGED <<call, signal, posts, leases, reply>>
          /\ charges' = IF charges = <<>> THEN <<p>> ELSE charges
          /\ walksOn' => ShouldTryNext(reply)
          BY <1>5, <2>1 DEF RespondStatus, Settles, Complete_, AtFront
    <2>3. signal = "live" => \/ reply.origin = "upstream" /\ fault = "upstream"
                             \/ reply.origin = "local" /\ fault = "relay"
          BY <2>2 DEF CallInv, FaultFollowsTheStage
    <2>4. signal = "live" => p = IF reply.origin = "local" THEN "relay-mapper-defect" ELSE "upstream"
          BY <2>1 DEF HttpProvenance
    <2>5. signal = "live" /\ fault = "relay" => p = "relay-mapper-defect" /\ ~walksOn'
          BY <2>2, <2>3, <2>4 DEF ShouldTryNext
    <2> QED BY <1>1, <2>2, <2>3, <2>4, <2>5, ChargingIsSound DEF Names
  <1> QED BY <1>2, <1>3, <1>4, <1>5

\* A frame that is no event is held against whoever wrote it, but for the one
\* route where the relay has it wrong.
LEMMA FramesHaveAnAuthor ==
    ASSUME CallInv
    PROVE  /\ MalformedProvenance \in {"upstream", "local"}
           /\ ~RelayWritesFrames => MalformedProvenance = "upstream"
           /\ RelayWritesFrames /\ ~Misattributed => MalformedProvenance = "local"
  <1>1. call.front \in CallFronts /\ call.wire \in Wires
        BY DEF CallInv, CallTypes, CallShapes
  <1> QED BY <1>1 DEF MalformedProvenance, RelayWritesFrames, FrontTranslates, WireTranslates, Direct, Kind,
                      Misattributed, CallFronts, Wires

\* A stream that dies before its first content is charged to whoever made it die.
LEMMA DyingIsSound ==
    ASSUME CallInv, stage = "answered", reply.body = "stream", AtFront,
           NEW provenance \in {"upstream", "local"}, NEW who \in {"upstream", "relay"}, Dies(provenance, who),
           who = "upstream" => provenance = "upstream",
           who = "relay" /\ ~Misattributed => provenance = "local"
    PROVE  CallInv'
  <1>1. fault = "none" /\ leases = 1
        BY DEF CallInv, FaultFollowsTheStage
  <1>2. PICK p : p = Charged(IF provenance = "local" THEN "relay-mapper-defect" ELSE "invalid-upstream-envelope")
        OBVIOUS
  <1>3. /\ stage' = "done" /\ UNCHANGED <<call, signal, posts, leases, reply>>
        /\ charges' = IF charges = <<>> THEN <<p>> ELSE charges
        /\ walksOn' => provenance = "upstream"
        /\ fault' = IF Aborted THEN fault ELSE who
        BY <1>1, <1>2 DEF Dies, Settles, Complete_, AtFront, Blame
  <1>4. signal = "live" => /\ p = IF provenance = "local" THEN "relay-mapper-defect" ELSE "invalid-upstream-envelope"
                           /\ fault' = who
        BY <1>2, <1>3 DEF Charged, Aborted
  <1>5. fault' \in {"none", "upstream", "relay"}
        BY <1>1, <1>3
  <1> QED BY <1>1, <1>3, <1>4, <1>5, ChargingIsSound DEF Names

\* A stream and a buffered answer, to their end.
LEMMA AnswersAreSound ==
    ASSUME CallInv, ProbeDies \/ ProbeReady \/ StreamEnds \/ RespondBuffered PROVE CallInv'
  <1>1. CASE ProbeDies
    <2>1. stage = "answered" /\ reply.body = "stream" /\ AtFront
          BY <1>1 DEF ProbeDies
    <2>2. PICK author : author = IF RelayWritesFrames THEN "relay" ELSE "upstream"
          OBVIOUS
    <2>3. \/ Dies("upstream", "upstream") \/ Dies("local", "relay")
          \/ Dies(MalformedProvenance, author)
          BY <1>1, <2>2 DEF ProbeDies
    <2>4. CASE Dies(MalformedProvenance, author)
          BY <2>1, <2>2, <2>4, FramesHaveAnAuthor, DyingIsSound
    <2> QED BY <2>1, <2>3, <2>4, DyingIsSound
  <1>2. CASE ProbeReady
    <2>1. /\ stage = "answered" /\ reply.body = "stream" /\ stage' = "streaming"
          /\ UNCHANGED <<call, signal, posts, leases, charges, reply, fault>>
          BY <1>2 DEF ProbeReady, AtFront
    <2> QED BY <2>1 DEF CallInv, CallTypes, LeaseFollowsTheStage, FaultFollowsTheStage, BeforeStages, EgressStages,
                        ChargeNamesTheAuthor
  <1>3. CASE StreamEnds
    <2>1. /\ stage = "streaming" /\ leases = 1 /\ fault = "none" /\ stage' = "done"
          /\ UNCHANGED <<call, signal, posts, leases, reply>>
          BY <1>3 DEF StreamEnds, AtFront, CallInv, LeaseFollowsTheStage, FaultFollowsTheStage
    <2>2. \/ signal = "live" /\ Complete_("success") /\ fault' = "none"
          \/ /\ IF RelayWritesFrames THEN EndsNormally ELSE Breaks
             /\ fault' = IF Aborted THEN "none" ELSE "upstream"
          \/ Complete_("invalid-upstream-envelope") /\ fault' = "upstream"
          BY <1>3, <2>1 DEF StreamEnds, Blame, Aborted
    <2>3. PICK p : /\ charges' = IF charges = <<>> THEN <<p>> ELSE charges
                   /\ signal = "live" =>
                         \/ p = "success" /\ fault' = "none"
                         \/ p = "success" /\ fault' = "upstream" /\ RelayWritesFrames
                         \/ p \in {"upstream", "invalid-upstream-envelope"} /\ fault' = "upstream"
          BY <2>2 DEF Complete_, EndsNormally, Breaks, Charged, Aborted
    <2>4. fault' \in {"none", "upstream"}
          BY <2>2
    <2> QED BY <2>1, <2>3, <2>4, ChargingIsSound DEF Names
  <1>4. CASE RespondBuffered
    <2>1. /\ stage = "answered" /\ reply.body = "buffered" /\ leases = 1 /\ stage' = "done"
          /\ UNCHANGED <<call, signal, posts, leases, reply>>
          BY <1>4 DEF RespondBuffered, AtFront
    <2>2. fault = "none"
          BY <2>1 DEF CallInv, FaultFollowsTheStage
    <2>3. \/ EndsNormally /\ fault' = "none"
          \/ Complete_("invalid-upstream-envelope") /\ fault' = "upstream"
          BY <1>4, <2>2 DEF RespondBuffered, Blame
    <2>4. PICK p : /\ charges' = IF charges = <<>> THEN <<p>> ELSE charges
                   /\ signal = "live" => \/ p = "success" /\ fault' = "none"
                                         \/ p = "invalid-upstream-envelope" /\ fault' = "upstream"
          BY <2>3 DEF Complete_, EndsNormally, Aborted
    <2>5. fault' \in {"none", "upstream"}
          BY <2>3
    <2> QED BY <2>1, <2>4, <2>5, ChargingIsSound DEF Names
  <1> QED BY <1>1, <1>2, <1>3, <1>4

\* A deadline and a departure only take away what is known while the client waits.
LEMMA InterruptionsAreSound ==
    ASSUME CallInv, DeadlinePasses \/ ClientGoes PROVE CallInv'
  <1>1. /\ signal' \in {"deadline", "gone"} /\ stage # "done"
        /\ UNCHANGED <<call, stage, posts, leases, charges, reply, recorded, walksOn, fault>>
        BY DEF DeadlinePasses, ClientGoes
  <1> QED BY <1>1 DEF CallInv, CallTypes, LeaseFollowsTheStage, FaultFollowsTheStage, ChargeNamesTheAuthor

LEMMA CallStep == CallInv /\ [CallNext]_callVars => CallInv'
  <1> SUFFICES ASSUME CallInv, [CallNext]_callVars PROVE CallInv'
      OBVIOUS
  <1>1. CASE UNCHANGED callVars
    <2>1. UNCHANGED <<call, stage, signal, posts, leases, charges, reply, recorded, walksOn, fault>>
          BY <1>1 DEF callVars
    <2>2. RelayWritesFrames' = RelayWritesFrames /\ Misattributed' = Misattributed
          BY <2>1 DEF RelayWritesFrames, FrontTranslates, WireTranslates, Direct, Kind, Misattributed
    <2>3. ChargeNamesTheAuthor'
          BY <2>1, <2>2, Zenon DEF CallInv, ChargeNamesTheAuthor
    <2> QED BY <2>1, <2>3 DEF CallInv, CallTypes, LeaseFollowsTheStage, FaultFollowsTheStage
  <1> QED BY <1>1, BeforeEgressIsSound, EgressIsSound, EnvelopeIsSound, FailuresAreSound, AnswersAreSound,
             InterruptionsAreSound, Zenon DEF CallNext

\* However often a body is sent, translated and refused, an attempt is charged at
\* most once, exactly when it began, and to the side whose doing its failure was:
\* for every front, wire and order of events.
THEOREM CallsAreChargedOnce == CallSpec => []CallIsChargedOnce
  <1>1. CallInv => CallIsChargedOnce
        BY DEF CallInv, CallTypes, LeaseFollowsTheStage, CallIsChargedOnce, OneLeaseOneCharge
  <1> QED BY <1>1, CallStarts, CallStep, PTL DEF CallSpec

-----------------------------------------------------------------------------
(***************************************************************************)
(* The ledger entry of one request.                                        *)
(***************************************************************************)

Terminals == [outcome : Outcomes \cup {"none"}, winner : 0 .. started, attemptCount : Nat,
              attribution : Attributions \cup {"unknown"}]

\* The types, with that of the entry.
EntryTypes == AccountingTypes /\ terminal \in Terminals

\* The active attempts are those that were started and have not ended.
ActiveIsOpen ==
    \A a \in Attempts : /\ a \in active <=> a <= started /\ attempts[a].outcome = "none"
                        /\ a > started => attempts[a].role = "none"

\* What is committed serves, and is called off only when its client has gone.
CommittedServes ==
    commitAttempt # Nobody =>
        /\ attempts[commitAttempt].role = "serve"
        /\ response # "destroyed" => attempts[commitAttempt].outcome # "cancelled"

\* A request is finalized once its response is over, with nothing left active; an entry is made then and not
\* before, and a response that was delivered has one.
FinalIsOver ==
    /\ finalized = "yes" => responseTerminal # "none" /\ active = {}
    /\ Recorded => finalized = "yes" /\ terminal.attemptCount = started
    /\ responseTerminal = "finished" => Recorded

EntryInv == /\ EntryTypes /\ ActiveIsOpen /\ CommittedServes /\ FinalIsOver
            /\ LedgerNamesTheServer

-----------------------------------------------------------------------------
\* A set of naturals that is not empty has a least element.
LEMMA LeastNatural ==
    ASSUME NEW S \in SUBSET Nat, S # {}
    PROVE  \E n \in S : \A m \in S : n <= m
  <1> DEFINE Less == {ss \in Nat \X Nat : ss[1] < ss[2]}
  <1>1. IsWellFoundedOn(Less, Nat)
        BY NatLessThanWellFounded, Zenon DEF OpToRel
  <1>2. PICK n \in S : \A m \in S : ~(<<m, n>> \in Less)
        BY <1>1, WFMin
  <1>3. ASSUME NEW m \in S PROVE n <= m
    <2>1. <<m, n>> \in Nat \X Nat /\ <<m, n>>[1] = m /\ <<m, n>>[2] = n
          OBVIOUS
    <2> QED BY <1>2, <2>1
  <1> QED BY <1>3

\* A set of attempts that is not empty has a first one.
LEMMA FirstIsAMember == ASSUME NEW S \in SUBSET Attempts, S # {} PROVE First(S) \in S
  <1>1. S \in SUBSET Nat
        BY AttemptAssumption DEF Attempts
  <1>2. PICK n \in S : \A m \in S : n <= m
        BY <1>1, LeastNatural
  <1> QED BY <1>2 DEF First

\* And a last one: the first, counted from the other end.
LEMMA LatestIsAMember == ASSUME NEW S \in SUBSET Attempts, S # {} PROVE Latest(S) \in S
  <1>1. S \in SUBSET (1 .. MaxAttempts) /\ MaxAttempts \in Nat
        BY AttemptAssumption DEF Attempts
  <1> DEFINE back == {MaxAttempts - n : n \in S}
  <1>2. ASSUME NEW n \in S PROVE MaxAttempts - n \in Nat
        BY <1>1
  <1>3. back \in SUBSET Nat /\ back # {}
        BY <1>2
  <1>4. PICK k \in back : \A m \in back : k <= m
        BY <1>3, LeastNatural
  <1>5. PICK n \in S : k = MaxAttempts - n
        OBVIOUS
  <1>6. ASSUME NEW m \in S PROVE m <= n
    <2>1. k <= MaxAttempts - m
          BY <1>4
    <2> QED BY <1>1, <1>5, <2>1
  <1> QED BY <1>6 DEF Latest

\* At the start there is no attempt and no entry.
LEMMA AccountingStarts == AccountingInit => EntryInv
    BY AttemptAssumption
       DEF AccountingInit, EntryInv, EntryTypes, AccountingTypes, AttemptStates, NotStarted, Terminals, NoTerminal,
           ActiveIsOpen, CommittedServes, FinalIsOver, LedgerNamesTheServer, SuccessWasServed,
           CommittedServeIsAuthoritative, Recorded, Nobody, Attempts

\* What a step may make of the attempts: it ends some of those that were active.
Ends(objects, remaining) ==
    /\ objects \in [Attempts -> AttemptStates] /\ remaining \subseteq active
    /\ \A a \in Attempts : /\ objects[a].role = attempts[a].role
                           /\ objects[a].attribution = attempts[a].attribution
                           /\ a \in remaining <=> a <= started /\ objects[a].outcome = "none"

\* The attempts a finished response leaves behind end with it.
LEMMA LeftBehindEnds ==
    ASSUME EntryInv, NEW objects, NEW remaining, Ends(objects, remaining)
    PROVE  /\ LeftBehind(objects) \in [Attempts -> AttemptStates]
           /\ \A a \in Attempts :
                /\ LeftBehind(objects)[a].role = objects[a].role
                /\ LeftBehind(objects)[a].attribution = objects[a].attribution
                /\ a <= started => LeftBehind(objects)[a].outcome # "none"
                /\ LeftBehind(objects)[a].outcome = IF a \in remaining THEN "error" ELSE objects[a].outcome
  <1> DEFINE after(a) == IF a \in active /\ ~Completed(objects, a)
                           THEN [objects[a] EXCEPT !.outcome = "error"] ELSE objects[a]
  <1>1. ASSUME NEW a \in Attempts
        PROVE  /\ after(a) \in AttemptStates /\ after(a).role = objects[a].role
               /\ after(a).attribution = objects[a].attribution
               /\ a <= started => after(a).outcome # "none"
               /\ after(a).outcome = IF a \in remaining THEN "error" ELSE objects[a].outcome
    <2>1. objects[a] \in AttemptStates
          BY DEF Ends
    <2>2. [objects[a] EXCEPT !.outcome = "error"] \in AttemptStates
          BY <2>1 DEF AttemptStates, Outcomes
    <2>3. a \in active /\ ~Completed(objects, a) <=> a \in remaining
      <3>1. /\ a \in active => a <= started
            /\ a \in remaining => a \in active
            /\ a \in remaining <=> a <= started /\ objects[a].outcome = "none"
            BY DEF Ends, EntryInv, ActiveIsOpen
      <3> QED BY <3>1 DEF Completed
    <2> QED BY <2>1, <2>2, <2>3 DEF Ends, AttemptStates
  <1> HIDE DEF after
  <1>2. LeftBehind(objects) = [a \in Attempts |-> after(a)]
        BY DEF LeftBehind, after
  <1> QED BY <1>1, <1>2

\* Whom a completion names serves, and is the committed attempt if there is one.
LEMMA WinnerServes ==
    ASSUME EntryInv, NEW objects, objects \in [Attempts -> AttemptStates],
           \A a \in Attempts : objects[a].role = attempts[a].role
    PROVE  /\ commitAttempt # Nobody => Winner(objects) = commitAttempt
           /\ commitAttempt = Nobody /\ Successes(objects) # {} => Winner(objects) \in Successes(objects)
           /\ commitAttempt = Nobody /\ Successes(objects) = {} => Winner(objects) = Nobody
           /\ Winner(objects) # Nobody =>
                 Winner(objects) \in 1 .. started /\ Winner(objects) \in Attempts
                 /\ objects[Winner(objects)].role = "serve"
  <1>1. Successes(objects) \in SUBSET Attempts
        BY DEF Successes, Serves
  <1>2. Successes(objects) # {} => First(Successes(objects)) \in Successes(objects)
        BY <1>1, FirstIsAMember
  <1>3. \A a \in Successes(objects) : a \in 1 .. started /\ objects[a].role = "serve"
        BY AttemptAssumption DEF Successes, Serves, EntryInv, EntryTypes, AccountingTypes, ActiveIsOpen, Attempts
  <1>4. commitAttempt # Nobody => commitAttempt \in 1 .. started /\ commitAttempt \in Attempts
                                  /\ objects[commitAttempt].role = "serve"
        BY AttemptAssumption DEF EntryInv, EntryTypes, AccountingTypes, CommittedServes, Attempts, Nobody
  <1> QED BY <1>1, <1>2, <1>3, <1>4, AttemptAssumption DEF Winner, Nobody, Attempts

\* The entry of a response that is over names whom it must, and a finished one is
\* never refused its entry: what is committed was not called off.
LEMMA EntryIsAccepted ==
    ASSUME EntryInv, NEW settled, settled \in [Attempts -> AttemptStates],
           \A a \in Attempts : settled[a].role = attempts[a].role /\ (a <= started => settled[a].outcome # "none"),
           NEW ending \in {"finished", "cancelled"},
           (ending = "finished" /\ commitAttempt # Nobody) => settled[commitAttempt].outcome # "cancelled"
    PROVE  /\ Asked(settled, ending) \in Outcomes
           /\ ending = "finished" => Accepts(settled, Asked(settled, ending))
           /\ Asked(settled, ending) = "success" =>
                 /\ ending = "finished"
                 /\ Accepts(settled, Asked(settled, ending)) =>
                       settled[Winner(settled)].outcome = "success" /\ settled[Winner(settled)].role = "serve"
  <1>1. /\ commitAttempt # Nobody => Winner(settled) = commitAttempt
        /\ commitAttempt = Nobody /\ Successes(settled) # {} => Winner(settled) \in Successes(settled)
        /\ commitAttempt = Nobody /\ Successes(settled) = {} => Winner(settled) = Nobody
        /\ Winner(settled) # Nobody =>
              Winner(settled) \in 1 .. started /\ Winner(settled) \in Attempts
              /\ settled[Winner(settled)].role = "serve"
        BY WinnerServes
  <1>2. \A a \in Attempts : /\ settled[a].outcome \in Outcomes \cup {"none"}
                            /\ a \in 1 .. started => settled[a].outcome \in Outcomes
        BY DEF AttemptStates
  <1>3. \A a : a \in Successes(settled) <=>
                   a \in Attempts /\ settled[a].role = "serve" /\ settled[a].outcome = "success"
        BY DEF Successes, Serves
  <1>4. CASE ending = "cancelled"
        BY <1>4 DEF Asked, Outcomes
  <1>5. CASE ending = "finished" /\ Successes(settled) # {}
    <2>1. Winner(settled) # Nobody
          BY <1>1, <1>3, <1>5, AttemptAssumption DEF Nobody, Attempts
    <2>2. Asked(settled, ending) = settled[Winner(settled)].outcome
          BY <1>5 DEF Asked
    <2>3. Winner(settled) = commitAttempt \/ settled[Winner(settled)].outcome = "success"
          BY <1>1, <1>3, <1>5
    <2> QED BY <1>1, <1>2, <1>5, <2>1, <2>2, <2>3 DEF Accepts
  <1>6. CASE ending = "finished" /\ Successes(settled) = {}
    <2>1. Asked(settled, ending) = "error"
          BY <1>6 DEF Asked
    <2>2. Winner(settled) # Nobody => Winner(settled) = commitAttempt /\ settled[Winner(settled)].outcome = "error"
          BY <1>1, <1>2, <1>3, <1>6 DEF Outcomes
    <2> QED BY <1>6, <2>1, <2>2 DEF Accepts, Outcomes
  <1> QED BY <1>4, <1>5, <1>6

\* finalizeIfReady, after a step that ends some attempts or the response, keeps the invariant.
LEMMA FinalizingIsSound ==
    ASSUME EntryInv, finalized = "no", NEW objects, NEW remaining, Ends(objects, remaining),
           NEW ending \in {"none", "finished", "cancelled"}, NEW attribution \in Attributions \cup {"unknown"},
           FinalizeIfReady(objects, remaining, ending, attribution),
           responseTerminal' = ending, started' = started, commitAttempt' = commitAttempt,
           response' \in {"open", "ended", "destroyed"},
           ending = "finished" => response' # "destroyed",
           commitAttempt # Nobody /\ response' # "destroyed" => objects[commitAttempt].outcome # "cancelled"
    PROVE  EntryInv'
  <1>1. ~Recorded /\ started \in Nat /\ commitAttempt \in 0 .. started
        BY AttemptAssumption DEF EntryInv, FinalIsOver, EntryTypes, AccountingTypes
  <1>2. objects \in [Attempts -> AttemptStates] /\ remaining \subseteq 1 .. started
        BY DEF Ends, EntryInv, EntryTypes, AccountingTypes
  <1>3. commitAttempt # Nobody => commitAttempt \in Attempts /\ objects[commitAttempt].role = "serve"
        BY <1>1, AttemptAssumption DEF EntryInv, EntryTypes, AccountingTypes, CommittedServes, Ends, Attempts, Nobody
  <1>4. \A a \in Attempts : a > started => objects[a].role = "none"
        BY DEF Ends, EntryInv, ActiveIsOpen
  <1>5. CASE ending = "none" \/ (remaining # {} /\ ending # "finished")
    <2>1. /\ attempts' = objects /\ active' = remaining /\ lastAttribution' = attribution
          /\ finalized' = finalized /\ terminal' = terminal /\ refused' = refused
          BY <1>5 DEF FinalizeIfReady
    <2>2. EntryTypes'
          BY <1>2, <2>1 DEF EntryInv, EntryTypes, AccountingTypes, Terminals
    <2>3. ActiveIsOpen'
          BY <1>4, <2>1 DEF Ends, ActiveIsOpen
    <2>4. CommittedServes'
          BY <1>3, <2>1 DEF CommittedServes
    <2>5. ~Recorded'
          BY <1>1, <2>1 DEF Recorded
    <2> QED BY <1>5, <2>1, <2>2, <2>3, <2>4, <2>5
            DEF EntryInv, FinalIsOver, LedgerNamesTheServer, SuccessWasServed, CommittedServeIsAuthoritative
  <1>6. CASE ending # "none" /\ (remaining = {} \/ ending = "finished")
    <2>1. PICK settled : settled = LeftBehind(objects)
          OBVIOUS
    <2>2. PICK last : last = IF remaining = {} THEN attribution ELSE settled[Latest(remaining)].attribution
          OBVIOUS
    <2>3. PICK outcome : outcome = Asked(settled, ending)
          OBVIOUS
    <2>4. /\ attempts' = settled /\ active' = {} /\ lastAttribution' = last /\ finalized' = "yes"
          /\ IF Accepts(settled, outcome)
             THEN terminal' = Event(settled, outcome, last) /\ refused' = refused
             ELSE refused' = "yes" /\ terminal' = terminal
          BY <1>6, <2>1, <2>2, <2>3 DEF FinalizeIfReady
    <2>5. /\ settled \in [Attempts -> AttemptStates]
          /\ \A a \in Attempts :
               /\ settled[a].role = objects[a].role
               /\ settled[a].attribution = objects[a].attribution
               /\ a <= started => settled[a].outcome # "none"
               /\ settled[a].outcome = IF a \in remaining THEN "error" ELSE objects[a].outcome
          BY <2>1, LeftBehindEnds
    <2>6. \A a \in Attempts : settled[a].role = attempts[a].role
          BY <2>5 DEF Ends
    <2>7. commitAttempt # Nobody /\ response' # "destroyed" => settled[commitAttempt].outcome # "cancelled"
          BY <1>3, <2>5
    <2>8. /\ outcome \in Outcomes
          /\ ending = "finished" => Accepts(settled, outcome)
          /\ outcome = "success" =>
                /\ ending = "finished"
                /\ Accepts(settled, outcome) =>
                      settled[Winner(settled)].outcome = "success" /\ settled[Winner(settled)].role = "serve"
          BY <1>6, <2>3, <2>5, <2>6, <2>7, EntryIsAccepted
    <2>9. /\ commitAttempt # Nobody => Winner(settled) = commitAttempt
          /\ Winner(settled) # Nobody => Winner(settled) \in 1 .. started /\ Winner(settled) \in Attempts
          BY <2>5, <2>6, WinnerServes
    <2>10. last \in Attributions \cup {"unknown"}
      <3>1. CASE remaining = {}
            BY <2>2, <3>1
      <3>2. CASE remaining # {}
        <4>1. remaining \in SUBSET Attempts
              BY <1>1, <1>2, AttemptAssumption DEF Attempts, EntryInv, EntryTypes, AccountingTypes
        <4>2. Latest(remaining) \in Attempts
              BY <3>2, <4>1, LatestIsAMember
        <4> QED BY <2>2, <2>5, <3>2, <4>2 DEF AttemptStates
      <3> QED BY <3>1, <3>2
    <2>11. (IF Winner(settled) # Nobody THEN settled[Winner(settled)].attribution ELSE last)
              \in Attributions \cup {"unknown"}
          BY <2>5, <2>9, <2>10 DEF AttemptStates
    <2>12. PICK event : event = Event(settled, outcome, last)
          OBVIOUS
    <2>13. /\ event \in Terminals /\ event # NoTerminal
           /\ event.outcome = outcome /\ event.winner = Winner(settled) /\ event.attemptCount = started
           /\ Winner(settled) # Nobody => event.attribution = settled[Winner(settled)].attribution
      <3>1. Winner(settled) \in 0 .. started
            BY <1>1, <2>9 DEF Nobody
      <3> QED BY <1>1, <2>8, <2>11, <2>12, <3>1 DEF Event, Terminals, NoTerminal, Outcomes
    <2>14. /\ ActiveIsOpen' /\ CommittedServes' /\ finalized' = "yes" /\ active' = {}
      <3>1. ActiveIsOpen'
            BY <1>1, <1>4, <2>4, <2>5 DEF ActiveIsOpen
      <3>2. CommittedServes'
            BY <1>3, <2>4, <2>5, <2>7 DEF CommittedServes
      <3> QED BY <2>4, <3>1, <3>2
    <2>15. CASE Accepts(settled, outcome)
      <3>1. terminal' = event /\ refused' = refused
            BY <2>4, <2>12, <2>15
      <3>2. EntryTypes'
            BY <1>1, <2>4, <2>5, <2>10, <2>13, <3>1 DEF EntryInv, EntryTypes, AccountingTypes, Terminals
      <3>3. FinalIsOver'
            BY <1>6, <2>13, <2>14, <3>1 DEF FinalIsOver, Recorded
      <3>4. SuccessWasServed'
            BY <2>4, <2>8, <2>13, <2>15, <3>1 DEF SuccessWasServed
      <3>5. CommittedServeIsAuthoritative'
            BY <2>4, <2>9, <2>13, <3>1 DEF CommittedServeIsAuthoritative
      <3> QED BY <2>14, <3>2, <3>3, <3>4, <3>5 DEF EntryInv, LedgerNamesTheServer
    <2>16. CASE ~Accepts(settled, outcome)
      <3>1. terminal' = terminal /\ refused' = "yes" /\ ending # "finished"
            BY <2>4, <2>8, <2>16
      <3>2. EntryTypes'
            BY <1>1, <2>4, <2>5, <2>10, <3>1 DEF EntryInv, EntryTypes, AccountingTypes, Terminals
      <3>3. ~Recorded'
            BY <1>1, <3>1 DEF Recorded
      <3> QED BY <1>6, <2>14, <3>1, <3>2, <3>3
              DEF EntryInv, FinalIsOver, LedgerNamesTheServer, SuccessWasServed, CommittedServeIsAuthoritative
    <2> QED BY <2>15, <2>16
  <1> QED BY <1>5, <1>6

\* Ending an attempt, in whatever way, keeps the invariant: what is committed is
\* called off only when its client has gone.
LEMMA CompletingIsSound ==
    ASSUME EntryInv, NEW a \in active, NEW outcome \in Outcomes, NEW abandoned \in {"yes", "no"},
           Complete(a, outcome, abandoned), response' \in {"open", "ended", "destroyed"},
           response' # "destroyed" => response # "destroyed",
           commitAttempt = a /\ outcome = "cancelled" => response' = "destroyed"
    PROVE  EntryInv'
  <1>1. a \in Attempts /\ a <= started /\ started \in Nat
        BY AttemptAssumption DEF EntryInv, EntryTypes, AccountingTypes, Attempts
  <1>2. finalized = "no" /\ responseTerminal \in {"none", "finished", "cancelled"} /\ responseTerminal # "finished"
        BY DEF EntryInv, EntryTypes, AccountingTypes, FinalIsOver
  <1>3. PICK objects : objects = [attempts EXCEPT ![a] = [@ EXCEPT !.outcome = outcome, !.abandoned = abandoned]]
        OBVIOUS
  <1>4. attempts \in [Attempts -> AttemptStates]
        BY DEF EntryInv, EntryTypes, AccountingTypes
  <1>5. /\ [attempts[a] EXCEPT !.outcome = outcome, !.abandoned = abandoned] \in AttemptStates
        /\ [attempts[a] EXCEPT !.outcome = outcome, !.abandoned = abandoned].role = attempts[a].role
        /\ [attempts[a] EXCEPT !.outcome = outcome, !.abandoned = abandoned].attribution = attempts[a].attribution
        /\ [attempts[a] EXCEPT !.outcome = outcome, !.abandoned = abandoned].outcome = outcome
    <2>1. attempts[a] \in AttemptStates
          BY <1>1, <1>4
    <2> QED BY <2>1 DEF AttemptStates
  <1>6. /\ objects \in [Attempts -> AttemptStates]
        /\ objects[a].outcome = outcome
        /\ \A b \in Attempts : /\ objects[b].role = attempts[b].role
                               /\ objects[b].attribution = attempts[b].attribution
                               /\ b # a => objects[b] = attempts[b]
        BY <1>1, <1>3, <1>4, <1>5
  <1>7. Ends(objects, active \ {a})
    <2>1. \A b \in Attempts : b \in active \ {a} <=> b <= started /\ objects[b].outcome = "none"
          BY <1>6 DEF EntryInv, ActiveIsOpen, Outcomes
    <2> QED BY <1>6, <2>1 DEF Ends
  <1>8. attempts[a].attribution \in Attributions \cup {"unknown"}
        BY <1>1, <1>4 DEF AttemptStates
  <1>9. commitAttempt # Nobody /\ response' # "destroyed" => objects[commitAttempt].outcome # "cancelled"
    <2>1. commitAttempt # Nobody => commitAttempt \in Attempts
          BY <1>1, AttemptAssumption DEF EntryInv, EntryTypes, AccountingTypes, Attempts, Nobody
    <2> QED BY <1>6, <2>1 DEF EntryInv, CommittedServes
  <1>10. /\ FinalizeIfReady(objects, active \ {a}, responseTerminal, attempts[a].attribution)
         /\ started' = started /\ commitAttempt' = commitAttempt /\ responseTerminal' = responseTerminal
         BY <1>3 DEF Complete
  <1> QED BY <1>2, <1>7, <1>8, <1>9, <1>10, FinalizingIsSound

\* Nothing starts once the response is over.
LEMMA StartIsSound ==
    ASSUME EntryInv, NEW role \in Roles, NEW attribution \in Attributions, Start(role, attribution)
    PROVE  EntryInv'
  <1>1. /\ finalized = "no" /\ responseTerminal = "none" /\ ~Recorded /\ started \in Nat
        /\ started + 1 \in Attempts /\ attempts \in [Attempts -> AttemptStates]
        BY AttemptAssumption DEF EntryInv, EntryTypes, AccountingTypes, FinalIsOver, Start, Attempts
  <1>2. PICK fresh : fresh = [NotStarted EXCEPT !.role = role, !.attribution = attribution]
        OBVIOUS
  <1>3. fresh \in AttemptStates /\ fresh.outcome = "none"
        BY <1>2 DEF NotStarted, AttemptStates, Roles
  <1>4. /\ started' = started + 1 /\ attempts' = [attempts EXCEPT ![started + 1] = fresh]
        /\ active' = active \cup {started + 1} /\ lastAttribution' = attribution
        /\ UNCHANGED <<commitAttempt, response, responseTerminal, finalized, terminal, refused>>
        BY <1>2 DEF Start
  <1>5. /\ attempts' \in [Attempts -> AttemptStates] /\ attempts'[started + 1] = fresh
        /\ \A b \in Attempts : b # started + 1 => attempts'[b] = attempts[b]
        BY <1>1, <1>3, <1>4
  <1>6. commitAttempt # Nobody => commitAttempt \in Attempts /\ commitAttempt # started + 1
        BY <1>1, AttemptAssumption DEF EntryInv, EntryTypes, AccountingTypes, Attempts, Nobody
  <1>7. EntryTypes'
    <2>1. started' \in 0 .. MaxAttempts /\ active' \subseteq 1 .. started' /\ commitAttempt' \in 0 .. started'
          BY <1>1, <1>4, AttemptAssumption DEF EntryInv, EntryTypes, AccountingTypes, Attempts
    <2>2. terminal' \in Terminals'
          BY <1>1, <1>4 DEF EntryInv, EntryTypes, Terminals
    <2> QED BY <1>4, <1>5, <2>1, <2>2 DEF EntryInv, EntryTypes, AccountingTypes
  <1>8. ActiveIsOpen'
    <2>1. ASSUME NEW b \in Attempts
          PROVE  /\ b \in active' <=> b <= started' /\ attempts'[b].outcome = "none"
                 /\ b > started' => attempts'[b].role = "none"
      <3>1. CASE b = started + 1
            BY <1>1, <1>3, <1>4, <1>5, <3>1
      <3>2. CASE b # started + 1
        <4>1. b \in Int
              BY AttemptAssumption DEF Attempts
        <4>2. attempts'[b] = attempts[b] /\ (b <= started' <=> b <= started) /\ (b > started' => b > started)
              BY <1>1, <1>4, <1>5, <3>2, <4>1
        <4> QED BY <1>4, <3>2, <4>2 DEF EntryInv, ActiveIsOpen
      <3> QED BY <3>1, <3>2
    <2> QED BY <2>1 DEF ActiveIsOpen
  <1>9. CommittedServes'
        BY <1>4, <1>5, <1>6 DEF EntryInv, CommittedServes
  <1>10. ~Recorded'
        BY <1>1, <1>4 DEF Recorded
  <1> QED BY <1>1, <1>4, <1>7, <1>8, <1>9, <1>10
          DEF EntryInv, FinalIsOver, LedgerNamesTheServer, SuccessWasServed, CommittedServeIsAuthoritative

\* The first byte for the client commits an attempt of a request that is not over.
LEMMA CommitIsSound ==
    ASSUME EntryInv, NEW a \in Attempts, MarkCommitted(a) PROVE EntryInv'
  <1>1. a \in active /\ a \in 1 .. started /\ attempts[a].outcome = "none" /\ attempts[a].role = "serve"
        BY AttemptAssumption
           DEF EntryInv, EntryTypes, AccountingTypes, ActiveIsOpen, MarkCommitted, Completed, Attempts
  <1>2. ~Recorded /\ finalized # "yes" /\ responseTerminal # "finished"
        BY <1>1 DEF EntryInv, FinalIsOver
  <1>3. commitAttempt' = a /\ UNCHANGED <<attempts, started, active, lastAttribution, response,
                                          responseTerminal, finalized, terminal, refused>>
        BY DEF MarkCommitted
  <1>4. EntryTypes'
    <2>1. commitAttempt' \in 0 .. started'
          BY <1>1, <1>3, AttemptAssumption DEF EntryInv, EntryTypes, AccountingTypes
    <2> QED BY <1>3, <2>1 DEF EntryInv, EntryTypes, AccountingTypes, Terminals
  <1> QED BY <1>1, <1>2, <1>3, <1>4
          DEF EntryInv, ActiveIsOpen, CommittedServes, FinalIsOver, LedgerNamesTheServer, SuccessWasServed,
              CommittedServeIsAuthoritative, Recorded

\* The response is over: it left the process, or its client went away.
LEMMA OverIsSound ==
    ASSUME EntryInv, Finish \/ Close PROVE EntryInv'
  <1>1. PICK ending \in {"finished", "cancelled"} :
            /\ response = (IF ending = "finished" THEN "ended" ELSE "destroyed")
            /\ responseTerminal = "none" /\ responseTerminal' = ending
            /\ FinalizeIfReady(attempts, active, ending, lastAttribution)
            /\ UNCHANGED <<started, commitAttempt, response>>
        BY Zenon DEF Finish, Close
  <1>2. finalized = "no"
        BY <1>1 DEF EntryInv, EntryTypes, AccountingTypes, FinalIsOver
  <1>3. Ends(attempts, active)
        BY DEF Ends, EntryInv, EntryTypes, AccountingTypes, ActiveIsOpen
  <1>4. /\ commitAttempt # Nobody /\ response' # "destroyed" => attempts[commitAttempt].outcome # "cancelled"
        /\ ending = "finished" => response' # "destroyed"
        /\ response' \in {"open", "ended", "destroyed"}
        BY <1>1 DEF EntryInv, EntryTypes, AccountingTypes, CommittedServes
  <1>5. lastAttribution \in Attributions \cup {"unknown"}
        BY DEF EntryInv, EntryTypes, AccountingTypes
  <1> QED BY <1>1, <1>2, <1>3, <1>4, <1>5, FinalizingIsSound

\* Every step keeps the invariant.
LEMMA EntryStep == EntryInv /\ [AccountingNext]_accountingVars => EntryInv'
  <1> SUFFICES ASSUME EntryInv, [AccountingNext]_accountingVars PROVE EntryInv'
      OBVIOUS
  <1> USE DEF Outcomes
  <1>1. ASSUME NEW role \in Roles, NEW attribution \in Attributions, Start(role, attribution) PROVE EntryInv'
        BY <1>1, StartIsSound
  <1>2. ASSUME NEW a \in Attempts, MarkCommitted(a) PROVE EntryInv'
        BY <1>2, CommitIsSound
  <1>3. ASSUME NEW a \in Attempts, NEW outcome \in Outcomes, Answer(a, outcome) PROVE EntryInv'
    <2>1. /\ a \in active /\ Complete(a, outcome, "no") /\ response' = "ended" /\ response = "open"
          /\ outcome # "cancelled"
          BY <1>3 DEF Answer
    <2> QED BY <2>1, CompletingIsSound
  <1>4. ASSUME NEW a \in Attempts, NEW outcome \in Outcomes, GiveUp(a, outcome) PROVE EntryInv'
    <2>1. a \in active /\ commitAttempt # a /\ Complete(a, outcome, "no") /\ response' = response
          BY <1>4 DEF GiveUp
    <2> QED BY <2>1, CompletingIsSound DEF EntryInv, EntryTypes, AccountingTypes
  <1>5. ASSUME NEW a \in Attempts, Cancel(a) PROVE EntryInv'
    <2>1. a \in active /\ Complete(a, "cancelled", "no") /\ response = "destroyed" /\ response' = response
          BY <1>5 DEF Cancel
    <2> QED BY <2>1, CompletingIsSound
  <1>6. ASSUME NEW a \in Attempts, Abandon(a) PROVE EntryInv'
    <2>1. a \in active /\ commitAttempt # a /\ Complete(a, "cancelled", "yes") /\ response' = response
          BY <1>6 DEF Abandon
    <2> QED BY <2>1, CompletingIsSound DEF EntryInv, EntryTypes, AccountingTypes
  <1>7. CASE AnswerFailure
        BY <1>7 DEF AnswerFailure, EntryInv, EntryTypes, AccountingTypes, Terminals, ActiveIsOpen, CommittedServes,
                    FinalIsOver, LedgerNamesTheServer, SuccessWasServed, CommittedServeIsAuthoritative, Recorded
  <1>8. CASE Disconnect
        BY <1>8 DEF Disconnect, EntryInv, EntryTypes, AccountingTypes, Terminals, ActiveIsOpen, CommittedServes,
                    FinalIsOver, LedgerNamesTheServer, SuccessWasServed, CommittedServeIsAuthoritative, Recorded
  <1>9. CASE Finish \/ Close
        BY <1>9, OverIsSound
  <1>10. CASE UNCHANGED accountingVars
        BY <1>10 DEF accountingVars, EntryInv, EntryTypes, AccountingTypes, Terminals, ActiveIsOpen, CommittedServes,
                     FinalIsOver, LedgerNamesTheServer, SuccessWasServed, CommittedServeIsAuthoritative, Recorded
  <1> QED BY <1>1, <1>2, <1>3, <1>4, <1>5, <1>6, <1>7, <1>8, <1>9, <1>10, Zenon DEF AccountingNext

\* The types of the ledger entry, for any number of attempts and any credentials.
THEOREM AccountingTypesHold == AccountingSpec => []AccountingTypes
  <1>1. EntryInv => AccountingTypes
        BY DEF EntryInv, EntryTypes
  <1> QED BY <1>1, AccountingStarts, EntryStep, PTL DEF AccountingSpec

\* A request whose answer was delivered is in the ledger from that moment on with
\* every attempt made for it, and the entry names and credits the attempt whose
\* bytes the client got, whatever hedges, repairs and departures happened.
THEOREM LedgerHolds == AccountingSpec => []LedgerIsTrue
  <1>1. EntryInv => LedgerIsTrue
    <2>1. EntryInv /\ responseTerminal = "finished" => finalized = "yes" /\ Recorded
          BY DEF EntryInv, FinalIsOver
    <2> QED BY <2>1 DEF EntryInv, FinalIsOver, LedgerIsTrue, DeliveredIsRecorded
  <1> QED BY <1>1, AccountingStarts, EntryStep, PTL DEF AccountingSpec

-----------------------------------------------------------------------------
(***************************************************************************)
(* The operator's word and the daemon's memory of refusals.  Two copies of *)
(* one file are kept apart by its token.  That an acceptance is used is    *)
(* inductive with what the copies know of the file: the daemon's verdicts  *)
(* are among the file's (Held), so a write of its own drops none it has    *)
(* read, and it has read every acceptance made while it had nothing        *)
(* unsaved, or will before it answers (Heard).                             *)
(***************************************************************************)

\* What a load of the file gives.
Contents == IF refFile.token = 0 THEN EmptyStore ELSE ReadStore(refFile)

Stored(file) == [confirmed |-> file.confirmed, unknown |-> file.unknown, ignored |-> file.ignored]

\* A key the current normalizer leaves as it is.
IsNormal(s) == Rekey(s) = s
IsSignature(s) == "says" \in DOMAIN s /\ s.says \in DOMAIN NewForm

\* A store the current version keeps: nothing is decided and pending at once.
NormalStore(st) ==
    /\ DOMAIN st = {"confirmed", "unknown", "ignored"}
    /\ \A s \in DOMAIN st.confirmed : IsNormal(s) /\ st.confirmed[s].at \in Nat
    /\ \A s \in DOMAIN st.unknown : IsNormal(s) /\ s \notin DOMAIN st.confirmed

SameVerdicts(a, b) == /\ DOMAIN a.confirmed = DOMAIN b.confirmed
                      /\ \A s \in DOMAIN b.confirmed : a.confirmed[s] = b.confirmed[s]

\* What one store has decided, the other has too, and in the same words.
Within(a, b) == \A s \in DOMAIN a.confirmed : /\ s \in DOMAIN b.confirmed
                                              /\ a.confirmed[s] = b.confirmed[s]

OldKey(s) == \E f \in OldFiles : s \in {Rekey(t) : t \in DOMAIN f.confirmed} \cup DOMAIN f.confirmed

CopyFields == {"open", "token", "store", "dirty"}

FileIsKept == \/ refFile \in OldFiles /\ undisturbed = {}
              \/ refFile.token > 0 /\ refFile.version = 2 /\ NormalStore(Stored(refFile))

DaemonIsSound == /\ DOMAIN daemon = CopyFields
                 /\ daemon.token \in Nat /\ daemon.token <= refFile.token
                 /\ daemon.dirty => daemon.open
                 /\ NormalStore(daemon.store)

CommandInHand ==
    command.op # "none" =>
       /\ command.op \in {"accept", "reject", "propose"}
       /\ DOMAIN command.copy = CopyFields
       /\ command.copy.token \in Nat /\ command.copy.token <= refFile.token
       /\ NormalStore(command.copy.store)
       /\ command.copy.token = refFile.token => SameVerdicts(command.copy.store, Contents)
       /\ IsNormal(command.on) /\ command.on \notin DOMAIN Contents.confirmed
       /\ command.op = "accept" => "at" \in DOMAIN command.says

\* Every verdict of the file is the operator's, or as old as the file.
WordsAreHis == \A s \in DOMAIN Contents.confirmed :
                  (s \in DOMAIN wordOf /\ Contents.confirmed[s] = wordOf[s]) \/ OldKey(s)

Held == Within(daemon.store, Contents)

Heard == \A s \in undisturbed :
            /\ s \in DOMAIN wordOf /\ wordOf[s].at \in Nat /\ wordOf[s].at > 0
            /\ s \in DOMAIN Contents.confirmed /\ Contents.confirmed[s] = wordOf[s]
            /\ daemon.open /\ (daemon.token = refFile.token \/ daemon.dirty)
                  => s \in DOMAIN daemon.store.confirmed

RefusalInv ==
    /\ refFile.token \in Nat /\ refusalNow \in Nat /\ refusalNow > 0
    /\ FileIsKept /\ DaemonIsSound /\ CommandInHand /\ WordsAreHis /\ Held /\ Heard

-----------------------------------------------------------------------------
\* Of several verdicts for one key one is the freshest: no other has more that
\* are fresher than it.
LEMMA FreshestExists ==
    ASSUME NEW S, IsFiniteSet(S), S # {}, \A v \in S : v.at \in Nat
    PROVE  \E v \in S : \A w \in S : w.at <= v.at
<1> DEFINE Fresher(v) == {w \in S : w.at > v.at}
           Counts == {Cardinality(Fresher(v)) : v \in S}
<1>1. \A v \in S : IsFiniteSet(Fresher(v)) /\ Cardinality(Fresher(v)) \in Nat
      BY FS_Subset, FS_CardinalityType
<1>2. Counts \in SUBSET Nat /\ Counts # {}
      BY <1>1
<1>3. PICK n \in Counts : \A m \in Counts : n <= m
  <2> HIDE DEF Counts
  <2> QED BY <1>2, LeastNatural
<1>4. PICK v \in S : n = Cardinality(Fresher(v))
      OBVIOUS
<1>5. ASSUME NEW w \in S, ~(w.at <= v.at) PROVE FALSE
  <2>1. Fresher(w) \subseteq Fresher(v) \ {w}
        BY <1>5
  <2>2. w \in Fresher(v)
        BY <1>5
  <2>3. Fresher(w) \subseteq Fresher(v) /\ Fresher(w) # Fresher(v)
        BY <2>1, <2>2
  <2>4. Cardinality(Fresher(w)) <= Cardinality(Fresher(v))
        /\ (Cardinality(Fresher(w)) = Cardinality(Fresher(v)) => Fresher(w) = Fresher(v))
    <3> HIDE DEF Fresher
    <3> QED BY <1>1, <2>3, FS_Subset
  <2>5. n <= Cardinality(Fresher(w))
        BY <1>3
  <2>6. Cardinality(Fresher(w)) \in Nat /\ Cardinality(Fresher(v)) \in Nat
        BY <1>1
  <2> HIDE DEF Fresher
  <2> QED BY <1>4, <2>3, <2>4, <2>5, <2>6
<1> QED BY <1>5

\* The current normalizer has nothing to do twice.
LEMMA RekeyedIsNormal ==
    ASSUME NEW s, IsSignature(s)
    PROVE  IsNormal(Rekey(s)) /\ IsSignature(Rekey(s))
<1>1. NewForm[s.says] \in DOMAIN NewForm /\ NewForm[NewForm[s.says]] = NewForm[s.says]
      BY RefusalAssumption DEF IsSignature
<1>2. Rekey(s).says = NewForm[s.says] /\ DOMAIN Rekey(s) = DOMAIN s
      BY DEF Rekey, IsSignature
<1>3. Rekey(Rekey(s)) = Rekey(s)
      BY <1>1, <1>2 DEF Rekey
<1> QED BY <1>1, <1>2, <1>3 DEF IsNormal, IsSignature

\* What migrateSignatures makes of a store: normal keys, each verdict one the
\* store had under a key that becomes this one, nothing decided left pending.
LEMMA MigratedIsNormal ==
    ASSUME NEW f,
           \A s \in DOMAIN f.confirmed : IsSignature(s) /\ f.confirmed[s].at \in Nat,
           \A s \in DOMAIN f.unknown : IsSignature(s),
           IsFiniteSet(DOMAIN f.confirmed)
    PROVE  /\ NormalStore(MigrateSignatures(f))
           /\ DOMAIN MigrateSignatures(f).confirmed = {Rekey(s) : s \in DOMAIN f.confirmed}
<1> DEFINE m == MigrateSignatures(f)
           was(k) == {f.confirmed[s] : s \in {s \in DOMAIN f.confirmed : Rekey(s) = k}}
           pick(k) == CHOOSE v \in was(k) : \A w \in was(k) : w.at <= v.at
<1>1. /\ DOMAIN m = {"confirmed", "unknown", "ignored"}
      /\ DOMAIN m.confirmed = {Rekey(s) : s \in DOMAIN f.confirmed}
      /\ \A k \in DOMAIN m.confirmed : m.confirmed[k] = pick(k)
      BY DEF MigrateSignatures
<1>2. \A k \in DOMAIN m.unknown : /\ k \in {Rekey(s) : s \in DOMAIN f.unknown}
                                  /\ k \notin DOMAIN m.confirmed
      BY DEF MigrateSignatures
<1>3. ASSUME NEW k \in {Rekey(s) : s \in DOMAIN f.confirmed} PROVE pick(k).at \in Nat
  <2>1. was(k) # {} /\ \A v \in was(k) : v.at \in Nat
        OBVIOUS
  <2>2. IsFiniteSet(was(k))
    <3> DEFINE D == {s \in DOMAIN f.confirmed : Rekey(s) = k}
    <3>1. IsFiniteSet(D)
          BY FS_Subset
    <3>2. was(k) = {f.confirmed[s] : s \in D}
          OBVIOUS
    <3> HIDE DEF D, was
    <3>3. IsFiniteSet({f.confirmed[s] : s \in D})
      <4> DEFINE g == [s \in D |-> f.confirmed[s]]
      <4>1. g \in Surjection(D, {f.confirmed[s] : s \in D})
            BY DEF Surjection
      <4> HIDE DEF g
      <4> QED BY <3>1, <4>1, FS_Surjection
    <3> QED BY <3>2, <3>3
  <2>3. \E v \in was(k) : \A w \in was(k) : w.at <= v.at
    <3> HIDE DEF was
    <3> QED BY <2>1, <2>2, FreshestExists
  <2>4. pick(k) \in was(k)
    <3> HIDE DEF was
    <3> QED BY <2>3
  <2> HIDE DEF pick, was
  <2> QED BY <2>1, <2>4
<1>4. \A k \in {Rekey(s) : s \in DOMAIN f.confirmed} \cup {Rekey(s) : s \in DOMAIN f.unknown} : IsNormal(k)
      BY RekeyedIsNormal
<1> HIDE DEF m, pick, was
<1>5. NormalStore(m)
      BY <1>1, <1>2, <1>3, <1>4 DEF NormalStore
<1> QED BY <1>1, <1>5 DEF m

\* A store of normal keys keeps its verdicts through another reading.
LEMMA NormalStaysPut ==
    ASSUME NEW f, NormalStore(f)
    PROVE  NormalStore(MigrateSignatures(f)) /\ SameVerdicts(MigrateSignatures(f), f)
<1> DEFINE m == MigrateSignatures(f)
           was(k) == {f.confirmed[s] : s \in {s \in DOMAIN f.confirmed : Rekey(s) = k}}
           pick(k) == CHOOSE v \in was(k) : \A w \in was(k) : w.at <= v.at
<1>1. /\ DOMAIN m = {"confirmed", "unknown", "ignored"}
      /\ DOMAIN m.confirmed = {Rekey(s) : s \in DOMAIN f.confirmed}
      /\ \A k \in DOMAIN m.confirmed : m.confirmed[k] = pick(k)
      BY DEF MigrateSignatures
<1>2. \A k \in DOMAIN m.unknown : /\ k \in {Rekey(s) : s \in DOMAIN f.unknown}
                                  /\ k \notin DOMAIN m.confirmed
      BY DEF MigrateSignatures
<1>3. /\ {Rekey(s) : s \in DOMAIN f.confirmed} = DOMAIN f.confirmed
      /\ {Rekey(s) : s \in DOMAIN f.unknown} = DOMAIN f.unknown
  <2>1. (\A s \in DOMAIN f.confirmed : Rekey(s) = s) /\ (\A s \in DOMAIN f.unknown : Rekey(s) = s)
        BY DEF NormalStore, IsNormal
  <2> QED BY <2>1
<1>4. ASSUME NEW k \in DOMAIN f.confirmed PROVE pick(k) = f.confirmed[k]
  <2>1. was(k) = {f.confirmed[k]}
        BY DEF NormalStore, IsNormal
  <2>2. f.confirmed[k].at \in Nat
        BY DEF NormalStore
  <2> HIDE DEF was
  <2> QED BY <2>1, <2>2
<1> HIDE DEF m, pick, was
<1>5. SameVerdicts(m, f)
      BY <1>1, <1>3, <1>4 DEF SameVerdicts
<1>6. NormalStore(m)
      BY <1>1, <1>2, <1>3, <1>5 DEF NormalStore, SameVerdicts
<1> QED BY <1>5, <1>6 DEF m

\* What a version 1 file is read as keeps its keys, and drops what it may not keep.
LEMMA OldStoresAreRead ==
    ASSUME NEW f \in OldFiles
    PROVE  /\ NormalStore(ReadStore(f))
           /\ \A s \in DOMAIN ReadStore(f).confirmed : OldKey(s)
<1> DEFINE g == IF f.version = 1 THEN MigrateV1(Stored(f)) ELSE Stored(f)
<1>1. /\ \A s \in DOMAIN f.confirmed : IsSignature(s) /\ f.confirmed[s].at \in Nat
      /\ \A s \in DOMAIN f.unknown : IsSignature(s)
      /\ IsFiniteSet(DOMAIN f.confirmed)
  <2>1. \A s \in UNION {DOMAIN f.confirmed, DOMAIN f.unknown, DOMAIN f.ignored} :
           "says" \in DOMAIN s /\ s.says \in DOMAIN NewForm
        BY RefusalAssumption
  <2>2. IsFiniteSet(DOMAIN f.confirmed) /\ \A s \in DOMAIN f.confirmed : f.confirmed[s].at \in Nat
        BY RefusalAssumption
  <2> QED BY <2>1, <2>2 DEF IsSignature
<1>2. /\ DOMAIN g.confirmed \subseteq DOMAIN f.confirmed
      /\ \A s \in DOMAIN g.confirmed : g.confirmed[s].at = f.confirmed[s].at
      /\ DOMAIN g.unknown \subseteq DOMAIN f.unknown \cup DOMAIN f.confirmed
  <2>1. CASE f.version = 1
    <3>1. g = MigrateV1(Stored(f))
          BY <2>1
    <3>2. /\ DOMAIN g.confirmed = DOMAIN f.confirmed
                    \ {s \in DOMAIN f.confirmed : f.confirmed[s].scope.kind = "provider"}
          /\ \A s \in DOMAIN g.confirmed : g.confirmed[s] = NarrowedV1(f.confirmed[s])
          /\ DOMAIN g.unknown \subseteq DOMAIN f.unknown \cup DOMAIN f.confirmed
          BY <3>1 DEF MigrateV1, Stored
    <3>3. \A v : NarrowedV1(v).at = v.at
          BY DEF NarrowedV1
    <3> HIDE DEF g
    <3> QED BY <3>2, <3>3
  <2>2. CASE f.version # 1
        BY <2>2 DEF Stored
  <2> QED BY <2>1, <2>2
<1>3. ReadStore(f) = MigrateSignatures(g)
      BY DEF ReadStore, Stored
<1>4. IsFiniteSet(DOMAIN g.confirmed)
      BY <1>1, <1>2, FS_Subset
<1> HIDE DEF g
<1>5. /\ \A s \in DOMAIN g.confirmed : IsSignature(s) /\ g.confirmed[s].at \in Nat
      /\ \A s \in DOMAIN g.unknown : IsSignature(s)
      BY <1>1, <1>2
<1>6. /\ NormalStore(ReadStore(f))
      /\ DOMAIN ReadStore(f).confirmed = {Rekey(s) : s \in DOMAIN g.confirmed}
      BY <1>3, <1>4, <1>5, MigratedIsNormal
<1> QED BY <1>2, <1>6 DEF OldKey

\* An empty store is normal, and within every other.
LEMMA EmptyIsNormal == NormalStore(EmptyStore) /\ \A st : Within(EmptyStore, st)
  BY DEF NormalStore, EmptyStore, Within

\* What a load gives is normal; of a file this version wrote, it is the file's verdicts.
LEMMA ContentsAreNormal ==
    ASSUME FileIsKept, refFile.token \in Nat
    PROVE  NormalStore(Contents)
<1>1. CASE refFile \in OldFiles
      BY <1>1, OldStoresAreRead, EmptyIsNormal DEF Contents
<1>2. CASE refFile.token > 0 /\ refFile.version = 2 /\ NormalStore(Stored(refFile))
  <2>1. Contents = MigrateSignatures(Stored(refFile))
        BY <1>2 DEF Contents, ReadStore, Stored
  <2> QED BY <1>2, <2>1, NormalStaysPut
<1> QED BY <1>1, <1>2 DEF FileIsKept

LEMMA KeptFilesAreReadAsTheyAre ==
    ASSUME refFile.token \in Nat, refFile.token > 0, refFile.version = 2, NormalStore(Stored(refFile))
    PROVE  SameVerdicts(Contents, Stored(refFile))
<1>1. Contents = MigrateSignatures(Stored(refFile))
      BY DEF Contents, ReadStore, Stored
<1> QED BY <1>1, NormalStaysPut

\* What is written is what the next load gives.
LEMMA WrittenIsRead ==
    ASSUME refFile.token \in Nat, NEW st, NormalStore(st), refFile' = File(st)
    PROVE  /\ refFile'.token = refFile.token + 1
           /\ refFile'.token \in Nat
           /\ FileIsKept'
           /\ SameVerdicts(Contents', st)
           /\ NormalStore(Contents')
<1>1. /\ refFile'.token = refFile.token + 1 /\ refFile'.version = 2
      /\ Stored(refFile)' = Stored(File(st))
      BY DEF File, Stored
<1>2. /\ Stored(File(st)).confirmed = st.confirmed /\ Stored(File(st)).unknown = st.unknown
      /\ DOMAIN Stored(File(st)) = {"confirmed", "unknown", "ignored"}
      BY DEF File, Stored
<1>3. NormalStore(Stored(File(st)))
      BY <1>2 DEF NormalStore
<1>4. Contents' = MigrateSignatures(Stored(File(st)))
  <2>1. Contents' = IF refFile'.token = 0 THEN EmptyStore ELSE ReadStore(refFile')
        BY DEF Contents
  <2>2. ReadStore(refFile') = MigrateSignatures(Stored(refFile'))
        BY <1>1 DEF ReadStore, Stored
  <2>3. Stored(refFile') = Stored(File(st)) /\ refFile'.token # 0
        BY <1>1
  <2> QED BY <2>1, <2>2, <2>3
<1>5. NormalStore(Contents') /\ SameVerdicts(Contents', Stored(File(st)))
      BY <1>3, <1>4, NormalStaysPut
<1>6. SameVerdicts(Contents', st)
      BY <1>2, <1>5 DEF SameVerdicts
<1>7. FileIsKept'
  <2>1. refFile'.token > 0
        BY <1>1
  <2> QED BY <1>1, <1>3, <2>1 DEF FileIsKept
<1> QED BY <1>1, <1>5, <1>6, <1>7

\* A copy is what it was while the file has not moved, else what the file holds.
LEMMA LoadedIsEither ==
    ASSUME NEW copy, DOMAIN copy = CopyFields
    PROVE  /\ DOMAIN Loaded(copy) = CopyFields
           /\ Loaded(copy).open = IF copy.open /\ copy.token = refFile.token THEN copy.open ELSE TRUE
           /\ Loaded(copy).dirty = copy.dirty
           /\ Loaded(copy).token = refFile.token \/ (copy.token = refFile.token /\ Loaded(copy) = copy)
           /\ IF copy.open /\ copy.token = refFile.token THEN Loaded(copy) = copy
              ELSE Loaded(copy).store = Contents
<1>1. CASE copy.open /\ copy.token = refFile.token
      BY <1>1 DEF Loaded
<1>2. CASE ~(copy.open /\ copy.token = refFile.token)
  <2>1. Loaded(copy) = [copy EXCEPT !.open = TRUE, !.token = refFile.token, !.store = Contents]
        BY <1>2, Zenon DEF Loaded, Contents
  <2> QED BY <1>2, <2>1 DEF CopyFields
<1> QED BY <1>1, <1>2

\* A queued message is pending and nothing else changes its place.
LEMMA QueuedIsNormal ==
    ASSUME NEW st, NormalStore(st), NEW s, IsNormal(s), s \notin DOMAIN st.confirmed
    PROVE  NormalStore(Queued(st, s)) /\ Queued(st, s).confirmed = st.confirmed
<1> DEFINE kept == IF Cardinality(DOMAIN st.unknown) >= MaxQueue
                   THEN Without(st.unknown, {Oldest(st.unknown)}) ELSE st.unknown
           more == With(kept, s, Entry(1, refusalNow, refusalNow))
           q == Queued(st, s)
<1>1. DOMAIN more \subseteq DOMAIN st.unknown \cup {s}
      BY DEF With, Without, Restrict
<1>2. DOMAIN st = {"confirmed", "unknown", "ignored"}
      BY DEF NormalStore
<1>3. /\ DOMAIN q = DOMAIN st /\ q.confirmed = st.confirmed
      /\ DOMAIN q.unknown \subseteq DOMAIN st.unknown \cup {s}
  <2>1. CASE s \in DOMAIN st.unknown
    <3>1. q = [st EXCEPT !.unknown[s].count = @ + 1, !.unknown[s].last = refusalNow]
          BY <2>1 DEF Queued
    <3> HIDE DEF q
    <3> QED BY <1>2, <3>1
  <2>2. CASE s \notin DOMAIN st.unknown
    <3>1. q = [st EXCEPT !.unknown = more]
          BY <2>2, Zenon DEF Queued
    <3> HIDE DEF q, more
    <3> QED BY <1>1, <1>2, <3>1
  <2> QED BY <2>1, <2>2
<1> HIDE DEF q
<1>4. NormalStore(q)
      BY <1>3 DEF NormalStore
<1> QED BY <1>3, <1>4 DEF q

\* A merge keeps what the file decided, and what it had pending is still not decided.
LEMMA MergedIsNormal ==
    ASSUME NEW disk, NEW memory, NormalStore(disk), NormalStore(memory), Within(memory, disk)
    PROVE  NormalStore(MergeStores(disk, memory)) /\ SameVerdicts(MergeStores(disk, memory), disk)
<1> DEFINE m == MergeStores(disk, memory)
           confirmed == [s \in DOMAIN disk.confirmed \cup DOMAIN memory.confirmed |->
                           IF s \in DOMAIN disk.confirmed THEN disk.confirmed[s] ELSE memory.confirmed[s]]
           unseen == Without(memory.unknown, DOMAIN confirmed)
<1>1. /\ DOMAIN m = {"confirmed", "unknown", "ignored"}
      /\ m.confirmed = confirmed
      /\ DOMAIN m.unknown = DOMAIN disk.unknown \cup DOMAIN unseen
      BY DEF MergeStores
<1>2. DOMAIN unseen = DOMAIN memory.unknown \ DOMAIN confirmed
      BY DEF Without, Restrict
<1>3. DOMAIN confirmed = DOMAIN disk.confirmed
      BY DEF Within
<1>4. \A s \in DOMAIN disk.confirmed : confirmed[s] = disk.confirmed[s]
      OBVIOUS
<1> HIDE DEF m, confirmed, unseen
<1>5. SameVerdicts(m, disk)
      BY <1>1, <1>3, <1>4 DEF SameVerdicts
<1>6. NormalStore(m)
      BY <1>1, <1>2, <1>3, <1>5 DEF NormalStore, SameVerdicts
<1> QED BY <1>5, <1>6 DEF m

\* A closed copy knows nothing.
LEMMA ClosedIsSound == DOMAIN Closed = CopyFields /\ ~Closed.open /\ Closed.token = 0
                       /\ Closed.store = EmptyStore /\ ~Closed.dirty
  BY DEF Closed, CopyFields

\* Nothing is known before the first message.
LEMMA RefusalsStartSound == RefusalInit => RefusalInv
<1> SUFFICES ASSUME RefusalInit PROVE RefusalInv
    OBVIOUS
<1>1. refFile \in OldFiles /\ undisturbed = {} /\ refFile.token \in Nat /\ refusalNow = 1
      BY RefusalAssumption DEF RefusalInit
<1>2. daemon = Closed /\ command.op = "none"
      BY DEF RefusalInit, Idle
<1>3. DaemonIsSound /\ Held
      BY <1>1, <1>2, ClosedIsSound, EmptyIsNormal DEF DaemonIsSound, Held
<1>4. WordsAreHis
      BY <1>1, OldStoresAreRead, ClosedIsSound DEF WordsAreHis, Contents, EmptyStore
<1>5. CommandInHand /\ Heard /\ FileIsKept
      BY <1>1, <1>2 DEF CommandInHand, Heard, FileIsKept
<1> QED BY <1>1, <1>3, <1>4, <1>5 DEF RefusalInv

\* The daemon's copy as it is used: its own while the file has not moved.
LEMMA DaemonReadsSoundly ==
    ASSUME RefusalInv
    PROVE  /\ DOMAIN Loaded(daemon) = CopyFields /\ Loaded(daemon).token = refFile.token
           /\ Loaded(daemon).open /\ Loaded(daemon).dirty = daemon.dirty
           /\ NormalStore(Loaded(daemon).store) /\ Within(Loaded(daemon).store, Contents)
           /\ \A s \in undisturbed : s \in DOMAIN Loaded(daemon).store.confirmed
<1>1. DOMAIN daemon = CopyFields
      BY DEF RefusalInv, DaemonIsSound
<1>2. NormalStore(Contents)
      BY ContentsAreNormal DEF RefusalInv
<1>3. CASE daemon.open /\ daemon.token = refFile.token
  <2>1. Loaded(daemon) = daemon
        BY <1>1, <1>3, LoadedIsEither
  <2> QED BY <1>1, <1>3, <2>1 DEF RefusalInv, DaemonIsSound, Held, Heard
<1>4. CASE ~(daemon.open /\ daemon.token = refFile.token)
  <2>1. Loaded(daemon) = [daemon EXCEPT !.open = TRUE, !.token = refFile.token, !.store = Contents]
        BY <1>4, Zenon DEF Loaded, Contents
  <2>2. /\ DOMAIN Loaded(daemon) = CopyFields /\ Loaded(daemon).token = refFile.token
        /\ Loaded(daemon).open = TRUE /\ Loaded(daemon).dirty = daemon.dirty
        /\ Loaded(daemon).store = Contents
        BY <1>1, <2>1 DEF CopyFields
  <2>3. Within(Contents, Contents)
        BY DEF Within
  <2> QED BY <1>2, <2>2, <2>3 DEF RefusalInv, Heard
<1> QED BY <1>3, <1>4

\* A refusal is read with the verdicts of the file and may be put in the queue.
LEMMA RefuseKeepsInv ==
    ASSUME RefusalInv, NEW model, NEW b \in Bodies, Refuse(model, b)
    PROVE  RefusalInv'
<1> DEFINE copy == Loaded(daemon)
           s == Signature(model, b)
<1>1. UNCHANGED <<refFile, command, refusalNow, wordOf, undisturbed>>
      BY DEF Refuse
<1>2. Contents' = Contents
      BY <1>1 DEF Contents
<1>3. IsNormal(s)
      BY RefusalAssumption DEF IsNormal, Signature, Rekey
<1>4. /\ DOMAIN daemon' = CopyFields /\ daemon'.token = refFile.token /\ daemon'.open
      /\ NormalStore(daemon'.store) /\ daemon'.store.confirmed = copy.store.confirmed
  <2>1. CASE Interpret(copy.store, model, b) = NoVerdict /\ Unanswered(copy.store, s)
    <3>1. s \notin DOMAIN copy.store.confirmed
          BY <2>1 DEF Unanswered
    <3>2. daemon' = [copy EXCEPT !.store = Queued(@, s), !.dirty = TRUE]
          BY <2>1, Zenon DEF Refuse
    <3>3. NormalStore(Queued(copy.store, s)) /\ Queued(copy.store, s).confirmed = copy.store.confirmed
          BY <1>3, <3>1, DaemonReadsSoundly, QueuedIsNormal
    <3> HIDE DEF copy, s
    <3>4. DOMAIN copy = CopyFields /\ copy.token = refFile.token /\ copy.open
          BY DaemonReadsSoundly DEF copy
    <3> QED BY <3>2, <3>3, <3>4 DEF CopyFields
  <2>2. CASE ~(Interpret(copy.store, model, b) = NoVerdict /\ Unanswered(copy.store, s))
    <3>1. daemon' = copy
          BY <2>2, Zenon DEF Refuse
    <3> QED BY <3>1, DaemonReadsSoundly
  <2> QED BY <2>1, <2>2
<1>5. DaemonIsSound'
      BY <1>1, <1>4 DEF DaemonIsSound, RefusalInv
<1>6. Held' /\ Heard'
  <2>1. Within(copy.store, Contents) /\ \A x \in undisturbed : x \in DOMAIN copy.store.confirmed
        BY DaemonReadsSoundly
  <2> HIDE DEF copy
  <2>2. Held'
        BY <1>2, <1>4, <2>1 DEF Held, Within
  <2>3. Heard'
        BY <1>1, <1>2, <1>4, <2>1 DEF Heard, RefusalInv
  <2> QED BY <2>2, <2>3
<1>7. CommandInHand' /\ WordsAreHis' /\ FileIsKept'
      BY <1>1, <1>2 DEF CommandInHand, WordsAreHis, FileIsKept, RefusalInv
<1> QED BY <1>1, <1>5, <1>6, <1>7 DEF RefusalInv

\* The daemon writes what it knows, with what the file has besides if it moved;
\* the copy itself learns nothing of it.
LEMMA FlushKeepsInv == ASSUME RefusalInv, FlushRefusals PROVE RefusalInv'
<1>1. UNCHANGED <<command, refusalNow, wordOf, undisturbed>> /\ daemon.dirty /\ daemon.open
      BY DEF FlushRefusals, RefusalInv, DaemonIsSound
<1>2. DOMAIN daemon = CopyFields /\ NormalStore(daemon.store) /\ Within(daemon.store, Contents)
      /\ daemon.token \in Nat /\ daemon.token <= refFile.token /\ refFile.token \in Nat
      BY DEF RefusalInv, DaemonIsSound, Held
<1>3. NormalStore(Contents)
      BY ContentsAreNormal DEF RefusalInv
<1>4. CASE refFile' = refFile /\ daemon' = [daemon EXCEPT !.dirty = FALSE]
  <2>1. /\ DOMAIN daemon' = CopyFields /\ daemon'.open = daemon.open /\ daemon'.token = daemon.token
        /\ daemon'.store = daemon.store /\ ~daemon'.dirty
        BY <1>2, <1>4 DEF CopyFields
  <2>2. Contents' = Contents
        BY <1>4 DEF Contents
  <2>3. DaemonIsSound' /\ Held'
        BY <1>2, <1>4, <2>1, <2>2 DEF DaemonIsSound, Held
  <2>4. Heard'
        BY <1>1, <1>4, <2>1, <2>2 DEF Heard, RefusalInv
  <2>5. CommandInHand' /\ WordsAreHis' /\ FileIsKept'
        BY <1>1, <1>4, <2>2 DEF CommandInHand, WordsAreHis, FileIsKept, RefusalInv
  <2> QED BY <1>1, <1>4, <2>3, <2>4, <2>5 DEF RefusalInv
<1>5. CASE refFile' = File(ToWrite(daemon)) /\ daemon' = Saved(daemon)
  <2> DEFINE st == ToWrite(daemon)
  <2>1. /\ NormalStore(st) /\ Within(daemon.store, st) /\ Within(st, Contents)
        /\ \A s \in undisturbed : s \in DOMAIN st.confirmed
    <3>1. \A s \in undisturbed : s \in DOMAIN daemon.store.confirmed
          BY <1>1 DEF RefusalInv, Heard
    <3>2. CASE refFile.token # 0 /\ refFile.token # daemon.token
      <4>1. st = MergeStores(Contents, daemon.store)
            BY <3>2 DEF ToWrite, Contents
      <4> HIDE DEF st
      <4>2. NormalStore(st) /\ SameVerdicts(st, Contents)
            BY <1>2, <1>3, <4>1, MergedIsNormal
      <4> QED BY <1>2, <3>1, <4>2 DEF SameVerdicts, Within
    <3>3. CASE ~(refFile.token # 0 /\ refFile.token # daemon.token)
      <4>1. st = daemon.store
            BY <3>3 DEF ToWrite
      <4> HIDE DEF st
      <4> QED BY <1>2, <3>1, <4>1 DEF Within
    <3> QED BY <3>2, <3>3
  <2> HIDE DEF st
  <2>2. refFile' = File(st)
        BY <1>5 DEF st
  <2>3. /\ refFile'.token = refFile.token + 1 /\ refFile'.token \in Nat /\ FileIsKept'
        /\ SameVerdicts(Contents', st)
        BY <1>2, <2>1, <2>2, WrittenIsRead
  <2>4. /\ DOMAIN daemon' = CopyFields /\ daemon'.open = daemon.open
        /\ daemon'.token = refFile.token + 1 /\ daemon'.store = daemon.store /\ ~daemon'.dirty
        BY <1>2, <1>5 DEF CopyFields, Saved
  <2>5. DaemonIsSound' /\ Held'
        BY <1>2, <2>1, <2>3, <2>4 DEF DaemonIsSound, Held, SameVerdicts, Within
  <2>6. Within(Contents', Contents)
        BY <2>1, <2>3 DEF SameVerdicts, Within
  <2>7. WordsAreHis'
        BY <1>1, <2>6 DEF WordsAreHis, RefusalInv, Within
  <2>8. Heard'
    <3>1. \A s \in undisturbed : s \in DOMAIN daemon.store.confirmed
          BY <1>1 DEF RefusalInv, Heard
    <3>2. \A s \in undisturbed : s \in DOMAIN Contents' .confirmed
          BY <2>1, <2>3 DEF SameVerdicts
    <3> QED BY <1>1, <2>4, <2>6, <3>1, <3>2 DEF Heard, RefusalInv, Within
  <2>9. CommandInHand'
    <3>1. command.op # "none" => /\ command.copy.token \in Nat /\ command.copy.token <= refFile.token
                                 /\ command.on \notin DOMAIN Contents' .confirmed
          BY <2>6 DEF CommandInHand, RefusalInv, Within
    <3> QED BY <1>1, <1>2, <2>3, <3>1 DEF CommandInHand, RefusalInv
  <2> QED BY <1>1, <2>3, <2>5, <2>7, <2>8, <2>9 DEF RefusalInv
<1> QED BY <1>4, <1>5 DEF FlushRefusals

\* A daemon that stops forgets its copy, not the file.
LEMMA StopKeepsInv == ASSUME RefusalInv, StopDaemon PROVE RefusalInv'
<1>1. UNCHANGED <<refFile, command, refusalNow, wordOf, undisturbed>> /\ daemon' = Closed
      BY DEF StopDaemon
<1>2. Contents' = Contents
      BY <1>1 DEF Contents
<1>3. DaemonIsSound' /\ Held' /\ Heard'
      BY <1>1, <1>2, ClosedIsSound, EmptyIsNormal DEF DaemonIsSound, Held, Heard, RefusalInv
<1>4. CommandInHand' /\ WordsAreHis' /\ FileIsKept'
      BY <1>1, <1>2 DEF CommandInHand, WordsAreHis, FileIsKept, RefusalInv
<1> QED BY <1>1, <1>3, <1>4 DEF RefusalInv

\* The invariant does not speak of how late it is.
LEMMA OnlyTimePasses ==
    ASSUME RefusalInv, UNCHANGED <<refFile, daemon, command, wordOf, undisturbed>>,
           refusalNow' \in Nat, refusalNow' > 0
    PROVE  RefusalInv'
<1>1. Contents' = Contents
      BY DEF Contents
<1>2. DaemonIsSound' /\ Held' /\ Heard'
      BY <1>1 DEF DaemonIsSound, Held, Heard, RefusalInv
<1>3. CommandInHand' /\ WordsAreHis' /\ FileIsKept'
      BY <1>1 DEF CommandInHand, WordsAreHis, FileIsKept, RefusalInv
<1> QED BY <1>2, <1>3 DEF RefusalInv

\* The command lists what is pending of what the file holds now.
LEMMA CommandReadsSoundly ==
    ASSUME RefusalInv, NEW op \in {"accept", "reject", "propose"}, NEW v, CommandReads(op, v)
    PROVE  RefusalInv'
<1> DEFINE copy == Loaded(Closed)
           store == StillPending(copy.store)
<1>1. UNCHANGED <<refFile, daemon, refusalNow, wordOf, undisturbed>>
      BY DEF CommandReads
<1>2. Contents' = Contents
      BY <1>1 DEF Contents
<1>3. DOMAIN copy = CopyFields /\ copy.token = refFile.token /\ copy.store = Contents
  <2>1. copy = [Closed EXCEPT !.open = TRUE, !.token = refFile.token, !.store = Contents]
        BY ClosedIsSound, Zenon DEF Loaded, Contents
  <2> QED BY <2>1, ClosedIsSound DEF CopyFields
<1>4. NormalStore(Contents)
      BY ContentsAreNormal DEF RefusalInv
<1>5. NormalStore(store) /\ store.confirmed = Contents.confirmed /\ DOMAIN store.unknown \subseteq DOMAIN Contents.unknown
  <2>1. store = [Contents EXCEPT !.unknown = Without(@, {s \in DOMAIN @ : Seeded(s.status, s.says) # NoVerdict})]
        BY <1>3 DEF StillPending
  <2>2. DOMAIN Without(Contents.unknown, {s \in DOMAIN Contents.unknown : Seeded(s.status, s.says) # NoVerdict})
           \subseteq DOMAIN Contents.unknown
        BY DEF Without, Restrict
  <2> HIDE DEF store, copy
  <2>3. /\ DOMAIN store = DOMAIN Contents /\ store.confirmed = Contents.confirmed
        /\ DOMAIN store.unknown \subseteq DOMAIN Contents.unknown
        BY <1>4, <2>1, <2>2 DEF NormalStore
  <2> QED BY <1>4, <2>3 DEF NormalStore
<1>6. PICK s \in DOMAIN store.unknown :
         command' = [op |-> op, on |-> s, says |-> v,
                     copy |-> [copy EXCEPT !.store = store, !.dirty = store # copy.store]]
      BY Zenon DEF CommandReads
<1>7. op = "accept" => "at" \in DOMAIN v
  <2>1. op = "accept" => v \in Declared
        BY DEF CommandReads
  <2>2. "at" \in DOMAIN NoVerdict
        BY DEF NoVerdict, Verdict
  <2> QED BY <2>1, <2>2, RefusalAssumption
<1> HIDE DEF copy, store
<1>8. /\ command'.op = op /\ command'.on = s /\ command'.says = v
      /\ DOMAIN command'.copy = CopyFields /\ command'.copy.token = refFile.token
      /\ command'.copy.store = store
      BY <1>3, <1>6 DEF CopyFields
<1>9. IsNormal(s) /\ s \notin DOMAIN Contents.confirmed
      BY <1>4, <1>5 DEF NormalStore
<1>10. SameVerdicts(store, Contents)
      BY <1>5 DEF SameVerdicts
<1>11. CommandInHand'
  <2>1. refFile.token \in Nat
        BY DEF RefusalInv
  <2> QED BY <1>1, <1>2, <1>5, <1>7, <1>8, <1>9, <1>10, <2>1 DEF CommandInHand
<1>12. DaemonIsSound' /\ Held' /\ Heard' /\ WordsAreHis' /\ FileIsKept'
      BY <1>1, <1>2 DEF DaemonIsSound, Held, Heard, WordsAreHis, FileIsKept, RefusalInv
<1> QED BY <1>1, <1>11, <1>12 DEF RefusalInv

\* A decision touches no verdict but the one accepted.
LEMMA DecidedIsNormal ==
    ASSUME NEW st, NormalStore(st), NEW s, IsNormal(s), s \notin DOMAIN st.confirmed,
           NEW op, NEW v, op = "accept" => "at" \in DOMAIN v, refusalNow \in Nat
    PROVE  /\ NormalStore(Decide(st, op, s, v))
           /\ op # "accept" => Decide(st, op, s, v).confirmed = st.confirmed
           /\ op = "accept" => /\ DOMAIN Decide(st, op, s, v).confirmed = DOMAIN st.confirmed \cup {s}
                               /\ Decide(st, op, s, v).confirmed[s].at = refusalNow
                               /\ \A x \in DOMAIN st.confirmed :
                                     Decide(st, op, s, v).confirmed[x] = st.confirmed[x]
<1> DEFINE d == Decide(st, op, s, v)
           less == Without(st.unknown, {s})
<1>1. DOMAIN less = DOMAIN st.unknown \ {s}
      BY DEF Without, Restrict
<1>2. DOMAIN st = {"confirmed", "unknown", "ignored"}
      BY DEF NormalStore
<1>3. CASE op = "accept"
  <2> DEFINE word == Accepted(st, s, v)
             more == With(st.confirmed, s, word)
  <2>1. word.at = refusalNow
        BY <1>3 DEF Accepted
  <2>2. DOMAIN more = DOMAIN st.confirmed \cup {s} /\ more[s] = word
        /\ \A x \in DOMAIN st.confirmed : more[x] = st.confirmed[x]
        BY DEF With
  <2>3. d = [st EXCEPT !.confirmed = more, !.unknown = less]
        BY <1>3, Zenon DEF Decide
  <2> HIDE DEF d, less, more, word
  <2>4. DOMAIN d = DOMAIN st /\ d.confirmed = more /\ d.unknown = less
        BY <1>2, <2>3
  <2>5. NormalStore(d)
        BY <1>1, <2>1, <2>2, <2>4 DEF NormalStore
  <2>6. /\ DOMAIN d.confirmed = DOMAIN st.confirmed \cup {s} /\ d.confirmed[s].at = refusalNow
        /\ \A x \in DOMAIN st.confirmed : d.confirmed[x] = st.confirmed[x]
        BY <2>1, <2>2, <2>4
  <2> QED BY <1>3, <2>5, <2>6 DEF d
<1>4. CASE op # "accept"
  <2>1. DOMAIN d = DOMAIN st /\ d.confirmed = st.confirmed /\ DOMAIN d.unknown \subseteq DOMAIN st.unknown
    <3>1. CASE s \notin DOMAIN st.unknown
      <4>1. d = st
            BY <1>4, <3>1, Zenon DEF Decide
      <4> HIDE DEF d
      <4> QED BY <4>1
    <3>2. CASE s \in DOMAIN st.unknown /\ op = "reject"
      <4> DEFINE put == With(st.ignored, s, refusalNow)
      <4>1. d = [st EXCEPT !.unknown = less, !.ignored = put]
            BY <1>4, <3>2, Zenon DEF Decide
      <4> HIDE DEF d, less, put
      <4> QED BY <1>1, <1>2, <4>1
    <3>3. CASE s \in DOMAIN st.unknown /\ op # "reject"
      <4>1. d = [st EXCEPT !.unknown[s].proposed = v]
            BY <1>4, <3>3, Zenon DEF Decide
      <4> HIDE DEF d
      <4> QED BY <1>2, <4>1
    <3> QED BY <3>1, <3>2, <3>3
  <2> HIDE DEF d
  <2>2. NormalStore(d)
        BY <2>1 DEF NormalStore
  <2> QED BY <1>4, <2>1, <2>2 DEF d
<1> QED BY <1>3, <1>4

\* What the command has in hand when it decides is what the file holds.
LEMMA CommandReadsAgain ==
    ASSUME RefusalInv, command.op # "none"
    PROVE  /\ DOMAIN Loaded(command.copy) = CopyFields
           /\ Loaded(command.copy).token = refFile.token
           /\ NormalStore(Loaded(command.copy).store)
           /\ SameVerdicts(Loaded(command.copy).store, Contents)
<1> DEFINE copy == command.copy
<1>1. /\ DOMAIN copy = CopyFields /\ NormalStore(copy.store)
      /\ copy.token = refFile.token => SameVerdicts(copy.store, Contents)
      BY DEF RefusalInv, CommandInHand
<1>2. NormalStore(Contents) /\ SameVerdicts(Contents, Contents)
      BY ContentsAreNormal DEF RefusalInv, SameVerdicts
<1> HIDE DEF copy
<1>3. CASE copy.open /\ copy.token = refFile.token
  <2>1. Loaded(copy) = copy
        BY <1>1, <1>3, LoadedIsEither
  <2> QED BY <1>1, <1>3, <2>1 DEF copy
<1>4. CASE ~(copy.open /\ copy.token = refFile.token)
  <2>1. Loaded(copy) = [copy EXCEPT !.open = TRUE, !.token = refFile.token, !.store = Contents]
        BY <1>4, Zenon DEF Loaded, Contents
  <2>2. DOMAIN Loaded(copy) = CopyFields /\ Loaded(copy).token = refFile.token /\ Loaded(copy).store = Contents
        BY <1>1, <2>1 DEF CopyFields
  <2> QED BY <1>2, <2>2 DEF copy
<1> QED BY <1>3, <1>4

\* A command that ends without a write, for want of a change or because the write
\* failed, has said nothing.
LEMMA UnwrittenKeepsInv ==
    ASSUME RefusalInv, UNCHANGED <<refFile, daemon, refusalNow, wordOf>>,
           undisturbed' \subseteq undisturbed, command'.op = "none"
    PROVE  RefusalInv'
<1>1. Contents' = Contents
      BY DEF Contents
<1>2. DaemonIsSound' /\ Held' /\ WordsAreHis'
      BY <1>1 DEF DaemonIsSound, Held, WordsAreHis, RefusalInv
<1>3. Heard' /\ CommandInHand' /\ FileIsKept'
  <2>1. Heard' /\ CommandInHand'
        BY <1>1 DEF Heard, CommandInHand, RefusalInv
  <2>2. FileIsKept'
        BY DEF FileIsKept, RefusalInv
  <2> QED BY <2>1, <2>2
<1> QED BY <1>2, <1>3 DEF RefusalInv

\* An acceptance is written with everything the file had decided before it; a
\* daemon with something unsaved may still write over it, any other reads it first.
LEMMA ActKeepsInv == ASSUME RefusalInv, CommandActs PROVE RefusalInv'
<1> DEFINE copy == Loaded(command.copy)
           store == Decide(copy.store, command.op, command.on, command.says)
           next == [copy EXCEPT !.store = store]
           dirty == copy.dirty \/ store # copy.store
           s == command.on
<1>1. /\ command.op # "none" /\ UNCHANGED <<daemon, refusalNow>> /\ command' = Idle
      /\ \/ dirty /\ refFile' = File(ToWrite(next))
         \/ refFile' = refFile
      /\ wordOf' = IF (dirty /\ refFile'.token # refFile.token) /\ command.op = "accept"
                   THEN With(wordOf, s, store.confirmed[s]) ELSE wordOf
      /\ undisturbed' = IF (dirty /\ refFile'.token # refFile.token) /\ command.op = "accept" /\ ~daemon.dirty
                        THEN undisturbed \cup {s}
                        ELSE undisturbed \ (IF command.op = "accept" THEN {s} ELSE {})
      BY Zenon DEF CommandActs
<1>2. command'.op = "none"
      BY <1>1 DEF Idle
<1>3. /\ DOMAIN copy = CopyFields /\ copy.token = refFile.token
      /\ NormalStore(copy.store) /\ SameVerdicts(copy.store, Contents)
      BY <1>1, CommandReadsAgain
<1>4. /\ IsNormal(s) /\ s \notin DOMAIN Contents.confirmed /\ refusalNow \in Nat /\ refusalNow > 0
      /\ refFile.token \in Nat /\ (command.op = "accept" => "at" \in DOMAIN command.says)
      BY <1>1 DEF RefusalInv, CommandInHand
<1>5. s \notin DOMAIN copy.store.confirmed
      BY <1>3, <1>4 DEF SameVerdicts
<1> HIDE DEF copy
<1>6. NormalStore(store)
      BY <1>3, <1>4, <1>5, DecidedIsNormal
<1>7. command.op # "accept" => store.confirmed = copy.store.confirmed
      BY <1>3, <1>4, <1>5, DecidedIsNormal
<1>8. command.op = "accept" => /\ DOMAIN store.confirmed = DOMAIN copy.store.confirmed \cup {s}
                               /\ store.confirmed[s].at = refusalNow
                               /\ \A x \in DOMAIN copy.store.confirmed : store.confirmed[x] = copy.store.confirmed[x]
      BY <1>3, <1>4, <1>5, DecidedIsNormal
<1> HIDE DEF store, s
<1>9. next.store = store /\ next.token = refFile.token
      BY <1>3 DEF CopyFields
<1>10. ToWrite(next) = store
      BY <1>9 DEF ToWrite
<1> HIDE DEF next, dirty
<1>11. CASE refFile' = refFile
  <2>1. wordOf' = wordOf /\ undisturbed' \subseteq undisturbed
        BY <1>1, <1>11
  <2> QED BY <1>1, <1>2, <1>11, <2>1, UnwrittenKeepsInv
<1>12. CASE dirty /\ refFile' = File(ToWrite(next))
  <2>1. refFile' = File(store)
        BY <1>10, <1>12
  <2>2. /\ refFile'.token = refFile.token + 1 /\ refFile'.token \in Nat /\ FileIsKept'
        /\ SameVerdicts(Contents', store)
        BY <1>4, <1>6, <2>1, WrittenIsRead
  <2>3. refFile'.token # refFile.token
        BY <1>4, <2>2
  <2>4. Within(Contents, Contents')
    <3>1. \A x \in DOMAIN Contents.confirmed : x \in DOMAIN store.confirmed /\ store.confirmed[x] = Contents.confirmed[x]
          BY <1>3, <1>7, <1>8 DEF SameVerdicts
    <3> QED BY <2>2, <3>1 DEF Within, SameVerdicts
  <2>5. Held'
        BY <1>1, <2>4 DEF Held, Within, RefusalInv
  <2>6. /\ daemon.token \in Nat /\ daemon.token < refFile'.token
        /\ DaemonIsSound'
    <3>1. daemon.token \in Nat /\ daemon.token <= refFile.token
          BY DEF RefusalInv, DaemonIsSound
    <3>2. daemon.token < refFile'.token
          BY <1>4, <2>2, <3>1
    <3>3. refFile'.token \in Nat /\ daemon' = daemon
          BY <1>1, <2>2
    <3>4. daemon.token <= refFile'.token
          BY <3>1, <3>2, <3>3
    <3> QED BY <3>1, <3>2, <3>3, <3>4 DEF RefusalInv, DaemonIsSound
  <2>7. CASE command.op = "accept"
    <3>1. wordOf' = With(wordOf, s, store.confirmed[s])
          BY <1>1, <1>12, <2>3, <2>7
    <3>2. /\ DOMAIN wordOf' = DOMAIN wordOf \cup {s} /\ wordOf'[s] = store.confirmed[s]
          /\ \A x \in DOMAIN wordOf : x # s => wordOf'[x] = wordOf[x]
          BY <3>1 DEF With
    <3>3. /\ s \in DOMAIN Contents' .confirmed /\ Contents' .confirmed[s] = wordOf'[s]
          /\ wordOf'[s].at = refusalNow
          BY <1>8, <2>2, <2>7, <3>2 DEF SameVerdicts
    <3>4. \A x \in DOMAIN Contents' .confirmed : x # s => /\ x \in DOMAIN Contents.confirmed
                                                         /\ Contents' .confirmed[x] = Contents.confirmed[x]
          BY <1>3, <1>8, <2>2, <2>7 DEF SameVerdicts
    <3>5. WordsAreHis'
      <4>1. ASSUME NEW x \in DOMAIN Contents' .confirmed
            PROVE  (x \in DOMAIN wordOf' /\ Contents' .confirmed[x] = wordOf'[x]) \/ OldKey(x)
        <5>1. CASE x = s
              BY <3>2, <3>3, <5>1
        <5>2. CASE x # s
              BY <3>2, <3>4, <5>2 DEF WordsAreHis, RefusalInv
        <5> QED BY <5>1, <5>2
      <4> QED BY <4>1 DEF WordsAreHis
    <3>6. ASSUME NEW x \in undisturbed, x # s
          PROVE  /\ x \in DOMAIN wordOf' /\ wordOf'[x].at \in Nat /\ wordOf'[x].at > 0
                 /\ x \in DOMAIN Contents' .confirmed /\ Contents' .confirmed[x] = wordOf'[x]
                 /\ daemon.open /\ daemon.dirty => x \in DOMAIN daemon.store.confirmed
      <4>1. /\ x \in DOMAIN wordOf /\ wordOf[x].at \in Nat /\ wordOf[x].at > 0
            /\ x \in DOMAIN Contents.confirmed /\ Contents.confirmed[x] = wordOf[x]
            /\ daemon.open /\ daemon.dirty => x \in DOMAIN daemon.store.confirmed
            BY DEF RefusalInv, Heard
      <4> QED BY <2>4, <3>2, <3>6, <4>1 DEF Within
    <3>7. Heard'
      <4>1. ASSUME NEW x \in undisturbed' PROVE x = s \/ x \in undisturbed
            BY <1>1
      <4>2. s \in undisturbed' => ~daemon.dirty
            BY <1>1, <1>12, <2>3, <2>7
      <4>3. \A x \in undisturbed' :
               /\ x \in DOMAIN wordOf' /\ wordOf'[x].at \in Nat /\ wordOf'[x].at > 0
               /\ x \in DOMAIN Contents' .confirmed /\ Contents' .confirmed[x] = wordOf'[x]
               /\ daemon.open /\ daemon.dirty => x \in DOMAIN daemon.store.confirmed
        <5>1. SUFFICES ASSUME NEW x \in undisturbed'
              PROVE /\ x \in DOMAIN wordOf' /\ wordOf'[x].at \in Nat /\ wordOf'[x].at > 0
                    /\ x \in DOMAIN Contents' .confirmed /\ Contents' .confirmed[x] = wordOf'[x]
                    /\ daemon.open /\ daemon.dirty => x \in DOMAIN daemon.store.confirmed
              OBVIOUS
        <5>2. CASE x = s
              BY <1>4, <3>2, <3>3, <4>2, <5>2
        <5>3. CASE x # s
              BY <3>6, <4>1, <5>3
        <5> QED BY <5>2, <5>3
      <4> QED BY <1>1, <2>6, <4>3 DEF Heard
    <3> QED BY <1>1, <1>2, <1>4, <2>2, <2>5, <2>6, <3>5, <3>7 DEF RefusalInv, CommandInHand
  <2>8. CASE command.op # "accept"
    <3>1. wordOf' = wordOf /\ undisturbed' = undisturbed
          BY <1>1, <2>8
    <3>2. Within(Contents', Contents)
          BY <1>3, <1>7, <2>2, <2>8 DEF Within, SameVerdicts
    <3>3. WordsAreHis'
          BY <3>1, <3>2 DEF WordsAreHis, RefusalInv, Within
    <3>4. Heard'
          BY <1>1, <2>4, <2>6, <3>1 DEF Heard, RefusalInv, Within
    <3> QED BY <1>1, <1>2, <1>4, <2>2, <2>5, <2>6, <3>3, <3>4 DEF RefusalInv, CommandInHand
  <2> QED BY <2>7, <2>8
<1> QED BY <1>1, <1>11, <1>12

\* Every step keeps what the copies know of the file.
LEMMA RefusalStepsKeepInv == RefusalInv /\ [RefusalNext]_refusalVars => RefusalInv'
<1> SUFFICES ASSUME RefusalInv, [RefusalNext]_refusalVars PROVE RefusalInv'
    OBVIOUS
<1>1. CASE \E model \in RefusedModels, b \in Bodies : Refuse(model, b)
      BY <1>1, RefuseKeepsInv
<1>2. CASE FlushRefusals
      BY <1>2, FlushKeepsInv
<1>3. CASE StopDaemon
      BY <1>3, StopKeepsInv
<1>4. CASE \E op \in {"accept", "reject", "propose"}, v \in Declared \cup {NoVerdict} : CommandReads(op, v)
      BY <1>4, CommandReadsSoundly
<1>5. CASE CommandActs
      BY <1>5, ActKeepsInv
<1>6. CASE RefusalTick
  <2>1. refusalNow \in Nat /\ refusalNow > 0
        BY DEF RefusalInv
  <2> QED BY <1>6, <2>1, OnlyTimePasses DEF RefusalTick
<1>7. CASE UNCHANGED refusalVars
  <2>1. refusalNow \in Nat /\ refusalNow > 0
        BY DEF RefusalInv
  <2> QED BY <1>7, <2>1, OnlyTimePasses DEF refusalVars
<1> QED BY <1>1, <1>2, <1>3, <1>4, <1>5, <1>6, <1>7 DEF RefusalNext

\* What is inductive is what is meant: an acceptance made while the daemon had
\* nothing unsaved is in the file and is the daemon's answer, and nothing but the
\* operator's word, or the file's own from before, is answered with.
LEMMA VerdictsHoldInside == RefusalInv => OperatorVerdictsHold
<1> SUFFICES ASSUME RefusalInv PROVE OperatorVerdictsHold
    OBVIOUS
<1>1. ASSUME NEW s \in undisturbed
      PROVE  /\ s \in DOMAIN refFile.confirmed /\ refFile.confirmed[s] = wordOf[s]
             /\ \A b \in Bodies : Signature(s.model, b) = s => Answered(s.model, b) = wordOf[s]
  <2>1. /\ s \in DOMAIN wordOf /\ wordOf[s].at > 0
        /\ s \in DOMAIN Contents.confirmed /\ Contents.confirmed[s] = wordOf[s]
        BY DEF RefusalInv, Heard
  <2>2. refFile.token \in Nat /\ refFile.token > 0 /\ refFile.version = 2 /\ NormalStore(Stored(refFile))
        BY DEF RefusalInv, FileIsKept
  <2>3. SameVerdicts(Contents, Stored(refFile))
        BY <2>2, KeptFilesAreReadAsTheyAre
  <2>4. s \in DOMAIN refFile.confirmed /\ refFile.confirmed[s] = wordOf[s]
        BY <2>1, <2>3 DEF SameVerdicts, Stored
  <2>5. s \in DOMAIN Loaded(daemon).store.confirmed /\ Loaded(daemon).store.confirmed[s] = wordOf[s]
        BY <2>1, DaemonReadsSoundly DEF Within
  <2>6. ASSUME NEW b \in Bodies, Signature(s.model, b) = s PROVE Answered(s.model, b) = wordOf[s]
        BY <2>1, <2>5, <2>6 DEF Answered, Interpret, Binds
  <2> QED BY <2>4, <2>6
<1>2. AcceptancesAreUsed
      BY <1>1 DEF AcceptancesAreUsed
<1>3. /\ \A s \in DOMAIN daemon.store.confirmed :
            (s \in DOMAIN wordOf /\ daemon.store.confirmed[s] = wordOf[s]) \/ OldKey(s)
      /\ DOMAIN daemon.store.confirmed \cap DOMAIN daemon.store.unknown = {}
  <2>1. Within(daemon.store, Contents) /\ WordsAreHis
        BY DEF RefusalInv, Held
  <2>2. NormalStore(daemon.store)
        BY DEF RefusalInv, DaemonIsSound
  <2> QED BY <2>1, <2>2 DEF Within, WordsAreHis, NormalStore
<1>4. /\ \A s \in DOMAIN refFile.confirmed :
            (s \in DOMAIN wordOf /\ refFile.confirmed[s] = wordOf[s]) \/ OldKey(s)
      /\ DOMAIN refFile.confirmed \cap DOMAIN refFile.unknown = {}
  <2>1. CASE refFile \in OldFiles
    <3>1. DOMAIN refFile.confirmed \cap DOMAIN refFile.unknown = {}
          BY <2>1, RefusalAssumption
    <3> QED BY <2>1, <3>1 DEF OldKey
  <2>2. CASE refFile.token > 0 /\ refFile.version = 2 /\ NormalStore(Stored(refFile))
    <3>1. SameVerdicts(Contents, Stored(refFile))
          BY <2>2, KeptFilesAreReadAsTheyAre DEF RefusalInv
    <3>2. \A s \in DOMAIN refFile.confirmed : s \in DOMAIN Contents.confirmed
                                              /\ Contents.confirmed[s] = refFile.confirmed[s]
          BY <3>1 DEF SameVerdicts, Stored
    <3>3. DOMAIN refFile.confirmed \cap DOMAIN refFile.unknown = {}
          BY <2>2 DEF NormalStore, Stored
    <3> QED BY <3>2, <3>3 DEF RefusalInv, WordsAreHis
  <2> QED BY <2>1, <2>2 DEF RefusalInv, FileIsKept
<1>5. OnlyDeclaredBinds
  <2> DEFINE kept == [confirmed |-> refFile.confirmed, unknown |-> refFile.unknown, ignored |-> refFile.ignored]
             Sound(store) == /\ \A s \in DOMAIN store.confirmed :
                                  (s \in DOMAIN wordOf /\ store.confirmed[s] = wordOf[s]) \/ OldKey(s)
                             /\ DOMAIN store.confirmed \cap DOMAIN store.unknown = {}
  <2>1. kept.confirmed = refFile.confirmed /\ kept.unknown = refFile.unknown
        OBVIOUS
  <2>2. Sound(kept)
    <3> HIDE DEF kept
    <3> QED BY <1>4, <2>1
  <2>3. Sound(daemon.store)
        BY <1>3
  <2>4. \A store \in {daemon.store, kept} : Sound(store)
    <3> HIDE DEF Sound, kept
    <3> QED BY <2>2, <2>3
  <2> QED BY <2>4, Zenon DEF OnlyDeclaredBinds, OldKey
<1> QED BY <1>2, <1>5 DEF OperatorVerdictsHold

\* An operator's acceptance, written while the daemon had nothing unsaved, stays
\* in the file whatever the daemon writes later and is its answer from then on; no
\* copy answers with a verdict nobody said (refusal-interpretation.ts).
THEOREM VerdictsHold == RefusalSpec => []OperatorVerdictsHold
<1>1. RefusalInit => RefusalInv
      BY RefusalsStartSound
<1>2. RefusalInv /\ [RefusalNext]_refusalVars => RefusalInv'
      BY RefusalStepsKeepInv
<1>3. RefusalInv => OperatorVerdictsHold
      BY VerdictsHoldInside
<1> QED BY <1>1, <1>2, <1>3, PTL DEF RefusalSpec

-----------------------------------------------------------------------------
(***************************************************************************)
(* What is known of the targets.  A scope is what a refusal, a ceiling or  *)
(* a spend reading of an asked target gives, and nothing unsaved means     *)
(* that the file holds what memory does.                                   *)
(***************************************************************************)

\* The scopes facts are kept under.
ScopeIsSound(s) ==
    \/ /\ s.kind \in {"attempt", "deployment", "group"}
       /\ s.provider \in FactProviders
       /\ s.models \in SUBSET FactModels /\ s.models # {}
       /\ s.kind = "attempt" => s.credential \in FactCredentials
       /\ s.kind = "deployment" => s.credential = "any"
       /\ s.kind = "group" => s.credential \in FactCredentials \cup {"any"}
    \/ s.kind = "credential" /\ s.provider \in FactProviders /\ s.credential \in FactCredentials
    \/ s.kind = "provider" /\ s.provider \in FactProviders
    \/ s.kind = "model" /\ s.models \in SUBSET FactModels /\ s.models # {}

FactsAreSound(fs) ==
    /\ fs = [k \in DOMAIN fs |-> fs[k]]
    /\ \A k \in DOMAIN fs : /\ k[1] \in DOMAIN FactLifetime /\ ScopeIsSound(k[2])
                            /\ fs[k].at \in Nat /\ fs[k].until \in Nat

FactsInv ==
    /\ factNow \in Nat /\ factNow > 0
    /\ touchedAt \in Nat /\ touchedAt <= factNow
    /\ FactsAreSound(facts) /\ FactsAreSound(factFile)
    /\ touchedAt = 0 => facts = factFile

\* Any name goes with any other, and there is always another one.
LEMMA TargetsAreAnyNames ==
    /\ \A p \in FactProviders, c \in FactCredentials, m \in FactModels :
          [provider |-> p, credential |-> c, model |-> m] \in FactTargets
    /\ \A t \in FactTargets : /\ t.provider \in FactProviders /\ t.credential \in FactCredentials
                              /\ t.model \in FactModels
    /\ "any" \notin FactProviders /\ "any" \notin FactCredentials /\ "any" \notin FactModels
    /\ FactTargets # {} => \A x : /\ \E p \in FactProviders : p # x
                                   /\ \E c \in FactCredentials : c # x
                                   /\ \E m \in FactModels : m # x
<1>1. FactTargets = [provider : FactProviders, credential : FactCredentials, model : FactModels]
      BY FactAssumption
<1>2. \A S \in {FactProviders, FactCredentials, FactModels} : "any" \notin S /\ \A x \in S : S # {x}
      BY FactAssumption
<1>3. FactTargets # {} => FactProviders # {} /\ FactCredentials # {} /\ FactModels # {}
      BY DEF FactProviders, FactCredentials, FactModels
<1>4. \A S \in {FactProviders, FactCredentials, FactModels} : S # {} => \A x : \E y \in S : y # x
      BY <1>2
<1>5. \A t \in FactTargets : t.provider \in FactProviders /\ t.credential \in FactCredentials /\ t.model \in FactModels
      BY DEF FactProviders, FactCredentials, FactModels
<1> QED BY <1>1, <1>2, <1>3, <1>4, <1>5

\* An operator's clear picks a fact exactly when every target it covers is named.
LEMMA SelectorsPickByCover ==
    ASSUME NEW s, ScopeIsSound(s), NEW sel \in Selectors
    PROVE  InSelector(s, sel) <=> \A t \in FactTargets : Covers(s, t) => Inside(sel, t)
<1> DEFINE T(p, c, m) == [provider |-> p, credential |-> c, model |-> m]
<1>1. /\ sel.provider \in FactProviders
      /\ sel.credential \in FactCredentials \cup {"any"}
      /\ sel.model \in FactModels \cup {"any"}
      BY FactAssumption
<1>2. /\ \A p \in FactProviders, c \in FactCredentials, m \in FactModels : T(p, c, m) \in FactTargets
      /\ "any" \notin FactCredentials /\ "any" \notin FactModels
      /\ \A t \in FactTargets : t.provider \in FactProviders /\ t.credential \in FactCredentials
                                /\ t.model \in FactModels
      BY TargetsAreAnyNames
<1>3. FactTargets # {}
      BY <1>1 DEF FactProviders
<1>4. \A x : /\ \E p \in FactProviders : p # x
             /\ \E c \in FactCredentials : c # x
             /\ \E m \in FactModels : m # x
      BY <1>3, TargetsAreAnyNames
<1>5. \A p, c, m : /\ T(p, c, m).provider = p /\ T(p, c, m).credential = c /\ T(p, c, m).model = m
      OBVIOUS
<1>6. ASSUME NEW p \in FactProviders, NEW c \in FactCredentials, NEW m \in FactModels,
             \A t \in FactTargets : Covers(s, t) => Inside(sel, t), Covers(s, T(p, c, m))
      PROVE  /\ p = sel.provider /\ sel.credential \in {"any", c} /\ sel.model \in {"any", m}
      BY <1>2, <1>5, <1>6 DEF Inside
<1> HIDE DEF T
<1>7. CASE s.kind \in {"attempt", "deployment", "group"}
  <2>1. /\ s.provider \in FactProviders
        /\ s.models \subseteq FactModels /\ s.models # {}
        /\ s.credential \in FactCredentials \cup {"any"}
        /\ s.kind = "deployment" <=> (s.credential = "any" /\ s.kind # "group")
        BY <1>2, <1>7 DEF ScopeIsSound
  <2>2. \A t : Covers(s, t) <=> /\ s.provider = t.provider /\ t.model \in s.models
                               /\ s.credential \in {"any", t.credential}
        BY <1>7 DEF Covers
  <2>3. InSelector(s, sel) <=> /\ s.provider = sel.provider
                               /\ \A m \in s.models : sel.model = "any" \/ sel.model = m
                               /\ sel.credential = "any" \/ (s.kind # "deployment" /\ sel.credential = s.credential)
        BY <1>7 DEF InSelector
  <2>4. InSelector(s, sel) => \A t \in FactTargets : Covers(s, t) => Inside(sel, t)
        BY <1>1, <1>2, <2>1, <2>2, <2>3 DEF Inside
  <2>5. ASSUME \A t \in FactTargets : Covers(s, t) => Inside(sel, t) PROVE InSelector(s, sel)
    <3>1. PICK m0 \in s.models : TRUE
          BY <2>1
    <3>2. ASSUME NEW c \in FactCredentials, NEW m \in s.models, s.credential \in {"any", c}
          PROVE  s.provider = sel.provider /\ sel.credential \in {"any", c} /\ sel.model \in {"any", m}
      <4>1. Covers(s, T(s.provider, c, m))
            BY <1>5, <2>2, <3>2
      <4> QED BY <1>6, <2>1, <2>5, <4>1
    <3>3. CASE s.credential = "any"
      <4>1. PICK c \in FactCredentials : c # sel.credential
            BY <1>4
      <4>2. s.provider = sel.provider /\ sel.credential = "any"
            BY <3>1, <3>2, <3>3, <4>1
      <4> QED BY <2>3, <3>2, <3>3, <4>1, <4>2
    <3>4. CASE s.credential # "any"
      <4>1. s.credential \in FactCredentials /\ s.kind # "deployment"
            BY <2>1, <3>4
      <4> QED BY <2>3, <3>1, <3>2, <4>1
    <3> QED BY <3>3, <3>4
  <2> QED BY <2>4, <2>5
<1>8. CASE s.kind = "credential"
  <2>1. s.provider \in FactProviders /\ s.credential \in FactCredentials
        BY <1>8 DEF ScopeIsSound
  <2>2. \A t : Covers(s, t) <=> s.provider = t.provider /\ s.credential = t.credential
        BY <1>8 DEF Covers
  <2>3. InSelector(s, sel) <=> /\ s.provider = sel.provider /\ sel.model = "any"
                               /\ sel.credential = "any" \/ sel.credential = s.credential
        BY <1>8 DEF InSelector
  <2>4. InSelector(s, sel) => \A t \in FactTargets : Covers(s, t) => Inside(sel, t)
        BY <2>2, <2>3 DEF Inside
  <2>5. ASSUME \A t \in FactTargets : Covers(s, t) => Inside(sel, t) PROVE InSelector(s, sel)
    <3>1. PICK m \in FactModels : m # sel.model
          BY <1>4
    <3>2. Covers(s, T(s.provider, s.credential, m))
          BY <1>5, <2>2
    <3> QED BY <1>6, <2>1, <2>3, <2>5, <3>1, <3>2
  <2> QED BY <2>4, <2>5
<1>9. CASE s.kind = "provider"
  <2>1. s.provider \in FactProviders
        BY <1>9 DEF ScopeIsSound
  <2>2. \A t : Covers(s, t) <=> s.provider = t.provider
        BY <1>9 DEF Covers
  <2>3. InSelector(s, sel) <=> s.provider = sel.provider /\ sel.model = "any" /\ sel.credential = "any"
        BY <1>9 DEF InSelector
  <2>4. InSelector(s, sel) => \A t \in FactTargets : Covers(s, t) => Inside(sel, t)
        BY <2>2, <2>3 DEF Inside
  <2>5. ASSUME \A t \in FactTargets : Covers(s, t) => Inside(sel, t) PROVE InSelector(s, sel)
    <3>1. PICK c \in FactCredentials, m \in FactModels : c # sel.credential /\ m # sel.model
          BY <1>4
    <3>2. Covers(s, T(s.provider, c, m))
          BY <1>5, <2>2
    <3> QED BY <1>6, <2>1, <2>3, <2>5, <3>1, <3>2
  <2> QED BY <2>4, <2>5
<1>10. CASE s.kind = "model"
  <2>1. s.models \subseteq FactModels /\ s.models # {}
        BY <1>10 DEF ScopeIsSound
  <2>2. \A t : Covers(s, t) <=> t.model \in s.models
        BY <1>10 DEF Covers
  <2>3. ~InSelector(s, sel)
        BY <1>10 DEF InSelector
  <2>4. ASSUME \A t \in FactTargets : Covers(s, t) => Inside(sel, t) PROVE FALSE
    <3>1. PICK p \in FactProviders : p # sel.provider
          BY <1>4
    <3>2. PICK c \in FactCredentials, m \in s.models : TRUE
          BY <1>4, <2>1
    <3>3. Covers(s, T(p, c, m))
          BY <1>5, <2>2
    <3> QED BY <1>6, <2>1, <2>4, <3>1, <3>2, <3>3
  <2> QED BY <2>3, <2>4
<1> QED BY <1>7, <1>8, <1>9, <1>10 DEF ScopeIsSound

\* The scope a verdict or a ceiling gets is one of those.
LEMMA ScopesAreSound ==
    ASSUME NEW t \in AskedTargets, NEW template, template.kind \in ScopeKinds,
           template.kind = "group" => template.members \subseteq FactModels
    PROVE  ScopeIsSound(Materialize(template, t))
<1>1. t.provider \in FactProviders /\ t.credential \in FactCredentials /\ t.model \in FactModels
      BY TargetsAreAnyNames, FactAssumption
<1>2. CASE template.kind = "attempt"
      BY <1>1, <1>2 DEF Materialize, Scope, ScopeIsSound
<1>3. CASE template.kind = "deployment"
      BY <1>1, <1>3 DEF Materialize, Scope, ScopeIsSound
<1>4. CASE template.kind = "credential"
      BY <1>1, <1>4 DEF Materialize, Scope, ScopeIsSound
<1>5. CASE template.kind = "provider"
      BY <1>1, <1>5 DEF Materialize, Scope, ScopeIsSound
<1>6. CASE template.kind = "model"
      BY <1>1, <1>6 DEF Materialize, Scope, ScopeIsSound
<1>7. CASE template.kind = "group"
      BY <1>1, <1>7 DEF Materialize, Scope, ScopeIsSound
<1> QED BY <1>2, <1>3, <1>4, <1>5, <1>6, <1>7 DEF ScopeKinds

\* A reset is a number of ticks, wherever it was read.
LEMMA ResetsAreTicks ==
    ASSUME NEW v \in FactReadings, NEW header \in HeaderTicks, NEW b \in Bodies
    PROVE  ResolveReset(v, header, b).ticks \in Nat
<1>1. /\ b.again \in Nat /\ header \in Nat /\ MaxResetTicks \in Nat
      /\ v.reset.kind = "fixed" => v.reset.ticks \in Nat
      /\ \A f \in DOMAIN b.fields : b.fields[f] \in Nat
      BY FactAssumption, RefusalAssumption
<1>2. \A n \in Nat : Believed(n) \in Nat
      BY DEF Believed
<1>3. \A f : FieldOf(b, f) \in Nat
      BY <1>1 DEF FieldOf
<1>4. ResetByBody(b) \in Nat
      BY <1>1, <1>2, <1>3 DEF ResetByBody
<1>5. CASE v.reset.kind = "fixed"
  <2>1. ResetByRule(v.reset, b) \in Nat
        BY <1>1, <1>2, <1>5 DEF ResetByRule
  <2> QED BY <1>1, <1>4, <1>5, <2>1 DEF ResolveReset
<1>6. CASE v.reset.kind = "field"
  <2>1. ResetByRule(v.reset, b) \in Nat
        BY <1>2, <1>3, <1>6 DEF ResetByRule
  <2> QED BY <1>1, <1>4, <1>6, <2>1 DEF ResolveReset
<1>7. CASE v.reset.kind \notin {"fixed", "field"}
      BY <1>1, <1>4, <1>7 DEF ResolveReset
<1> QED BY <1>5, <1>6, <1>7

\* A fact is put beside the others, and its save is asked for.
LEMMA RecordKeepsInv ==
    ASSUME FactsInv, NEW kind \in DOMAIN FactLifetime, NEW scope, ScopeIsSound(scope), NEW ticks \in Nat,
           NEW basis, NEW cost, NEW value, Record(kind, scope, ticks, basis, cost, value),
           UNCHANGED <<factFile, factNow>>
    PROVE  FactsInv'
<1> DEFINE fact == [at |-> factNow, until |-> IF ticks > 0 THEN factNow + ticks ELSE 0,
                    basis |-> IF ticks > 0 THEN basis ELSE "none", cost |-> cost, value |-> value]
           key == <<kind, scope>>
<1>1. facts' = With(facts, key, fact) /\ touchedAt' = factNow
      BY Zenon DEF Record
<1>2. factNow \in Nat /\ factNow > 0 /\ FactsAreSound(facts) /\ FactsAreSound(factFile)
      BY DEF FactsInv
<1>3. fact.at \in Nat /\ fact.until \in Nat
      BY <1>2
<1>4. key[1] = kind /\ key[2] = scope
      OBVIOUS
<1> HIDE DEF fact, key
<1>5. /\ facts' = [k \in DOMAIN facts' |-> facts'[k]]
      /\ \A k \in DOMAIN facts' : /\ k[1] \in DOMAIN FactLifetime /\ ScopeIsSound(k[2])
                                  /\ facts'[k].at \in Nat /\ facts'[k].until \in Nat
      BY <1>1, <1>2, <1>3, <1>4 DEF With, FactsAreSound
<1>6. FactsAreSound(facts') /\ FactsAreSound(factFile')
      BY <1>2, <1>5 DEF FactsAreSound
<1> QED BY <1>1, <1>2, <1>6 DEF FactsInv

\* What is left of sound facts is sound.
LEMMA LessIsSound ==
    ASSUME NEW fs, FactsAreSound(fs), NEW ks
    PROVE  /\ FactsAreSound(Without(fs, ks))
           /\ DOMAIN Without(fs, ks) = DOMAIN fs \ ks
           /\ \A k \in DOMAIN fs \ ks : Without(fs, ks)[k] = fs[k]
           /\ ks = {} => Without(fs, ks) = fs
  BY DEF FactsAreSound, Without, Restrict

LEMMA DropKeepsInv ==
    ASSUME FactsInv, NEW ks, Drop(ks), UNCHANGED <<factFile, factNow>>
    PROVE  FactsInv'
<1>1. facts' = Without(facts, ks) /\ touchedAt' = IF ks = {} THEN touchedAt ELSE factNow
      BY DEF Drop
<1>2. FactsAreSound(facts') /\ (ks = {} => facts' = facts)
      BY <1>1, LessIsSound DEF FactsInv
<1>3. FactsAreSound(factFile')
      BY DEF FactsInv
<1> QED BY <1>1, <1>2, <1>3 DEF FactsInv

\* Whatever is learned and forgotten.
LEMMA FactStepsKeepInv == FactsInv /\ [FactsNext]_factVars => FactsInv'
<1> SUFFICES ASSUME FactsInv, [FactsNext]_factVars PROVE FactsInv'
    OBVIOUS
<1>1. ASSUME NEW t \in AskedTargets, NEW v \in FactReadings, NEW header \in HeaderTicks, NEW b \in Bodies,
             ObserveEligibility(t, v, header, b)
      PROVE  FactsInv'
  <2>1. v.class \in DOMAIN FactLifetime /\ ScopeIsSound(Materialize(v.scope, t))
        BY ScopesAreSound, FactAssumption
  <2>2. UNCHANGED <<factFile, factNow>>
        BY <1>1 DEF ObserveEligibility, FactEvent
  <2>3. Record(v.class, Materialize(v.scope, t), ResolveReset(v, header, b).ticks,
               ResolveReset(v, header, b).basis, v.cost, 0)
        BY <1>1 DEF ObserveEligibility
  <2> QED BY <2>1, <2>2, <2>3, ResetsAreTicks, RecordKeepsInv
<1>2. ASSUME NEW t \in AskedTargets, NEW kind \in Ceilings, NEW account \in BOOLEAN, StateCeiling(t, kind, account)
      PROVE  FactsInv'
  <2> DEFINE scope == IF account THEN Materialize(Template("credential"), t)
                      ELSE Materialize(Template(IF kind \in {"context-limit", "max-output"} THEN "deployment" ELSE "attempt"), t)
  <2>1. \A k \in {"credential", "deployment", "attempt"} : Template(k).kind = k /\ k \in ScopeKinds /\ k # "group"
        BY DEF Template, ScopeKinds
  <2>2. \A k \in {"credential", "deployment", "attempt"} : ScopeIsSound(Materialize(Template(k), t))
        BY <2>1, ScopesAreSound
  <2>3. ScopeIsSound(scope)
        BY <2>2
  <2>4. kind \in DOMAIN FactLifetime
        BY FactAssumption
  <2>5. UNCHANGED <<factFile, factNow>> /\ Record(kind, scope, 0, "none", {}, 1)
        BY <1>2 DEF StateCeiling, FactEvent
  <2> HIDE DEF scope
  <2> QED BY <2>3, <2>4, <2>5, RecordKeepsInv
<1>3. ASSUME NEW t \in AskedTargets, NEW state, ApplySpend(t.provider, t.credential, state)
      PROVE  FactsInv'
  <2>1. UNCHANGED <<factFile, factNow>>
        BY <1>3 DEF ApplySpend, FactEvent
  <2> DEFINE scope == Scope("credential", t.provider, t.credential, {})
             spent == {k \in DOMAIN facts :
                     /\ k[1] = "allowance-exhausted" /\ facts[k].cost = {"paid"} /\ Live(facts, k, factNow)
                     /\ InSelector(k[2], [provider |-> t.provider, credential |-> t.credential, model |-> "any"])}
  <2>2. Record("allowance-exhausted", scope, 0, "none", {"paid"}, 0) \/ Drop(spent)
        BY <1>3 DEF ApplySpend
  <2>3. ScopeIsSound(scope)
    <3>1. t.provider \in FactProviders /\ t.credential \in FactCredentials
          BY TargetsAreAnyNames, FactAssumption
    <3> QED BY <3>1 DEF Scope, ScopeIsSound
  <2>4. "allowance-exhausted" \in DOMAIN FactLifetime
        BY FactAssumption
  <2> HIDE DEF scope, spent
  <2> QED BY <2>1, <2>2, <2>3, <2>4, RecordKeepsInv, DropKeepsInv
<1>4. ASSUME NEW t \in AskedTargets, NEW cost \in CostClasses, ClearFacts(t, cost) PROVE FactsInv'
      BY <1>4, DropKeepsInv DEF ClearFacts, FactEvent
<1>5. ASSUME NEW sel \in Selectors, NEW kinds \in OperatorKinds, OperatorClears(sel, kinds) PROVE FactsInv'
      BY <1>5, DropKeepsInv DEF OperatorClears, FactEvent
<1>6. CASE FlushFacts
  <2>1. PICK at \in {touchedAt, factNow} : facts' = Unexpired(at)
        BY <1>6 DEF FlushFacts
  <2>2. FactsAreSound(facts')
        BY <2>1, LessIsSound DEF FactsInv, Unexpired
  <2> QED BY <1>6, <2>2 DEF FlushFacts, FactsInv
<1>7. CASE RestartFacts
      BY <1>7 DEF RestartFacts, FactsInv
<1>8. CASE FactTick
      BY <1>8 DEF FactTick, FactsInv
<1>9. CASE UNCHANGED factVars
      BY <1>9 DEF factVars, FactsInv
<1> QED BY <1>1, <1>2, <1>3, <1>4, <1>5, <1>6, <1>7, <1>8, <1>9 DEF FactsNext

\* A clear lifts the facts the operator named, all of them and no other.
LEMMA ClearsAreNamed == FactsInv => ClearsWhatIsNamed
<1> SUFFICES ASSUME FactsInv, NEW sel \in Selectors, NEW kinds \in OperatorKinds, OperatorClears(sel, kinds),
                    NEW k \in DOMAIN facts, Live(facts, k, factNow)
             PROVE  k \notin DOMAIN facts'
                       <=> (k[1] \in kinds /\ \A t \in FactTargets : Covers(k[2], t) => Inside(sel, t))
    BY DEF ClearsWhatIsNamed
<1> DEFINE ks == {x \in DOMAIN facts : x[1] \in kinds /\ Live(facts, x, factNow) /\ InSelector(x[2], sel)}
<1>1. facts' = Without(facts, ks)
      BY DEF OperatorClears, Drop
<1>2. FactsAreSound(facts) /\ ScopeIsSound(k[2])
      BY DEF FactsInv, FactsAreSound
<1> HIDE DEF ks
<1>3. DOMAIN facts' = DOMAIN facts \ ks
      BY <1>1, <1>2, LessIsSound
<1>4. k \in ks <=> k[1] \in kinds /\ InSelector(k[2], sel)
      BY DEF ks
<1>5. InSelector(k[2], sel) <=> \A t \in FactTargets : Covers(k[2], t) => Inside(sel, t)
      BY <1>2, SelectorsPickByCover
<1> QED BY <1>3, <1>4, <1>5

\* Where two memories keep the same live facts of a target they give the same verdicts on it.
LEMMA SameFactsSameVerdicts ==
    ASSUME NEW fs, NEW gs, NEW t, NEW cost, NEW now,
           FactsFor(fs, t, cost, now) = FactsFor(gs, t, cost, now),
           \A k \in FactsFor(fs, t, cost, now) : Expiry(fs, k) = Expiry(gs, k)
    PROVE  /\ CooldownUntil(fs, t, cost, now) = CooldownUntil(gs, t, cost, now)
           /\ CostBlocked(fs, t, cost, now) = CostBlocked(gs, t, cost, now)
<1> DEFINE cool(hs) == {k \in FactsFor(hs, t, cost, now) : k[1] \in CoolingKinds}
<1>1. {Expiry(fs, k) : k \in cool(fs)} = {Expiry(gs, k) : k \in cool(gs)}
      OBVIOUS
<1>2. CooldownUntil(fs, t, cost, now) = CooldownUntil(gs, t, cost, now)
  <2> HIDE DEF cool
  <2>1. /\ CooldownUntil(fs, t, cost, now) = Max({0} \cup {Expiry(fs, k) : k \in cool(fs)})
        /\ CooldownUntil(gs, t, cost, now) = Max({0} \cup {Expiry(gs, k) : k \in cool(gs)})
        BY Zenon DEF CooldownUntil, cool
  <2> QED BY <1>1, <2>1
<1>3. CostBlocked(fs, t, cost, now) = CostBlocked(gs, t, cost, now)
      BY DEF CostBlocked
<1> QED BY <1>2, <1>3

\* A fact that is kept is kept whole.
LEMMA KeptFactsAreKept ==
    ASSUME NEW fs, FactsAreSound(fs), NEW ks, NEW t, NEW cost, NEW now
    PROVE  /\ FactsFor(Without(fs, ks), t, cost, now) = FactsFor(fs, t, cost, now) \ ks
           /\ \A k \in DOMAIN fs \ ks : /\ Expiry(Without(fs, ks), k) = Expiry(fs, k)
                                        /\ Without(fs, ks)[k] = fs[k]
<1> DEFINE less == Without(fs, ks)
<1>1. DOMAIN less = DOMAIN fs \ ks /\ \A k \in DOMAIN fs \ ks : less[k] = fs[k]
      BY LessIsSound
<1> HIDE DEF less
<1>2. \A k \in DOMAIN fs \ ks : Expiry(less, k) = Expiry(fs, k)
      BY <1>1 DEF Expiry
<1>3. \A k \in DOMAIN fs \ ks : /\ Live(less, k, now) <=> Live(fs, k, now)
                                /\ AdmitsCost(less[k], cost) <=> AdmitsCost(fs[k], cost)
      BY <1>1, <1>2 DEF Live
<1>4. FactsFor(less, t, cost, now) = FactsFor(fs, t, cost, now) \ ks
      BY <1>1, <1>3, Zenon DEF FactsFor
<1> QED BY <1>1, <1>2, <1>4 DEF less

\* An answer disproves what kept its target back, and nothing it does not cover.
LEMMA AnswersUnsay == FactsInv => AnswersDisprove
<1> SUFFICES ASSUME FactsInv, NEW t \in AskedTargets, NEW cost \in CostClasses, ClearFacts(t, cost)
             PROVE  /\ ~Cooled(facts', t, cost, factNow) /\ ~CostBlocked(facts', t, cost, factNow)
                    /\ \A k \in DOMAIN facts : k[1] \in Ceilings => k \in DOMAIN facts'
                    /\ \A u \in FactTargets, c \in CostClasses :
                          CooldownUntil(facts', u, c, factNow) # CooldownUntil(facts, u, c, factNow) =>
                             \E k \in FactsFor(facts, u, c, factNow) : Covers(k[2], t)
    BY DEF AnswersDisprove
<1> DEFINE ks == Disproved(t, cost)
<1>1. facts' = Without(facts, ks)
      BY DEF ClearFacts, Drop
<1>2. FactsAreSound(facts) /\ factNow \in Nat
      BY DEF FactsInv
<1>3. \A k \in ks : k[1] \in ConditionKinds /\ Covers(k[2], t)
      BY DEF Disproved
<1>4. \A k \in FactsFor(facts, t, cost, factNow) : k[1] \in ConditionKinds => k \in ks
      BY DEF Disproved, FactsFor
<1> HIDE DEF ks
<1>5. \A k \in FactsFor(facts', t, cost, factNow) : k[1] \notin ConditionKinds
      BY <1>1, <1>2, <1>4, KeptFactsAreKept
<1>6. CoolingKinds \subseteq ConditionKinds /\ CostBlocking \subseteq ConditionKinds
      BY DEF CoolingKinds, CostBlocking, ConditionKinds
<1>7. ~CostBlocked(facts', t, cost, factNow)
      BY <1>5, <1>6 DEF CostBlocked
<1>8. ~Cooled(facts', t, cost, factNow)
  <2>1. {k \in FactsFor(facts', t, cost, factNow) : k[1] \in CoolingKinds} = {}
        BY <1>5, <1>6
  <2>2. {0} \cup {Expiry(facts', k) : k \in {k \in FactsFor(facts', t, cost, factNow) : k[1] \in CoolingKinds}} = {0}
        BY <2>1
  <2>3. CooldownUntil(facts', t, cost, factNow) = Max({0})
        BY <2>2 DEF CooldownUntil
  <2>4. Max({0}) = 0
        BY DEF Max
  <2> QED BY <1>2, <2>3, <2>4 DEF Cooled
<1>9. \A k \in DOMAIN facts : k[1] \in Ceilings => k \in DOMAIN facts'
  <2>1. DOMAIN facts' = DOMAIN facts \ ks
        BY <1>1, <1>2, LessIsSound
  <2>2. \A kind \in Ceilings : kind \notin ConditionKinds
        BY FactAssumption
  <2> QED BY <1>3, <2>1, <2>2
<1>10. ASSUME NEW u \in FactTargets, NEW c \in CostClasses,
              \A k \in FactsFor(facts, u, c, factNow) : ~Covers(k[2], t)
       PROVE  CooldownUntil(facts', u, c, factNow) = CooldownUntil(facts, u, c, factNow)
  <2>1. FactsFor(facts', u, c, factNow) = FactsFor(facts, u, c, factNow) \ ks
        BY <1>1, <1>2, KeptFactsAreKept
  <2>2. FactsFor(facts', u, c, factNow) = FactsFor(facts, u, c, factNow)
        BY <1>3, <1>10, <2>1
  <2>3. \A k \in FactsFor(facts, u, c, factNow) : k \in DOMAIN facts \ ks
        BY <1>3, <1>10 DEF FactsFor
  <2>4. \A k \in FactsFor(facts', u, c, factNow) : Expiry(facts', k) = Expiry(facts, k)
        BY <1>1, <1>2, <2>2, <2>3, KeptFactsAreKept
  <2> QED BY <2>2, <2>4, SameFactsSameVerdicts
<1> QED BY <1>7, <1>8, <1>9, <1>10

\* A save drops what is over anyway, and a restart with nothing unsaved reads what memory had.
LEMMA SavesAreSilent == FactsInv => SavingChangesNothing
<1> SUFFICES ASSUME FactsInv, FlushFacts \/ (RestartFacts /\ touchedAt = 0),
                    NEW t \in FactTargets, NEW cost \in CostClasses
             PROVE  /\ CooldownUntil(facts', t, cost, factNow) = CooldownUntil(facts, t, cost, factNow)
                    /\ CostBlocked(facts', t, cost, factNow) = CostBlocked(facts, t, cost, factNow)
    BY DEF SavingChangesNothing
<1>1. CASE FlushFacts
  <2>1. PICK at \in {touchedAt, factNow} : facts' = Unexpired(at)
        BY <1>1 DEF FlushFacts
  <2>2. at \in Nat /\ at <= factNow /\ factNow \in Nat /\ FactsAreSound(facts)
        BY DEF FactsInv
  <2> DEFINE ks == {k \in DOMAIN facts : ~Live(facts, k, at)}
  <2>3. facts' = Without(facts, ks)
        BY <2>1 DEF Unexpired
  <2>4. \A k \in ks : ~Live(facts, k, factNow)
    <3>1. \A k \in DOMAIN facts : Expiry(facts, k) \in Nat
          BY <2>2, FactAssumption DEF FactsAreSound, Expiry
    <3> QED BY <2>2, <3>1 DEF Live
  <2> HIDE DEF ks
  <2>5. \A k \in FactsFor(facts, t, cost, factNow) : k \in DOMAIN facts \ ks
        BY <2>4 DEF FactsFor
  <2>6. FactsFor(facts', t, cost, factNow) = FactsFor(facts, t, cost, factNow)
        BY <2>2, <2>3, <2>5, KeptFactsAreKept
  <2>7. \A k \in FactsFor(facts', t, cost, factNow) : Expiry(facts', k) = Expiry(facts, k)
        BY <2>2, <2>3, <2>5, <2>6, KeptFactsAreKept
  <2> QED BY <2>6, <2>7, SameFactsSameVerdicts
<1>2. CASE RestartFacts /\ touchedAt = 0
  <2>1. facts' = facts
        BY <1>2 DEF RestartFacts, FactsInv
  <2> QED BY <2>1
<1> QED BY <1>1, <1>2

\* What the relay knows of its targets is said and unsaid as it should be, for any
\* readings, ceilings, answers, operator's clears, saves and restarts: a clear lifts
\* exactly what the operator named, an answer leaves nothing that keeps its target
\* back and touches nothing else, a save changes no verdict (target-facts.ts).
THEOREM FactsHold == FactsSpec => FactsAreSaidAndUnsaid
<1>1. FactsInit => FactsInv
  <2>1. FactsAreSound(<<>>)
        BY DEF FactsAreSound
  <2> QED BY <2>1 DEF FactsInit, FactsInv
<1>2. FactsInv /\ [FactsNext]_factVars => FactsInv'
      BY FactStepsKeepInv
<1>3. FactsInv => ClearsWhatIsNamed /\ AnswersDisprove /\ SavingChangesNothing
      BY ClearsAreNamed, AnswersUnsay, SavesAreSilent
<1> QED BY <1>1, <1>2, <1>3, PTL DEF FactsSpec, FactsAreSaidAndUnsaid

-----------------------------------------------------------------------------
(* Routing: what is ranked and ordered, and the session pins.               *)

\* Two keys of a length that differ: one of them is before the other, by the first entry they differ in.
LEMMA KeysCompare ==
    ASSUME NEW n \in Nat, NEW a \in [1..n -> Int], NEW b \in [1..n -> Int], a # b
    PROVE  Before(a, b) \/ Before(b, a)
  <1> DEFINE differ == {i \in 1..n : a[i] # b[i]}
  <1>1. differ # {}
        OBVIOUS
  <1>2. PICK i \in differ : \A j \in differ : i <= j
    <2>1. differ \subseteq Nat
          OBVIOUS
    <2> HIDE DEF differ
    <2> QED BY <1>1, <2>1, LeastNatural
  <1>3. i \in 1..n /\ a[i] # b[i] /\ \A j \in 1..(i - 1) : a[j] = b[j]
        BY <1>2
  <1>4. a[i] < b[i] \/ b[i] < a[i]
        BY <1>3
  <1>5. DOMAIN a = 1..n /\ DOMAIN b = 1..n
        OBVIOUS
  <1> QED BY <1>3, <1>4, <1>5 DEF Before

\* No key is before itself, and what is before a key that is before another is before that one.
LEMMA KeysAreOrdered ==
    ASSUME NEW n \in Nat, NEW a \in [1..n -> Int], NEW b \in [1..n -> Int], NEW c \in [1..n -> Int]
    PROVE  ~Before(a, a) /\ (Before(a, b) /\ Before(b, c) => Before(a, c))
  <1>1. ~Before(a, a)
        BY DEF Before
  <1>2. ASSUME Before(a, b), Before(b, c)
        PROVE  Before(a, c)
    <2>1. PICK i \in 1..n : a[i] < b[i] /\ \A j \in 1..(i - 1) : a[j] = b[j]
          BY <1>2 DEF Before
    <2>2. PICK k \in 1..n : b[k] < c[k] /\ \A j \in 1..(k - 1) : b[j] = c[j]
          BY <1>2 DEF Before
    <2>3. CASE i <= k
      <3>1. a[i] < c[i]
            BY <2>1, <2>2, <2>3
      <3>2. \A j \in 1..(i - 1) : a[j] = c[j]
            BY <2>1, <2>2, <2>3
      <3> QED BY <3>1, <3>2 DEF Before
    <2>4. CASE k < i
      <3>1. a[k] < c[k]
            BY <2>1, <2>2, <2>4
      <3>2. \A j \in 1..(k - 1) : a[j] = c[j]
            BY <2>1, <2>2, <2>4
      <3> QED BY <3>1, <3>2 DEF Before
    <2> QED BY <2>3, <2>4
  <1> QED BY <1>1, <1>2

\* `o` lists the members of S, each once, in the order of their keys.
ListsInOrder(o, key, S) ==
    /\ Cardinality(S) \in Nat
    /\ o \in [1..Cardinality(S) -> S]
    /\ \A x \in S : \E i \in 1..Cardinality(S) : o[i] = x
    /\ \A i, j \in 1..Cardinality(S) : o[i] = o[j] => i = j
    /\ \A i, j \in 1..Cardinality(S) : i < j => Before(key[o[i]], key[o[j]])

\* What InOrder makes of keys that all differ: every element of their domain, once, in the order of the keys.
LEMMA InOrderEnumerates ==
    ASSUME NEW S, IsFiniteSet(S), NEW n \in Nat, NEW key \in [S -> [1..n -> Int]],
           \A x, y \in S : key[x] = key[y] => x = y
    PROVE  ListsInOrder(InOrder(key), key, S)
  <1> DEFINE below(x) == {y \in S : Before(key[y], key[x])}
             rank == [x \in S |-> Cardinality(below(x))]
             N == Cardinality(S)
  <1>1. N \in Nat
        BY FS_CardinalityType
  <1>2. \A x, y \in S : x # y => Before(key[x], key[y]) \/ Before(key[y], key[x])
    <2>1. SUFFICES ASSUME NEW x \in S, NEW y \in S, x # y
                   PROVE  Before(key[x], key[y]) \/ Before(key[y], key[x])
          OBVIOUS
    <2>2. key[x] \in [1..n -> Int] /\ key[y] \in [1..n -> Int] /\ key[x] # key[y]
          BY <2>1
    <2> QED BY <2>2, KeysCompare
  <1>3. \A x \in S : ~Before(key[x], key[x])
    <2>1. SUFFICES ASSUME NEW x \in S PROVE ~Before(key[x], key[x])
          OBVIOUS
    <2>2. key[x] \in [1..n -> Int]
          OBVIOUS
    <2> QED BY <2>2, KeysAreOrdered
  <1>4. \A x, y, z \in S : Before(key[x], key[y]) /\ Before(key[y], key[z]) => Before(key[x], key[z])
    <2>1. SUFFICES ASSUME NEW x \in S, NEW y \in S, NEW z \in S, Before(key[x], key[y]), Before(key[y], key[z])
                   PROVE  Before(key[x], key[z])
          OBVIOUS
    <2>2. key[x] \in [1..n -> Int] /\ key[y] \in [1..n -> Int] /\ key[z] \in [1..n -> Int]
          OBVIOUS
    <2> QED BY <2>1, <2>2, KeysAreOrdered
  <1>5. \A x \in S : IsFiniteSet(below(x)) /\ Cardinality(below(x)) \in 0..(N - 1)
    <2>1. SUFFICES ASSUME NEW x \in S PROVE IsFiniteSet(below(x)) /\ Cardinality(below(x)) \in 0..(N - 1)
          OBVIOUS
    <2>2. below(x) \in SUBSET (S \ {x})
          BY <1>3
    <2>3. IsFiniteSet(S \ {x}) /\ Cardinality(S \ {x}) = N - 1
          BY FS_RemoveElement
    <2> HIDE DEF below
    <2>4. IsFiniteSet(below(x)) /\ Cardinality(below(x)) <= N - 1
          BY <2>2, <2>3, FS_Subset
    <2>5. Cardinality(below(x)) \in Nat
          BY <2>4, FS_CardinalityType
    <2> QED BY <1>1, <2>4, <2>5
  <1>6. \A x, y \in S : Before(key[x], key[y]) => rank[x] < rank[y]
    <2>1. SUFFICES ASSUME NEW x \in S, NEW y \in S, Before(key[x], key[y]) PROVE rank[x] < rank[y]
          OBVIOUS
    <2>2. below(x) \cup {x} \in SUBSET below(y) /\ x \notin below(x)
          BY <1>3, <1>4, <2>1
    <2>3. IsFiniteSet(below(x)) /\ IsFiniteSet(below(y)) /\ Cardinality(below(x)) \in Int /\ Cardinality(below(y)) \in Int
          BY <1>5
    <2>4. rank[x] = Cardinality(below(x)) /\ rank[y] = Cardinality(below(y))
          OBVIOUS
    <2> HIDE DEF below, rank
    <2>5. Cardinality(below(x) \cup {x}) = Cardinality(below(x)) + 1
          BY <2>2, <2>3, FS_AddElement
    <2>6. Cardinality(below(x) \cup {x}) <= Cardinality(below(y))
          BY <2>2, <2>3, FS_Subset
    <2> QED BY <2>3, <2>4, <2>5, <2>6
  <1>7. rank \in [S -> 0..(N - 1)]
    <2> HIDE DEF below
    <2> QED BY <1>5
  <1>8. \A x, y \in S : rank[x] = rank[y] => x = y
    <2>1. SUFFICES ASSUME NEW x \in S, NEW y \in S, rank[x] = rank[y], x # y PROVE FALSE
          OBVIOUS
    <2>2. rank[x] \in Int /\ rank[y] \in Int
          BY <1>1, <1>7
    <2>3. rank[x] < rank[y] \/ rank[y] < rank[x]
          BY <1>2, <1>6, <2>1
    <2> HIDE DEF rank
    <2> QED BY <2>1, <2>2, <2>3
  <1>9. \A i \in 0..(N - 1) : \E x \in S : rank[x] = i
    <2> HIDE DEF rank, N
    <2>1. rank \in Injection(S, 0..(N - 1))
          BY <1>7, <1>8 DEF Injection, IsInjective
    <2>2. IsFiniteSet(0..(N - 1)) /\ Cardinality(0..(N - 1)) = N
          BY <1>1, FS_Interval
    <2>3. rank \in Surjection(S, 0..(N - 1))
          BY <2>1, <2>2, FS_Injection DEF N
    <2> QED BY <2>3 DEF Surjection
  <1>10. InOrder(key) = [i \in 1..N |-> CHOOSE x \in S : rank[x] = i - 1]
    <2>1. DOMAIN key = S
          OBVIOUS
    <2> QED BY <2>1 DEF InOrder
  <1> HIDE DEF rank, below, N
  <1>11. \A i \in 1..N : InOrder(key)[i] \in S /\ rank[InOrder(key)[i]] = i - 1
    <2>1. SUFFICES ASSUME NEW i \in 1..N PROVE InOrder(key)[i] \in S /\ rank[InOrder(key)[i]] = i - 1
          OBVIOUS
    <2>2. \E x \in S : rank[x] = i - 1
      <3>1. i - 1 \in 0..(N - 1) BY <1>1
      <3> QED BY <3>1, <1>9
    <2>3. InOrder(key)[i] = CHOOSE x \in S : rank[x] = i - 1
          BY <1>10
    <2> QED BY <2>2, <2>3
  <1>12. InOrder(key) \in [1..N -> S]
    <2>1. DOMAIN InOrder(key) = 1..N /\ InOrder(key) = [i \in 1..N |-> InOrder(key)[i]]
          BY <1>10
    <2> QED BY <2>1, <1>11
  <1>13. \A i, j \in 1..N : InOrder(key)[i] = InOrder(key)[j] => i = j
        BY <1>1, <1>11
  <1>14. \A x \in S : \E i \in 1..N : InOrder(key)[i] = x
    <2>1. SUFFICES ASSUME NEW x \in S PROVE \E i \in 1..N : InOrder(key)[i] = x
          OBVIOUS
    <2>2. rank[x] \in 0..(N - 1)
          BY <1>7
    <2>3. rank[x] + 1 \in 1..N /\ (rank[x] + 1) - 1 = rank[x]
          BY <1>1, <2>2
    <2>4. rank[InOrder(key)[rank[x] + 1]] = rank[x] /\ InOrder(key)[rank[x] + 1] \in S
          BY <1>11, <2>3
    <2> QED BY <1>8, <2>3, <2>4
  <1>15. \A i, j \in 1..N : i < j => Before(key[InOrder(key)[i]], key[InOrder(key)[j]])
    <2>1. SUFFICES ASSUME NEW i \in 1..N, NEW j \in 1..N, i < j
                   PROVE  Before(key[InOrder(key)[i]], key[InOrder(key)[j]])
          OBVIOUS
    <2>2. InOrder(key)[i] \in S /\ InOrder(key)[j] \in S /\ rank[InOrder(key)[i]] = i - 1 /\ rank[InOrder(key)[j]] = j - 1
          BY <1>11
    <2>3. InOrder(key)[i] # InOrder(key)[j]
          BY <1>1, <1>13, <2>1
    <2>4. ~Before(key[InOrder(key)[j]], key[InOrder(key)[i]])
      <3>1. Before(key[InOrder(key)[j]], key[InOrder(key)[i]]) => j - 1 < i - 1
            BY <1>6, <2>2
      <3> QED BY <1>1, <2>1, <3>1
    <2> QED BY <1>2, <2>2, <2>3, <2>4
  <1> QED BY <1>1, <1>12, <1>13, <1>14, <1>15 DEF N, ListsInOrder

\* And the one InOrder puts first is before every other.
LEMMA FirstIsBeforeAll ==
    ASSUME NEW S, IsFiniteSet(S), S # {}, NEW n \in Nat, NEW key \in [S -> [1..n -> Int]],
           \A x, y \in S : key[x] = key[y] => x = y
    PROVE  /\ InOrder(key)[1] \in S
           /\ \A x \in S : x # InOrder(key)[1] => Before(key[InOrder(key)[1]], key[x])
           /\ Cardinality(S) >= 1
  <1> DEFINE o == InOrder(key)
             N == Cardinality(S)
  <1>1. /\ N \in Nat /\ o \in [1..N -> S]
        /\ \A x \in S : \E i \in 1..N : o[i] = x
        /\ \A i, j \in 1..N : i < j => Before(key[o[i]], key[o[j]])
    <2>1. ListsInOrder(o, key, S)
          BY InOrderEnumerates
    <2> QED BY <2>1 DEF ListsInOrder
  <1> HIDE DEF o, N
  <1>2. N >= 1
        BY <1>1
  <1>3. o[1] \in S
        BY <1>1, <1>2
  <1>4. ASSUME NEW x \in S, x # o[1] PROVE Before(key[o[1]], key[x])
    <2>1. PICK i \in 1..N : o[i] = x
          BY <1>1
    <2>2. 1 < i /\ 1 \in 1..N
          BY <1>1, <1>2, <1>4, <2>1
    <2> QED BY <1>1, <2>1, <2>2
  <1> QED BY <1>2, <1>3, <1>4 DEF o, N

\* A nonempty finite set of naturals has a largest member, which Max is.
LEMMA MaxIsIn ==
    ASSUME NEW S \in SUBSET Nat, IsFiniteSet(S), S # {}
    PROVE  Max(S) \in S /\ \A x \in S : x <= Max(S)
  <1> DEFINE key == [x \in S |-> [i \in 1..1 |-> -x]]
  <1>1. key \in [S -> [1..1 -> Int]]
        OBVIOUS
  <1>2. \A x, y \in S : key[x] = key[y] => x = y
    <2>1. SUFFICES ASSUME NEW x \in S, NEW y \in S, key[x] = key[y] PROVE x = y
          OBVIOUS
    <2>2. key[x][1] = -x /\ key[y][1] = -y
          OBVIOUS
    <2>3. -x = -y
          BY <2>1, <2>2
    <2> QED BY <2>3
  <1>3. \A x, y \in S : Before(key[x], key[y]) => x >= y
    <2>1. SUFFICES ASSUME NEW x \in S, NEW y \in S, Before(key[x], key[y]) PROVE x >= y
          OBVIOUS
    <2>2. DOMAIN key[x] = 1..1 /\ key[x][1] = -x /\ key[y][1] = -y
          OBVIOUS
    <2>3. -x < -y
          BY <2>1, <2>2 DEF Before
    <2> QED BY <2>3
  <1> HIDE DEF key
  <1>4. InOrder(key)[1] \in S /\ \A x \in S : x # InOrder(key)[1] => Before(key[InOrder(key)[1]], key[x])
        BY <1>1, <1>2, FirstIsBeforeAll
  <1>5. \A x \in S : InOrder(key)[1] >= x
    <2>1. SUFFICES ASSUME NEW x \in S PROVE InOrder(key)[1] >= x
          OBVIOUS
    <2>2. CASE x = InOrder(key)[1]
          BY <2>2
    <2>3. CASE x # InOrder(key)[1]
          BY <1>3, <1>4, <2>3
    <2> QED BY <2>2, <2>3
  <1>6. Max(S) \in S /\ \A x \in S : Max(S) >= x
        BY <1>4, <1>5 DEF Max
  <1> QED BY <1>6

\* Where an element of a sequence is.
LEMMA PlaceIsFound ==
    ASSUME NEW n \in Nat, NEW S, NEW s \in [1..n -> S], NEW x, \E i \in 1..n : s[i] = x
    PROVE  PlaceIn(s, x) \in 1..n /\ s[PlaceIn(s, x)] = x
  BY DEF PlaceIn

\* `k` is `s` at the places `at`, each once.
Picks(from, k, s, at) ==
    /\ \A i \in 1..Cardinality(at) : k[i] = s[from[i]]
    /\ \A i, j \in 1..Cardinality(at) : from[i] = from[j] => i = j
    /\ \A i \in at : \E j \in 1..Cardinality(at) : from[j] = i

\* The places of `s` that are kept, in the order of `s`.
LEMMA KeptKeeps ==
    ASSUME NEW n \in Nat, NEW P, NEW s \in [1..n -> P], NEW at \in SUBSET (1..n)
    PROVE  /\ IsFiniteSet(at) /\ Cardinality(at) \in Nat /\ Cardinality(at) <= n /\ (Cardinality(at) = n => at = 1..n)
           /\ Kept(s, at) \in [1..Cardinality(at) -> P]
           /\ \E from \in [1..Cardinality(at) -> at] : Picks(from, Kept(s, at), s, at)
  <1> DEFINE key == [i \in at |-> <<i>>]
             from == InOrder(key)
             N == Cardinality(at)
  <1>1. IsFiniteSet(1..n) /\ Cardinality(1..n) = n
        BY FS_Interval
  <1>2. IsFiniteSet(at) /\ N \in Nat /\ N <= n /\ (N = n => at = 1..n)
    <2>1. IsFiniteSet(at) /\ N <= Cardinality(1..n) /\ (Cardinality(1..n) = N => 1..n = at)
          BY <1>1, FS_Subset
    <2>2. N \in Nat
          BY <2>1, FS_CardinalityType
    <2> QED BY <1>1, <2>1, <2>2
  <1>3. key \in [at -> [1..1 -> Int]]
    <2>1. ASSUME NEW i \in at PROVE <<i>> \in [1..1 -> Int]
          OBVIOUS
    <2> QED BY <2>1
  <1>4. \A x, y \in at : key[x] = key[y] => x = y
        OBVIOUS
  <1> HIDE DEF key
  <1>5. /\ from \in [1..N -> at]
        /\ \A x \in at : \E i \in 1..N : from[i] = x
        /\ \A i, j \in 1..N : from[i] = from[j] => i = j
    <2>1. ListsInOrder(from, key, at)
          BY <1>2, <1>3, <1>4, InOrderEnumerates
    <2> QED BY <2>1 DEF ListsInOrder
  <1>6. Kept(s, at) = [k \in DOMAIN from |-> s[from[k]]]
        BY DEF Kept, key
  <1> HIDE DEF from, N
  <1>7. DOMAIN from = 1..N /\ \A i \in 1..N : s[from[i]] \in P
        BY <1>5
  <1>8. Kept(s, at) \in [1..N -> P] /\ \A i \in 1..N : Kept(s, at)[i] = s[from[i]]
        BY <1>6, <1>7
  <1>9. from \in [1..N -> at] /\ Picks(from, Kept(s, at), s, at)
        BY <1>5, <1>8 DEF Picks, N
  <1> QED BY <1>2, <1>8, <1>9 DEF N

-----------------------------------------------------------------------------
PinRecords == [session : RouteSessions, spec : PoolSpecs, lastUsedAt : Nat]
\* A map of pins: at most one of a session.
PinMap(ps) == ps \in Seq(PinRecords) /\ \A i, j \in 1..Len(ps) : ps[i].session = ps[j].session => i = j

\* Keeping some of the pins makes a map of just those.
LEMMA KeptPins ==
    ASSUME NEW ps, PinMap(ps), NEW at \in SUBSET (1..Len(ps))
    PROVE  LET k == Kept(ps, at) IN
           /\ PinMap(k) /\ Len(k) = Cardinality(at) /\ Len(k) <= Len(ps) /\ (Len(k) = Len(ps) => at = 1..Len(ps))
           /\ \A i \in at : \E j \in 1..Len(k) : k[j] = ps[i]
           /\ \A j \in 1..Len(k) : \E i \in at : k[j] = ps[i]
  <1> DEFINE n == Len(ps)
             k == Kept(ps, at)
             N == Cardinality(at)
  <1>1. n \in Nat /\ ps \in [1..n -> PinRecords]
        BY DEF PinMap
  <1> HIDE DEF n, k, N
  <1>2. at \in SUBSET (1..n)
        BY DEF n
  <1>3. /\ N \in Nat /\ N <= n /\ (N = n => at = 1..n) /\ k \in [1..N -> PinRecords]
        /\ \E from \in [1..N -> at] : Picks(from, k, ps, at)
        BY <1>1, <1>2, KeptKeeps DEF k, N
  <1>4. PICK from \in [1..N -> at] :
              /\ \A i \in 1..N : k[i] = ps[from[i]]
              /\ \A i, j \in 1..N : from[i] = from[j] => i = j
              /\ \A i \in at : \E j \in 1..N : from[j] = i
        BY <1>3 DEF Picks, N
  <1>5. k \in Seq(PinRecords) /\ Len(k) = N
        BY <1>3
  <1>6. \A i, j \in 1..N : k[i].session = k[j].session => i = j
    <2>1. SUFFICES ASSUME NEW i \in 1..N, NEW j \in 1..N, k[i].session = k[j].session PROVE i = j
          OBVIOUS
    <2>2. from[i] \in 1..n /\ from[j] \in 1..n /\ ps[from[i]].session = ps[from[j]].session
          BY <1>2, <1>4, <2>1
    <2>3. from[i] = from[j]
          BY <2>2 DEF PinMap, n
    <2> QED BY <1>4, <2>3
  <1>7. PinMap(k)
        BY <1>5, <1>6 DEF PinMap
  <1>8. \A i \in at : \E j \in 1..N : k[j] = ps[i]
        BY <1>4
  <1>9. \A j \in 1..N : \E i \in at : k[j] = ps[i]
        BY <1>4
  <1> QED BY <1>3, <1>5, <1>7, <1>8, <1>9 DEF k, n, N

\* A pin of a session without one, put at the end, leaves a map.
LEMMA AppendedPin ==
    ASSUME NEW ps, PinMap(ps), NEW pin \in PinRecords, \A j \in 1..Len(ps) : ps[j].session # pin.session
    PROVE  /\ PinMap(Append(ps, pin)) /\ Len(Append(ps, pin)) = Len(ps) + 1
           /\ \A j \in 1..Len(ps) : Append(ps, pin)[j] = ps[j]
  <1> DEFINE n == Len(ps)
  <1>1. n \in Nat /\ ps \in Seq(PinRecords) /\ ps \in [1..n -> PinRecords]
        BY DEF PinMap
  <1>2. /\ Append(ps, pin) \in Seq(PinRecords) /\ Len(Append(ps, pin)) = n + 1
        /\ Append(ps, pin)[n + 1] = pin /\ \A j \in 1..n : Append(ps, pin)[j] = ps[j]
        BY <1>1
  <1>3. \A i, j \in 1..(n + 1) : Append(ps, pin)[i].session = Append(ps, pin)[j].session => i = j
    <2>1. \A i, j \in 1..n : ps[i].session = ps[j].session => i = j
          BY DEF PinMap
    <2>2. \A i \in 1..(n + 1) : i \in 1..n \/ i = n + 1
          BY <1>1
    <2>3. \A j \in 1..n : ps[j].session # pin.session
          OBVIOUS
    <2> HIDE DEF n
    <2> QED BY <1>2, <2>1, <2>2, <2>3
  <1> QED BY <1>2, <1>3 DEF PinMap

\* And so does a pin put in the place of its session's.
LEMMA ReplacedPin ==
    ASSUME NEW ps, PinMap(ps), NEW pin \in PinRecords, NEW i \in 1..Len(ps), ps[i].session = pin.session
    PROVE  /\ PinMap([ps EXCEPT ![i] = pin]) /\ Len([ps EXCEPT ![i] = pin]) = Len(ps)
           /\ \A j \in 1..Len(ps) : [ps EXCEPT ![i] = pin][j].session = ps[j].session
  <1> DEFINE n == Len(ps)
             new == [ps EXCEPT ![i] = pin]
  <1>1. n \in Nat /\ ps \in Seq(PinRecords) /\ ps \in [1..n -> PinRecords]
        BY DEF PinMap
  <1>2. new \in Seq(PinRecords) /\ Len(new) = n
        BY <1>1
  <1>3. \A j \in 1..n : new[j].session = ps[j].session
        BY <1>1
  <1> HIDE DEF new
  <1>4. \A j, k \in 1..n : new[j].session = new[k].session => j = k
        BY <1>3 DEF PinMap
  <1>5. PinMap(new)
        BY <1>2, <1>4 DEF PinMap
  <1> QED BY <1>2, <1>3, <1>5 DEF new

\* What getPin leaves: every pin but an expired one of the session asked about.
LEMMA LookedPins ==
    ASSUME PinMap(pins), routeNow \in Nat, NEW session \in RouteSessions
    PROVE  LET l == Looked(session) IN
           /\ PinMap(l) /\ Len(l) <= Len(pins)
           /\ \A i \in 1..Len(pins) : Expired(pins[i]) \/ \E j \in 1..Len(l) : l[j].session = pins[i].session
           /\ (\A j \in 1..Len(l) : l[j].session # session) => l = pins \/ Len(l) < Len(pins)
  <1> DEFINE l == Looked(session)
             n == Len(pins)
             i == CHOOSE i \in PinIndex(session) : TRUE
  <1>1. n \in Nat /\ pins \in [1..n -> PinRecords] /\ DOMAIN pins = 1..n
        BY DEF PinMap
  <1>2. CASE PinIndex(session) = {}
    <2>1. l = pins
          BY <1>2 DEF Looked
    <2> HIDE DEF l
    <2> QED BY <1>1, <2>1 DEF l
  <1>3. CASE PinIndex(session) # {}
    <2>1. i \in 1..n /\ pins[i].session = session
          BY <1>1, <1>3 DEF PinIndex
    <2>2. l = IF Expired(pins[i]) THEN Kept(pins, (1..n) \ {i}) ELSE [pins EXCEPT ![i] = PinFor(session, pins[i].spec)]
          BY <1>1, <1>3 DEF Looked
    <2> HIDE DEF i
    <2>3. CASE Expired(pins[i])
      <3> DEFINE at == (1..n) \ {i}
      <3>1. l = Kept(pins, at)
            BY <2>2, <2>3
      <3>2. at \in SUBSET (1..Len(pins))
            OBVIOUS
      <3> HIDE DEF l, at
      <3>3. /\ PinMap(l) /\ Len(l) <= n /\ (Len(l) = n => at = 1..n)
            /\ \A k \in at : \E j \in 1..Len(l) : l[j] = pins[k]
            BY <3>1, <3>2, KeptPins
      <3>4. Len(l) # n
            BY <2>1, <3>3 DEF at
      <3>5. Len(l) < n
        <4>1. Len(l) \in Nat
              BY <3>3 DEF PinMap
        <4> QED BY <1>1, <3>3, <3>4, <4>1
      <3>6. \A k \in 1..n : Expired(pins[k]) \/ \E j \in 1..Len(l) : l[j].session = pins[k].session
        <4>1. SUFFICES ASSUME NEW k \in 1..n PROVE Expired(pins[k]) \/ \E j \in 1..Len(l) : l[j].session = pins[k].session
              OBVIOUS
        <4>2. CASE k = i
              BY <2>3, <4>2
        <4>3. CASE k # i
              BY <3>3, <4>3 DEF at
        <4> QED BY <4>2, <4>3
      <3> QED BY <3>3, <3>5, <3>6 DEF l
    <2>4. CASE ~Expired(pins[i])
      <3> DEFINE pin == PinFor(session, pins[i].spec)
      <3>1. l = [pins EXCEPT ![i] = pin]
            BY <2>2, <2>4
      <3>2. pin \in PinRecords /\ pin.session = session
        <4>1. pins[i] \in PinRecords
              BY <1>1, <2>1
        <4> QED BY <4>1 DEF PinRecords, PinFor
      <3> HIDE DEF l, pin
      <3>3. PinMap(l) /\ Len(l) = n /\ \A j \in 1..n : l[j].session = pins[j].session
        <4> HIDE DEF n
        <4>1. i \in 1..Len(pins)
              BY <2>1 DEF n
        <4>2. pins[i].session = pin.session
              BY <2>1, <3>2
        <4>3. /\ PinMap([pins EXCEPT ![i] = pin]) /\ Len([pins EXCEPT ![i] = pin]) = Len(pins)
              /\ \A j \in 1..Len(pins) : [pins EXCEPT ![i] = pin][j].session = pins[j].session
              BY <3>2, <4>1, <4>2, ReplacedPin
        <4> QED BY <3>1, <4>3 DEF n
      <3>4. l[i].session = session
            BY <2>1, <3>3
      <3> HIDE DEF n
      <3> QED BY <1>1, <2>1, <3>3, <3>4 DEF l, n
    <2> QED BY <2>3, <2>4
  <1> QED BY <1>2, <1>3

\* The pin LeastUsed names is a pin, and none was used before it.
LEMMA LeastUsedIsLeast ==
    ASSUME NEW ps, PinMap(ps), Len(ps) >= 1
    PROVE  LeastUsed(ps) \in 1..Len(ps) /\ \A k \in 1..Len(ps) : ps[LeastUsed(ps)].lastUsedAt <= ps[k].lastUsedAt
  <1> DEFINE n == Len(ps)
             key == [i \in 1..n |-> <<ps[i].lastUsedAt, i>>]
             d == InOrder(key)[1]
  <1>1. n \in Nat /\ ps \in [1..n -> PinRecords] /\ DOMAIN ps = 1..n
        BY DEF PinMap
  <1>2. IsFiniteSet(1..n) /\ 1..n # {}
    <2>1. n \in Int /\ n >= 1
          BY <1>1
    <2> HIDE DEF n
    <2>2. IsFiniteSet(1..n)
          BY <2>1, FS_Interval
    <2> QED BY <2>1, <2>2
  <1>3. \A i \in 1..n : ps[i].lastUsedAt \in Nat
    <2>1. \A i \in 1..n : ps[i] \in PinRecords
          BY <1>1
    <2> QED BY <2>1 DEF PinRecords
  <1>4. LeastUsed(ps) = d
        BY <1>1 DEF LeastUsed
  <1> HIDE DEF n
  <1>5. key \in [1..n -> [1..2 -> Int]]
    <2>1. ASSUME NEW i \in 1..n PROVE <<ps[i].lastUsedAt, i>> \in [1..2 -> Int]
      <3>1. ps[i].lastUsedAt \in Int /\ i \in Int
            BY <1>3
      <3> QED BY <3>1
    <2> QED BY <2>1
  <1>6. \A i \in 1..n : key[i][1] = ps[i].lastUsedAt /\ key[i][2] = i
        OBVIOUS
  <1> HIDE DEF key
  <1>7. \A x, y \in 1..n : key[x] = key[y] => x = y
        BY <1>6
  <1>8. d \in 1..n /\ \A x \in 1..n : x # d => Before(key[d], key[x])
        BY <1>2, <1>5, <1>7, FirstIsBeforeAll
  <1> HIDE DEF d
  <1>9. \A k \in 1..n : ps[d].lastUsedAt <= ps[k].lastUsedAt
    <2>1. SUFFICES ASSUME NEW k \in 1..n, k # d PROVE ps[d].lastUsedAt <= ps[k].lastUsedAt
          BY <1>3, <1>8
    <2>2. DOMAIN key[d] = 1..2
          BY <1>5, <1>8
    <2>3. PICK i \in 1..2 : key[d][i] < key[k][i] /\ \A j \in 1..(i - 1) : key[d][j] = key[k][j]
          BY <1>8, <2>1, <2>2 DEF Before
    <2>4. CASE i = 1
          BY <1>3, <1>6, <1>8, <2>3, <2>4
    <2>5. CASE i = 2
      <3>1. key[d][1] = key[k][1]
            BY <2>3, <2>5
      <3> QED BY <1>3, <1>6, <1>8, <3>1
    <2> QED BY <2>3, <2>4, <2>5
  <1> QED BY <1>4, <1>8, <1>9 DEF n

\* Pruning leaves no more pins than there may be; a pin it takes had expired, or was used no later than any.
LEMMA PrunedPins ==
    ASSUME NEW ps, PinMap(ps), Len(ps) <= MaxPins + 1
    PROVE  /\ PinMap(Pruned(ps)) /\ Len(Pruned(ps)) <= MaxPins
           /\ \A i \in 1..Len(ps) :
                 \/ Expired(ps[i])
                 \/ \E j \in 1..Len(Pruned(ps)) : Pruned(ps)[j] = ps[i]
                 \/ Len(ps) = MaxPins + 1 /\ \A k \in 1..Len(ps) : ps[i].lastUsedAt <= ps[k].lastUsedAt
  <1> DEFINE n == Len(ps)
             at == {i \in 1..n : ~Expired(ps[i])}
             live == Kept(ps, at)
  <1>1. n \in Nat /\ DOMAIN ps = 1..n /\ MaxPins \in Nat \ {0}
        BY RoutingAssumption DEF PinMap
  <1>2. at \in SUBSET (1..Len(ps))
        OBVIOUS
  <1>3. Pruned(ps) = IF n <= MaxPins THEN ps
                     ELSE IF Len(live) <= MaxPins THEN live ELSE Kept(live, DOMAIN live \ {LeastUsed(live)})
        BY <1>1 DEF Pruned
  <1>4. \A i \in 1..n : i \in at \/ Expired(ps[i])
        OBVIOUS
  <1> HIDE DEF at
  <1>5. /\ PinMap(live) /\ Len(live) <= n /\ (Len(live) = n => at = 1..n)
        /\ \A i \in at : \E j \in 1..Len(live) : live[j] = ps[i]
        /\ \A j \in 1..Len(live) : \E i \in at : live[j] = ps[i]
        BY <1>2, KeptPins
  <1> HIDE DEF n, live
  <1>6. CASE n <= MaxPins
    <2>1. Pruned(ps) = ps
          BY <1>3, <1>6
    <2> QED BY <1>6, <2>1 DEF n
  <1>7. CASE n > MaxPins /\ Len(live) <= MaxPins
    <2>1. Pruned(ps) = live
          BY <1>1, <1>3, <1>7
    <2>2. \A i \in 1..n : Expired(ps[i]) \/ \E j \in 1..Len(live) : live[j] = ps[i]
          BY <1>4, <1>5
    <2> QED BY <1>5, <1>7, <2>1, <2>2 DEF n
  <1>8. CASE n > MaxPins /\ Len(live) > MaxPins
    <2> DEFINE m == Len(live)
               d == LeastUsed(live)
               left == (1..m) \ {d}
               k == Kept(live, left)
    <2>1. m \in Nat /\ DOMAIN live = 1..m
          BY <1>5 DEF PinMap
    <2>2. n = MaxPins + 1 /\ m = n
      <3>1. n <= MaxPins + 1
            BY DEF n
      <3>2. m <= n /\ m > MaxPins /\ m \in Nat
            BY <1>5, <1>8, <2>1
      <3>3. n \in Nat /\ MaxPins \in Nat
            BY <1>1
      <3> HIDE DEF m
      <3> QED BY <3>1, <3>2, <3>3
    <2>3. Pruned(ps) = k
      <3>1. ~(n <= MaxPins) /\ ~(Len(live) <= MaxPins)
            BY <1>1, <1>8, <2>1, <2>2
      <3> QED BY <1>3, <2>1, <3>1
    <2>4. d \in 1..m /\ \A j \in 1..m : live[d].lastUsedAt <= live[j].lastUsedAt
      <3>1. Len(live) >= 1
            BY <1>1, <2>1, <2>2
      <3> QED BY <1>5, <3>1, LeastUsedIsLeast
    <2>5. left \in SUBSET (1..Len(live))
          OBVIOUS
    <2> HIDE DEF d
    <2>6. d \notin left /\ \A j \in 1..m : j = d \/ j \in left
          OBVIOUS
    <2> HIDE DEF left
    <2>7. /\ PinMap(k) /\ Len(k) <= m /\ (Len(k) = m => left = 1..m)
          /\ \A i \in left : \E j \in 1..Len(k) : k[j] = live[i]
          BY <1>5, <2>5, KeptPins
    <2> HIDE DEF k, m
    <2>8. Len(k) <= MaxPins
      <3>1. Len(k) \in Nat
            BY <2>7 DEF PinMap
      <3>2. Len(k) # m
            BY <2>4, <2>6, <2>7
      <3> QED BY <1>1, <2>1, <2>2, <2>7, <3>1, <3>2
    <2>9. ASSUME NEW i \in 1..n, ~Expired(ps[i]), ~(\E j \in 1..Len(k) : k[j] = ps[i])
          PROVE  \A h \in 1..n : ps[i].lastUsedAt <= ps[h].lastUsedAt
      <3>1. PICK j \in 1..m : live[j] = ps[i]
            BY <1>4, <1>5, <2>9 DEF m
      <3>2. j = d
            BY <2>6, <2>7, <2>9, <3>1
      <3>3. at = 1..n
            BY <1>5, <2>2 DEF m
      <3>4. SUFFICES ASSUME NEW h \in 1..n PROVE ps[i].lastUsedAt <= ps[h].lastUsedAt
            OBVIOUS
      <3>5. PICK g \in 1..m : live[g] = ps[h]
            BY <1>5, <3>3 DEF m
      <3> QED BY <2>4, <3>1, <3>2, <3>5
    <2> QED BY <2>2, <2>3, <2>7, <2>8, <2>9 DEF n
  <1>9. Len(live) \in Nat
        BY <1>5 DEF PinMap
  <1> QED BY <1>1, <1>6, <1>7, <1>8, <1>9

\* A request that looks a session's pin up, and perhaps sets one, leaves no more pins than there may be; a
\* session loses its pin only when the pin has expired or as many others were used since.
LEMMA PinsAreKept ==
    ASSUME PinMap(pins), Len(pins) <= MaxPins, routeNow \in Nat, NEW session \in RouteSessions, NEW spec \in PoolSpecs,
           NEW new \in {Looked(session), Pinned(Looked(session), session, spec)}
    PROVE  /\ PinMap(new) /\ Len(new) <= MaxPins
           /\ \A i \in DOMAIN pins :
                 \/ Cardinality({j \in DOMAIN pins : pins[j].lastUsedAt >= pins[i].lastUsedAt}) > MaxPins - 1
                 \/ routeNow - pins[i].lastUsedAt > PinTtl
                 \/ \E j \in DOMAIN new : new[j].session = pins[i].session
  <1> DEFINE l == Looked(session)
             pin == PinFor(session, spec)
             at == {i \in 1..Len(l) : l[i].session = session}
             put == IF at = {} THEN Append(l, pin) ELSE [l EXCEPT ![CHOOSE i \in at : TRUE] = pin]
  <1> HIDE DEF l, pin, at, put
  <1>0. MaxPins \in Nat \ {0}
        BY RoutingAssumption
  <1>1. /\ PinMap(l) /\ Len(l) <= Len(pins)
        /\ \A i \in 1..Len(pins) : Expired(pins[i]) \/ \E j \in 1..Len(l) : l[j].session = pins[i].session
        /\ (\A j \in 1..Len(l) : l[j].session # session) => l = pins \/ Len(l) < Len(pins)
        BY LookedPins DEF l
  <1>2. Len(pins) \in Nat /\ DOMAIN pins = 1..Len(pins) /\ Len(l) \in Nat /\ DOMAIN l = 1..Len(l)
        BY <1>1 DEF PinMap
  <1>3. CASE new = l
        BY <1>1, <1>2, <1>3, <1>0 DEF Expired
  <1>4. CASE new = Pinned(l, session, spec)
    <2>1. new = Pruned(put)
          BY <1>2, <1>4 DEF Pinned, put, at, pin
    <2>2. pin \in PinRecords /\ pin.session = session
          BY DEF pin, PinFor, PinRecords
    <2>3. CASE at = {}
      <3>1. \A j \in 1..Len(l) : l[j].session # pin.session
            BY <2>2, <2>3 DEF at
      <3>2. put = Append(l, pin)
            BY <2>3 DEF put
      <3>3. PinMap(Append(l, pin)) /\ Len(Append(l, pin)) = Len(l) + 1 /\ \A j \in 1..Len(l) : Append(l, pin)[j] = l[j]
            BY <1>1, <2>2, <3>1, AppendedPin
      <3>4. PinMap(put) /\ Len(put) = Len(l) + 1 /\ \A j \in 1..Len(l) : put[j] = l[j]
            BY <3>2, <3>3
      <3>5. Len(put) <= MaxPins + 1
            BY <1>0, <1>1, <1>2, <3>4
      <3>6. /\ PinMap(new) /\ Len(new) <= MaxPins
            /\ \A i \in 1..Len(put) :
                  \/ Expired(put[i])
                  \/ \E j \in 1..Len(new) : new[j] = put[i]
                  \/ Len(put) = MaxPins + 1 /\ \A k \in 1..Len(put) : put[i].lastUsedAt <= put[k].lastUsedAt
            BY <2>1, <3>4, <3>5, PrunedPins
      <3>7. ASSUME NEW i \in 1..Len(pins), ~Expired(pins[i]), ~(\E j \in 1..Len(new) : new[j].session = pins[i].session)
            PROVE  Cardinality({j \in 1..Len(pins) : pins[j].lastUsedAt >= pins[i].lastUsedAt}) > MaxPins - 1
        <4>1. PICK h \in 1..Len(l) : l[h].session = pins[i].session
              BY <1>1, <3>7
        <4>2. l = pins \/ Len(l) < Len(pins)
              BY <1>1, <2>2, <3>1
        <4>3. h \in 1..Len(put) /\ put[h] = l[h]
              BY <1>2, <3>4, <4>1
        <4>4. CASE Len(l) < Len(pins)
          <5>1. Len(put) # MaxPins + 1 /\ Len(put) <= MaxPins
                BY <1>0, <1>2, <3>4, <4>4
          <5>2. put = new
                BY <1>0, <1>2, <2>1, <5>1 DEF Pruned
          <5> QED BY <3>7, <4>1, <4>3, <5>2
        <4>5. CASE l = pins
          <5>1. h = i
                BY <4>1, <4>5 DEF PinMap
          <5>2. ~(\E j \in 1..Len(new) : new[j] = put[h])
                BY <3>7, <4>3, <4>5, <5>1
          <5>3. Len(put) = MaxPins + 1 /\ \A k \in 1..Len(put) : put[h].lastUsedAt <= put[k].lastUsedAt
                BY <3>6, <3>7, <4>3, <4>5, <5>1, <5>2
          <5>4. Len(pins) = MaxPins
                BY <1>0, <1>2, <3>4, <4>5, <5>3
          <5>5. \A k \in 1..Len(pins) : pins[k].lastUsedAt >= pins[i].lastUsedAt
            <6>1. SUFFICES ASSUME NEW k \in 1..Len(pins) PROVE pins[k].lastUsedAt >= pins[i].lastUsedAt
                  OBVIOUS
            <6>2. k \in 1..Len(put) /\ put[k] = pins[k] /\ put[h] = pins[i]
                  BY <1>2, <3>4, <4>3, <4>5, <5>1
            <6>3. pins[k] \in PinRecords /\ pins[i] \in PinRecords
                  BY <1>2 DEF PinMap
            <6>4. pins[k].lastUsedAt \in Nat /\ pins[i].lastUsedAt \in Nat
                  BY <6>3 DEF PinRecords
            <6> QED BY <5>3, <6>2, <6>4
          <5>6. {j \in 1..Len(pins) : pins[j].lastUsedAt >= pins[i].lastUsedAt} = 1..Len(pins)
                BY <5>5
          <5>7. Cardinality(1..Len(pins)) = MaxPins
                BY <1>0, <5>4, FS_Interval
          <5>8. Cardinality({j \in 1..Len(pins) : pins[j].lastUsedAt >= pins[i].lastUsedAt}) = MaxPins
                BY <5>6, <5>7
          <5>9. MaxPins > MaxPins - 1
                BY <1>0
          <5> QED BY <5>8, <5>9
        <4> QED BY <4>2, <4>4, <4>5
      <3>8. DOMAIN new = 1..Len(new)
            BY <3>6 DEF PinMap
      <3> QED BY <1>2, <3>6, <3>7, <3>8 DEF Expired
    <2>4. CASE at # {}
      <3> DEFINE i == CHOOSE i \in at : TRUE
      <3>1. i \in 1..Len(l) /\ l[i].session = pin.session
            BY <2>2, <2>4 DEF at
      <3>2. put = [l EXCEPT ![i] = pin]
            BY <2>4 DEF put
      <3> HIDE DEF i
      <3>3. /\ PinMap([l EXCEPT ![i] = pin]) /\ Len([l EXCEPT ![i] = pin]) = Len(l)
            /\ \A j \in 1..Len(l) : [l EXCEPT ![i] = pin][j].session = l[j].session
            BY <1>1, <2>2, <3>1, ReplacedPin
      <3>4. PinMap(put) /\ Len(put) = Len(l) /\ \A j \in 1..Len(l) : put[j].session = l[j].session
            BY <3>2, <3>3
      <3>5. Len(put) <= MaxPins
            BY <1>0, <1>1, <1>2, <3>4
      <3>6. new = put
            BY <2>1, <3>5 DEF Pruned
      <3>7. DOMAIN new = 1..Len(new)
            BY <3>4, <3>6 DEF PinMap
      <3>8. \A k \in 1..Len(pins) : Expired(pins[k]) \/ \E j \in 1..Len(new) : new[j].session = pins[k].session
            BY <1>1, <3>4, <3>6
      <3> QED BY <1>2, <3>4, <3>5, <3>6, <3>7, <3>8 DEF Expired
    <2> QED BY <2>3, <2>4
  <1> QED BY <1>3, <1>4 DEF l

-----------------------------------------------------------------------------
\* The values of a function on a finite set are finitely many.
LEMMA ValuesAreFinite ==
    ASSUME NEW S, IsFiniteSet(S), NEW f, DOMAIN f = S, f = [x \in S |-> f[x]]
    PROVE  IsFiniteSet({f[x] : x \in S})
  <1>1. f \in Surjection(S, {f[x] : x \in S})
        BY DEF Surjection
  <1> QED BY <1>1, FS_Surjection

\* The pool: finitely many deployments, each at one place.
LEMMA PoolShape ==
    /\ Len(PoolOrder) \in Nat /\ PoolOrder \in [1..Len(PoolOrder) -> PoolSpecs]
    /\ IsFiniteSet(PoolSpecs) /\ PoolSpecs # {}
    /\ \A s \in PoolSpecs : PlaceIn(PoolOrder, s) \in 1..Len(PoolOrder) /\ PoolOrder[PlaceIn(PoolOrder, s)] = s
  <1> DEFINE n == Len(PoolOrder)
  <1>1. PoolOrder \in Seq(PoolSpecs) /\ PoolOrder # <<>>
        BY RoutingAssumption DEF PoolSpecs
  <1>2. n \in Nat /\ PoolOrder \in [1..n -> PoolSpecs] /\ DOMAIN PoolOrder = 1..n /\ n # 0
        BY <1>1
  <1> HIDE DEF n
  <1>3. \A s \in PoolSpecs : \E i \in 1..n : PoolOrder[i] = s
        BY <1>2 DEF PoolSpecs, ToSet
  <1>4. PoolOrder \in Surjection(1..n, PoolSpecs)
        BY <1>2, <1>3 DEF Surjection
  <1>5. IsFiniteSet(1..n)
        BY <1>2, FS_Interval
  <1>6. IsFiniteSet(PoolSpecs)
        BY <1>4, <1>5, FS_Surjection
  <1>7. PoolSpecs # {}
    <2>1. 1 \in 1..n
          BY <1>2
    <2> QED BY <1>2, <2>1
  <1>8. \A s \in PoolSpecs : PlaceIn(PoolOrder, s) \in 1..n /\ PoolOrder[PlaceIn(PoolOrder, s)] = s
    <2>1. SUFFICES ASSUME NEW s \in PoolSpecs PROVE PlaceIn(PoolOrder, s) \in 1..n /\ PoolOrder[PlaceIn(PoolOrder, s)] = s
          OBVIOUS
    <2>2. \E i \in 1..n : PoolOrder[i] = s
          BY <1>3
    <2> QED BY <1>2, <2>2 DEF PlaceIn
  <1> QED BY <1>2, <1>6, <1>7, <1>8 DEF n

\* The cells of a deployment: one for each of its slots.
LEMMA CellShape ==
    ASSUME NEW s \in PoolSpecs
    PROVE  /\ IsFiniteSet(CellsOf(s)) /\ CellsOf(s) # {} /\ CellsOf(s) \subseteq RouteCells
           /\ \A c \in CellsOf(s) : c = <<s, CredOf(c)>> /\ SpecOf(c) = s /\ CredOf(c) \in Credentials /\ SlotIndex(c) \in Nat
           /\ \A c, d \in CellsOf(s) : SlotIndex(c) = SlotIndex(d) => c = d
  <1> DEFINE slots == SlotsOf[s]
             n == Len(slots)
             creds == ToSet(slots)
  <1>1. slots \in Seq(creds) /\ slots # <<>>
        BY RoutingAssumption DEF PoolSpecs
  <1> HIDE DEF slots
  <1>2. n \in Nat /\ slots \in [1..n -> creds] /\ DOMAIN slots = 1..n /\ n # 0
        BY <1>1
  <1>3. \A x \in creds : \E i \in 1..n : slots[i] = x
        BY <1>2 DEF ToSet
  <1> HIDE DEF n, creds
  <1>4. slots \in Surjection(1..n, creds)
        BY <1>2, <1>3 DEF Surjection
  <1>5. IsFiniteSet(1..n)
        BY <1>2, FS_Interval
  <1>6. IsFiniteSet(creds)
        BY <1>4, <1>5, FS_Surjection
  <1>7. CellsOf(s) = {s} \X creds
        BY DEF CellsOf, creds, slots
  <1>8. IsFiniteSet(CellsOf(s))
    <2>1. IsFiniteSet({s})
          BY FS_Singleton
    <2> QED BY <1>6, <1>7, <2>1, FS_Product
  <1>9. CellsOf(s) # {}
    <2>1. 1 \in 1..n
          BY <1>2
    <2>2. slots[1] \in creds
          BY <1>2, <2>1
    <2>3. <<s, slots[1]>> \in {s} \X creds
          BY <2>2
    <2> QED BY <1>7, <2>3
  <1>10. CellsOf(s) \subseteq RouteCells
        BY DEF CellsOf, RouteCells
  <1>11. \A c \in CellsOf(s) : c = <<s, CredOf(c)>> /\ SpecOf(c) = s /\ CredOf(c) \in creds
        BY <1>7 DEF SpecOf, CredOf
  <1>12. \A c \in CellsOf(s) : CredOf(c) \in Credentials
        BY <1>10 DEF CredOf, Credentials
  <1>13. \A c \in CellsOf(s) : SlotIndex(c) \in 1..n /\ slots[SlotIndex(c)] = CredOf(c)
    <2>1. SUFFICES ASSUME NEW c \in CellsOf(s) PROVE SlotIndex(c) \in 1..n /\ slots[SlotIndex(c)] = CredOf(c)
          OBVIOUS
    <2>2. SlotIndex(c) = PlaceIn(slots, CredOf(c))
          BY <1>11 DEF SlotIndex, slots
    <2>3. \E i \in 1..n : slots[i] = CredOf(c)
          BY <1>3, <1>11
    <2> QED BY <1>2, <2>2, <2>3, PlaceIsFound
  <1>14. \A c, d \in CellsOf(s) : SlotIndex(c) = SlotIndex(d) => c = d
    <2>1. SUFFICES ASSUME NEW c \in CellsOf(s), NEW d \in CellsOf(s), SlotIndex(c) = SlotIndex(d) PROVE c = d
          OBVIOUS
    <2>2. CredOf(c) = CredOf(d)
          BY <1>13, <2>1
    <2>3. c = <<s, CredOf(c)>> /\ d = <<s, CredOf(d)>>
          BY <1>11
    <2> QED BY <2>2, <2>3
  <1> QED BY <1>2, <1>8, <1>9, <1>10, <1>11, <1>12, <1>13, <1>14

\* The cells are those of the deployments, finitely many of finitely many credentials.
LEMMA FleetShape ==
    /\ \A c \in RouteCells : SpecOf(c) \in PoolSpecs /\ c \in CellsOf(SpecOf(c)) /\ CredOf(c) \in Credentials
    /\ IsFiniteSet(RouteCells) /\ IsFiniteSet(Credentials) /\ Credentials # {}
  <1>1. \A c \in RouteCells : \E s \in PoolSpecs : c \in CellsOf(s)
        BY DEF RouteCells, CellsOf
  <1>2. \A c \in RouteCells : SpecOf(c) \in PoolSpecs /\ c \in CellsOf(SpecOf(c)) /\ CredOf(c) \in Credentials
    <2>1. SUFFICES ASSUME NEW c \in RouteCells PROVE SpecOf(c) \in PoolSpecs /\ c \in CellsOf(SpecOf(c)) /\ CredOf(c) \in Credentials
          OBVIOUS
    <2>2. PICK s \in PoolSpecs : c \in CellsOf(s)
          BY <1>1
    <2>3. SpecOf(c) = s /\ CredOf(c) \in Credentials
          BY <2>2, CellShape
    <2> QED BY <2>2, <2>3
  <1>3. IsFiniteSet(RouteCells)
    <2> DEFINE f == [s \in PoolSpecs |-> CellsOf(s)]
    <2>1. IsFiniteSet({f[s] : s \in PoolSpecs})
      <3>1. DOMAIN f = PoolSpecs /\ f = [s \in PoolSpecs |-> f[s]]
            OBVIOUS
      <3> HIDE DEF f
      <3> QED BY <3>1, PoolShape, ValuesAreFinite
    <2>2. \A T \in {f[s] : s \in PoolSpecs} : IsFiniteSet(T)
      <3>1. \A s \in PoolSpecs : IsFiniteSet(CellsOf(s))
            BY CellShape
      <3> QED BY <3>1
    <2>3. RouteCells = UNION {f[s] : s \in PoolSpecs}
          BY DEF RouteCells, CellsOf
    <2> HIDE DEF f
    <2>4. IsFiniteSet(UNION {f[s] : s \in PoolSpecs})
          BY <2>1, <2>2, FS_UNION
    <2> QED BY <2>3, <2>4
  <1>4. IsFiniteSet(Credentials)
    <2> DEFINE f == [c \in RouteCells |-> c[2]]
    <2>1. Credentials = {f[c] : c \in RouteCells}
          BY DEF Credentials
    <2>2. DOMAIN f = RouteCells /\ f = [c \in RouteCells |-> f[c]]
          OBVIOUS
    <2> HIDE DEF f
    <2> QED BY <1>3, <2>1, <2>2, ValuesAreFinite
  <1>5. Credentials # {}
    <2>1. PICK s \in PoolSpecs : TRUE
          BY PoolShape
    <2>2. PICK c \in CellsOf(s) : TRUE
          BY CellShape
    <2> QED BY <2>2, CellShape
  <1> QED BY <1>2, <1>3, <1>4, <1>5

\* Keys that end in the place of the slot order the usable cells of a deployment.
LEMMA RankingKeys ==
    ASSUME NEW s \in PoolSpecs, NEW U \in SUBSET CellsOf(s), U # {}, NEW key \in [U -> [1..4 -> Int]],
           \A c \in U : key[c][4] = SlotIndex(c)
    PROVE  /\ ListsInOrder(InOrder(key), key, U)
           /\ InOrder(key)[1] \in U /\ \A c \in U : c # InOrder(key)[1] => Before(key[InOrder(key)[1]], key[c])
  <1>1. IsFiniteSet(U)
        BY CellShape, FS_Subset
  <1>2. \A x, y \in U : key[x] = key[y] => x = y
        BY CellShape
  <1>3. ListsInOrder(InOrder(key), key, U)
        BY <1>1, <1>2, InOrderEnumerates
  <1>4. InOrder(key)[1] \in U /\ \A c \in U : c # InOrder(key)[1] => Before(key[InOrder(key)[1]], key[c])
        BY <1>1, <1>2, FirstIsBeforeAll
  <1> QED BY <1>3, <1>4

\* What the evidence is kept as.
RouteTypes == /\ routeNow \in Nat
              /\ coolUntil \in [RouteCells -> Nat]
              /\ lru \in [Credentials -> Nat]

\* A deployment has a usable cell, and every cell that is not barred is usable.
LEMMA UsableCells ==
    ASSUME NEW s \in PoolSpecs
    PROVE  /\ Usable(s) \in SUBSET CellsOf(s) /\ Usable(s) # {}
           /\ \A c \in CellsOf(s) : condition[c] # "barred" => c \in Usable(s)
  <1>1. CellsOf(s) # {}
        BY CellShape
  <1> QED BY <1>1 DEF Usable

\* The ranking of a deployment's credentials lists the usable ones, each once.
LEMMA RankedLists ==
    ASSUME RouteTypes, NEW s \in PoolSpecs
    PROVE  /\ \E key : ListsInOrder(Ranked(s), key, Usable(s))
           /\ HeadOf(s) \in Usable(s) /\ HeadOf(s) \in CellsOf(s)
  <1> DEFINE U == Usable(s)
             key == [c \in U |-> RankKey(c)]
  <1>1. U \in SUBSET CellsOf(s) /\ U # {}
        BY UsableCells
  <1> HIDE DEF U
  <1>2. key \in [U -> [1..4 -> Int]]
    <2>1. ASSUME NEW c \in U PROVE RankKey(c) \in [1..4 -> Int]
      <3>1. DemotionBand(c) \in Int /\ HeadroomBand(c) \in Int
            BY DEF DemotionBand, HeadroomBand
      <3>2. CredOf(c) \in Credentials /\ SlotIndex(c) \in Int
            BY <1>1, CellShape
      <3>3. lru[CredOf(c)] \in Int
            BY <3>2 DEF RouteTypes
      <3> QED BY <3>1, <3>2, <3>3 DEF RankKey
    <2> QED BY <2>1
  <1>3. \A c \in U : key[c][4] = SlotIndex(c)
        BY DEF RankKey
  <1>4. Ranked(s) = InOrder(key)
        BY DEF Ranked, U
  <1> HIDE DEF key
  <1>5. ListsInOrder(InOrder(key), key, U) /\ InOrder(key)[1] \in U
        BY <1>1, <1>2, <1>3, RankingKeys
  <1> QED BY <1>1, <1>4, <1>5 DEF HeadOf, U

\* The deployments in the order of their bands: each of the pool once.
LEMMA OrderedLists ==
    ASSUME RouteTypes
    PROVE  \E key : ListsInOrder(Ordered, key, PoolSpecs)
  <1> DEFINE key == [s \in PoolSpecs |-> BandKey(s)]
  <1>1. key \in [PoolSpecs -> [1..3 -> Int]]
    <2>1. ASSUME NEW s \in PoolSpecs PROVE BandKey(s) \in [1..3 -> Int]
      <3> DEFINE head == HeadOf(s)
      <3>1. head \in RouteCells
            BY RankedLists, CellShape
      <3> HIDE DEF head
      <3>2. PlaceIn(Bands, Usability(head)) \in Int
        <4>1. Bands \in [1..5 -> {"probation", "live", "paced", "credential-fault", "cooling"}]
              BY DEF Bands
        <4>2. \E i \in 1..5 : Bands[i] = Usability(head)
          <5>1. Usability(head) \in {"probation", "live", "paced", "credential-fault", "cooling"}
                BY DEF Usability
          <5>2. /\ Bands[1] = "probation" /\ Bands[2] = "live" /\ Bands[3] = "paced"
                /\ Bands[4] = "credential-fault" /\ Bands[5] = "cooling"
                BY DEF Bands
          <5> QED BY <5>1, <5>2
        <4> HIDE DEF head
        <4>3. PlaceIn(Bands, Usability(head)) \in 1..5
              BY <4>1, <4>2, PlaceIsFound
        <4> QED BY <4>3
      <3>3. Lift(head) \in Int
            BY <3>1 DEF Lift, ResetOf, RouteTypes
      <3>4. PlaceIn(PoolOrder, s) \in Int
            BY PoolShape
      <3>5. BandKey(s) = <<PlaceIn(Bands, Usability(head)), Lift(head), PlaceIn(PoolOrder, s)>>
            BY DEF BandKey, head
      <3> QED BY <3>2, <3>3, <3>4, <3>5
    <2> QED BY <2>1
  <1>2. \A s \in PoolSpecs : key[s][3] = PlaceIn(PoolOrder, s)
        BY DEF BandKey
  <1> HIDE DEF key
  <1>3. \A s, t \in PoolSpecs : key[s] = key[t] => s = t
        BY <1>2, PoolShape
  <1>4. ListsInOrder(InOrder(key), key, PoolSpecs)
        BY <1>1, <1>3, PoolShape, InOrderEnumerates
  <1>5. Ordered = InOrder(key)
        BY DEF Ordered, key
  <1> QED BY <1>4, <1>5

\* The cells a walk is over: the usable ones of the deployments the prompt fits.
WalkCells(size) == UNION {Usable(s) : s \in {t \in PoolSpecs : Fits(t, size)}}

\* The walk lists those cells, each once, and a pinned deployment that holds and fits is where it starts.
LEMMA WalkLists ==
    ASSUME RouteTypes, NEW session, NEW size
    PROVE  LET walk == WalkFor(session, size)
               N == Cardinality(WalkCells(size)) IN
           /\ N \in Nat /\ walk \in [1..N -> WalkCells(size)]
           /\ \A c \in WalkCells(size) : \E i \in 1..N : walk[i] = c
           /\ \A i, j \in 1..N : walk[i] = walk[j] => i = j
           /\ Holds(PinnedSpec(session)) /\ Fits(PinnedSpec(session), size) => SpecOf(walk[1]) = PinnedSpec(session)
  <1> DEFINE pin == PinnedSpec(session)
             place == Sticky(Ordered, pin)
             ranks == [s \in PoolSpecs |-> Ranked(s)]
             C == WalkCells(size)
             key == [c \in C |-> <<place[SpecOf(c)], PlaceIn(ranks[SpecOf(c)], c)>>]
             walk == WalkFor(session, size)
             M == Cardinality(PoolSpecs)
  <1> HIDE DEF pin, place, ranks, C, key, walk, M
  <1>1. /\ M \in Nat /\ Ordered \in [1..M -> PoolSpecs]
        /\ \A x \in PoolSpecs : \E i \in 1..M : Ordered[i] = x
    <2>1. PICK k : ListsInOrder(Ordered, k, PoolSpecs)
          BY OrderedLists
    <2> QED BY <2>1 DEF ListsInOrder, M
  <1>2. ToSet(Ordered) = PoolSpecs
        BY <1>1 DEF ToSet
  <1>3. \A s \in PoolSpecs : PlaceIn(Ordered, s) \in 1..M /\ Ordered[PlaceIn(Ordered, s)] = s
    <2>1. SUFFICES ASSUME NEW s \in PoolSpecs PROVE PlaceIn(Ordered, s) \in 1..M /\ Ordered[PlaceIn(Ordered, s)] = s
          OBVIOUS
    <2>2. DOMAIN Ordered = 1..M /\ \E i \in 1..M : Ordered[i] = s
          BY <1>1
    <2> QED BY <2>2 DEF PlaceIn
  <1>4. place = [s \in PoolSpecs |-> IF s = pin /\ Holds(pin) THEN 0 ELSE PlaceIn(Ordered, s)]
        BY <1>2 DEF place, Sticky
  <1>5. \A s \in PoolSpecs : place[s] \in Nat /\ (place[s] = 0 <=> s = pin /\ Holds(pin))
        BY <1>1, <1>3, <1>4
  <1>6. \A s, t \in PoolSpecs : place[s] = place[t] => s = t
    <2>1. SUFFICES ASSUME NEW s \in PoolSpecs, NEW t \in PoolSpecs, place[s] = place[t] PROVE s = t
          OBVIOUS
    <2>2. CASE place[s] = 0
          BY <1>5, <2>1, <2>2
    <2>3. CASE place[s] # 0
      <3>1. place[s] = PlaceIn(Ordered, s) /\ place[t] = PlaceIn(Ordered, t)
            BY <1>4, <1>5, <2>1, <2>3
      <3> QED BY <1>3, <2>1, <3>1
    <2> QED BY <2>2, <2>3
  <1>7. C \subseteq RouteCells /\ \A c \in C : SpecOf(c) \in PoolSpecs /\ Fits(SpecOf(c), size) /\ c \in Usable(SpecOf(c))
    <2>1. SUFFICES ASSUME NEW c \in C
                   PROVE  c \in RouteCells /\ SpecOf(c) \in PoolSpecs /\ Fits(SpecOf(c), size) /\ c \in Usable(SpecOf(c))
          OBVIOUS
    <2>2. PICK s \in PoolSpecs : Fits(s, size) /\ c \in Usable(s)
          BY <2>1 DEF C, WalkCells
    <2>3. c \in CellsOf(s)
          BY <2>2, UsableCells
    <2>4. SpecOf(c) = s /\ c \in RouteCells
          BY <2>3, CellShape
    <2> QED BY <2>2, <2>4
  <1>8. IsFiniteSet(C)
        BY <1>7, FleetShape, FS_Subset
  <1>9. \A c \in C : /\ PlaceIn(ranks[SpecOf(c)], c) \in Int
                     /\ ranks[SpecOf(c)][PlaceIn(ranks[SpecOf(c)], c)] = c
    <2>1. SUFFICES ASSUME NEW c \in C
                   PROVE  /\ PlaceIn(ranks[SpecOf(c)], c) \in Int
                          /\ ranks[SpecOf(c)][PlaceIn(ranks[SpecOf(c)], c)] = c
          OBVIOUS
    <2> DEFINE s == SpecOf(c)
               r == Ranked(s)
               n == Cardinality(Usable(s))
    <2>2. s \in PoolSpecs /\ c \in Usable(s)
          BY <1>7
    <2> HIDE DEF s, r
    <2>3. PICK k : ListsInOrder(r, k, Usable(s))
          BY <2>2, RankedLists DEF r
    <2>4. n \in Nat /\ DOMAIN r = 1..n /\ \E i \in 1..n : r[i] = c
          BY <2>2, <2>3 DEF ListsInOrder
    <2> HIDE DEF n
    <2>5. PlaceIn(r, c) \in 1..n /\ r[PlaceIn(r, c)] = c
          BY <2>4 DEF PlaceIn
    <2>6. ranks[s] = r
          BY <2>2 DEF ranks, r
    <2> QED BY <2>4, <2>5, <2>6 DEF s
  <1>10. key \in [C -> [1..2 -> Int]]
    <2>1. ASSUME NEW c \in C PROVE <<place[SpecOf(c)], PlaceIn(ranks[SpecOf(c)], c)>> \in [1..2 -> Int]
      <3>1. place[SpecOf(c)] \in Int /\ PlaceIn(ranks[SpecOf(c)], c) \in Int
            BY <1>5, <1>7, <1>9
      <3> QED BY <3>1
    <2> QED BY <2>1 DEF key
  <1>11. \A c \in C : key[c][1] = place[SpecOf(c)] /\ key[c][2] = PlaceIn(ranks[SpecOf(c)], c)
        BY DEF key
  <1>12. \A c, d \in C : key[c] = key[d] => c = d
    <2>1. SUFFICES ASSUME NEW c \in C, NEW d \in C, key[c] = key[d] PROVE c = d
          OBVIOUS
    <2>2. SpecOf(c) = SpecOf(d)
          BY <1>6, <1>7, <1>11, <2>1
    <2>3. PlaceIn(ranks[SpecOf(c)], c) = PlaceIn(ranks[SpecOf(d)], d)
          BY <1>11, <2>1
    <2>4. ranks[SpecOf(c)][PlaceIn(ranks[SpecOf(c)], c)] = c /\ ranks[SpecOf(d)][PlaceIn(ranks[SpecOf(d)], d)] = d
          BY <1>9
    <2> QED BY <2>2, <2>3, <2>4
  <1>13. walk = InOrder(key)
    <2>1. DOMAIN place = PoolSpecs
          BY <1>4
    <2>2. C = UNION {Usable(s) : s \in {t \in DOMAIN place : Fits(t, size)}}
          BY <2>1 DEF C, WalkCells
    <2> QED BY <2>2 DEF walk, WalkFor, key, place, ranks, pin
  <1>14. ListsInOrder(walk, key, C)
        BY <1>8, <1>10, <1>12, <1>13, InOrderEnumerates
  <1>15. ASSUME Holds(pin), Fits(pin, size) PROVE SpecOf(walk[1]) = pin
    <2>1. pin \in PoolSpecs
          BY <1>15 DEF Holds
    <2>2. PICK c \in Usable(pin) : c \in CellsOf(pin)
          BY <2>1, UsableCells
    <2>3. c \in C /\ SpecOf(c) = pin
          BY <1>15, <2>1, <2>2, CellShape DEF C, WalkCells
    <2>4. walk[1] \in C /\ (c # walk[1] => Before(key[walk[1]], key[c]))
          BY <1>8, <1>10, <1>12, <1>13, <2>3, FirstIsBeforeAll
    <2>5. CASE c = walk[1]
          BY <2>3, <2>5
    <2>6. CASE c # walk[1]
      <3>1. DOMAIN key[walk[1]] = 1..2
            BY <1>10, <2>4
      <3>2. key[c][1] = 0
            BY <1>5, <1>11, <1>15, <2>1, <2>3
      <3>3. key[walk[1]][1] \in Nat
            BY <1>5, <1>7, <1>11, <2>4
      <3>4. PICK i \in 1..2 : key[walk[1]][i] < key[c][i] /\ \A j \in 1..(i - 1) : key[walk[1]][j] = key[c][j]
            BY <2>4, <2>6, <3>1 DEF Before
      <3>5. i = 2
            BY <3>2, <3>3, <3>4
      <3>6. key[walk[1]][1] = 0
            BY <3>2, <3>4, <3>5
      <3> QED BY <1>5, <1>7, <1>11, <2>4, <3>6
    <2> QED BY <2>5, <2>6
  <1> QED BY <1>14, <1>15 DEF ListsInOrder, C, walk, pin

-----------------------------------------------------------------------------
\* The inductive invariant: the evidence is kept in its types, and no more pins than there may be, one of a session.
RouteInv == RouteTypes /\ PinMap(pins) /\ Len(pins) <= MaxPins

\* The larger of two naturals.
LEMMA MaxOfTwo ==
    ASSUME NEW a \in Nat, NEW b \in Nat
    PROVE  Max({a, b}) \in Nat /\ Max({a, b}) >= a
  <1>1. {a, b} = {a} \cup {b} /\ {a, b} \in SUBSET Nat /\ {a, b} # {}
        OBVIOUS
  <1>2. IsFiniteSet({a})
        BY FS_Singleton
  <1>3. IsFiniteSet({a, b})
        BY <1>1, <1>2, FS_AddElement
  <1>4. Max({a, b}) \in {a, b} /\ \A x \in {a, b} : x <= Max({a, b})
        BY <1>1, <1>3, MaxIsIn
  <1> QED BY <1>4

\* Ordering cools the spent heads beyond now and leaves the other cooldowns.
LEMMA OrderingCools ==
    ASSUME RouteTypes
    PROVE  /\ QuotaCooled \in [RouteCells -> Nat]
           /\ \A s \in PoolSpecs : QuotaSpent(HeadOf(s)) /\ ~Cooling(HeadOf(s)) => QuotaCooled[HeadOf(s)] > routeNow
  <1> DEFINE spent == {c \in {HeadOf(spec) : spec \in PoolSpecs} : ~Cooling(c) /\ QuotaSpent(c)}
  <1>1. QuotaCooled = [c \in RouteCells |-> IF c \in spent THEN ResetOf(routeNow) ELSE coolUntil[c]]
        BY DEF QuotaCooled
  <1>2. \A s \in PoolSpecs : HeadOf(s) \in RouteCells
        BY RankedLists, CellShape
  <1>3. \A s \in PoolSpecs : QuotaSpent(HeadOf(s)) /\ ~Cooling(HeadOf(s)) => HeadOf(s) \in spent
        OBVIOUS
  <1>4. ResetOf(routeNow) \in Nat /\ ResetOf(routeNow) > routeNow
        BY DEF ResetOf, RouteTypes
  <1>5. coolUntil \in [RouteCells -> Nat]
        BY DEF RouteTypes
  <1> HIDE DEF spent
  <1> QED BY <1>1, <1>2, <1>3, <1>4, <1>5

\* How the walk of a request over `walk` may end, of what the properties are about.
RouteOutcome(walk, session, size) ==
    \/ walk = <<>> /\ coolUntil' = QuotaCooled /\ pins' = Looked(session) /\ lru' = lru
    \/ \E tried \in DOMAIN walk, served \in BOOLEAN :
         /\ coolUntil' = [c \in RouteCells |->
                IF served /\ c = walk[tried] THEN 0
                ELSE IF c \in Failed(walk, tried, served) /\ ~TooLong(c, size) THEN Max({QuotaCooled[c], routeNow + FailCooldown})
                ELSE QuotaCooled[c]]
         /\ lru' = [c \in Credentials |->
                LET uses == {i \in 1..tried : CredOf(walk[i]) = c}
                IN IF uses = {} THEN lru[c] ELSE Max({lru[d] : d \in Credentials}) + Max(uses)]
         /\ pins' = IF served /\ Len(PoolOrder) > 1 THEN Pinned(Looked(session), session, SpecOf(walk[tried])) ELSE Looked(session)

\* What a request does to the state, whichever way its walk ends.
LEMMA RouteSteps ==
    ASSUME RouteInv, NEW session \in RouteSessions, NEW size, Route(session, size)
    PROVE  /\ route' = [session |-> session, walk |-> WalkFor(session, size), pinned |-> PinnedSpec(session),
                        pinLive |-> Holds(PinnedSpec(session)), size |-> size, at |-> routeNow]
           /\ routeNow' = routeNow /\ condition' = condition
           /\ coolUntil' \in [RouteCells -> Nat] /\ lru' \in [Credentials -> Nat]
           /\ \A c \in RouteCells : coolUntil'[c] = 0 \/ coolUntil'[c] >= QuotaCooled[c]
           /\ \E spec \in PoolSpecs : pins' \in {Looked(session), Pinned(Looked(session), session, spec)}
  <1> DEFINE walk == WalkFor(session, size)
             cooled == QuotaCooled
             N == Cardinality(WalkCells(size))
  <1>1. RouteTypes
        BY DEF RouteInv
  <1>2. /\ routeNow \in Nat /\ coolUntil \in [RouteCells -> Nat] /\ lru \in [Credentials -> Nat]
        /\ FailCooldown \in Nat
        BY <1>1, RoutingAssumption DEF RouteTypes
  <1>3. route' = [session |-> session, walk |-> walk, pinned |-> PinnedSpec(session),
                  pinLive |-> Holds(PinnedSpec(session)), size |-> size, at |-> routeNow]
        BY DEF Route
  <1>4. routeNow' = routeNow /\ condition' = condition
        BY DEF Route
  <1>5. route'.walk = walk
        BY <1>3
  <1>6. cooled \in [RouteCells -> Nat]
        BY <1>1, OrderingCools
  <1>7. N \in Nat /\ walk \in [1..N -> WalkCells(size)]
        BY <1>1, WalkLists
  <1>8. \A c \in WalkCells(size) : c \in RouteCells
        BY UsableCells, CellShape DEF WalkCells
  <1>9. PICK anySpec \in PoolSpecs : TRUE
        BY PoolShape
  <1> HIDE DEF walk, cooled, N
  <1>10. RouteOutcome(walk, session, size)
    <2> DEFINE given == route'.walk
    <2>1. RouteOutcome(given, session, size)
          BY Zenon DEF Route, RouteOutcome
    <2>2. given = walk
          BY <1>5
    <2> HIDE DEF given
    <2> QED BY <2>1, <2>2
  <1>11. CASE walk = <<>> /\ coolUntil' = cooled /\ pins' = Looked(session) /\ lru' = lru
    <2>1. coolUntil' \in [RouteCells -> Nat] /\ \A c \in RouteCells : coolUntil'[c] >= cooled[c]
          BY <1>6, <1>11
    <2> QED BY <1>2, <1>3, <1>4, <1>9, <1>11, <2>1 DEF walk, cooled
  <1>12. ASSUME NEW tried \in DOMAIN walk, NEW served \in BOOLEAN,
                coolUntil' = [c \in RouteCells |->
                    IF served /\ c = walk[tried] THEN 0
                    ELSE IF c \in Failed(walk, tried, served) /\ ~TooLong(c, size) THEN Max({cooled[c], routeNow + FailCooldown})
                    ELSE cooled[c]],
                lru' = [c \in Credentials |->
                    LET uses == {i \in 1..tried : CredOf(walk[i]) = c}
                    IN IF uses = {} THEN lru[c] ELSE Max({lru[d] : d \in Credentials}) + Max(uses)],
                pins' = IF served /\ Len(PoolOrder) > 1 THEN Pinned(Looked(session), session, SpecOf(walk[tried])) ELSE Looked(session)
         PROVE  /\ coolUntil' \in [RouteCells -> Nat] /\ lru' \in [Credentials -> Nat]
                /\ \A c \in RouteCells : coolUntil'[c] = 0 \/ coolUntil'[c] >= cooled[c]
                /\ \E spec \in PoolSpecs : pins' \in {Looked(session), Pinned(Looked(session), session, spec)}
    <2>1. ASSUME NEW c \in RouteCells
          PROVE  coolUntil'[c] \in Nat /\ (coolUntil'[c] = 0 \/ coolUntil'[c] >= cooled[c])
      <3>1. cooled[c] \in Nat /\ routeNow + FailCooldown \in Nat
            BY <1>2, <1>6
      <3>2. Max({cooled[c], routeNow + FailCooldown}) \in Nat /\ Max({cooled[c], routeNow + FailCooldown}) >= cooled[c]
            BY <3>1, MaxOfTwo
      <3>3. coolUntil'[c] \in {0, cooled[c], Max({cooled[c], routeNow + FailCooldown})}
            BY <1>12
      <3> QED BY <3>1, <3>2, <3>3
    <2>2. coolUntil' \in [RouteCells -> Nat]
      <3>1. coolUntil' = [c \in RouteCells |-> coolUntil'[c]]
            BY <1>12
      <3> QED BY <2>1, <3>1
    <2>3. tried \in Nat /\ tried \in 1..N
          BY <1>7
    <2>4. ASSUME NEW c \in Credentials PROVE lru'[c] \in Nat
      <3> DEFINE uses == {i \in 1..tried : CredOf(walk[i]) = c}
                 used == {lru[d] : d \in Credentials}
      <3>1. lru'[c] = IF uses = {} THEN lru[c] ELSE Max(used) + Max(uses)
            BY <1>12
      <3>2. uses \in SUBSET Nat /\ IsFiniteSet(uses)
        <4>1. uses \in SUBSET (1..tried)
              OBVIOUS
        <4>2. IsFiniteSet(1..tried)
              BY <2>3, FS_Interval
        <4> HIDE DEF uses
        <4>3. IsFiniteSet(uses)
              BY <4>1, <4>2, FS_Subset
        <4> QED BY <4>1, <4>3
      <3>3. used \in SUBSET Nat /\ used # {} /\ IsFiniteSet(used)
        <4>1. used \in SUBSET Nat
              BY <1>2
        <4>2. used # {}
              BY FleetShape
        <4>3. DOMAIN lru = Credentials /\ lru = [d \in Credentials |-> lru[d]]
              BY <1>2
        <4>4. IsFiniteSet(used)
              BY <4>3, FleetShape, ValuesAreFinite
        <4> QED BY <4>1, <4>2, <4>4
      <3> HIDE DEF uses, used
      <3>4. Max(used) \in Nat
        <4>1. Max(used) \in used
              BY <3>3, MaxIsIn
        <4> QED BY <3>3, <4>1
      <3>5. uses # {} => Max(uses) \in Nat
        <4>1. SUFFICES ASSUME uses # {} PROVE Max(uses) \in Nat
              OBVIOUS
        <4>2. Max(uses) \in uses
              BY <3>2, <4>1, MaxIsIn
        <4> QED BY <3>2, <4>2
      <3> QED BY <1>2, <3>1, <3>4, <3>5
    <2>5. lru' \in [Credentials -> Nat]
      <3>1. lru' = [c \in Credentials |-> lru'[c]]
            BY <1>12
      <3> QED BY <2>4, <3>1
    <2>6. SpecOf(walk[tried]) \in PoolSpecs
      <3>1. walk[tried] \in RouteCells
            BY <1>7, <1>8, <2>3
      <3> QED BY <3>1, FleetShape
    <2>7. pins' \in {Looked(session), Pinned(Looked(session), session, SpecOf(walk[tried]))}
          BY <1>12
    <2> QED BY <2>1, <2>2, <2>5, <2>6, <2>7
  <1>13. \/ walk = <<>> /\ coolUntil' = cooled /\ pins' = Looked(session) /\ lru' = lru
         \/ /\ coolUntil' \in [RouteCells -> Nat] /\ lru' \in [Credentials -> Nat]
            /\ \A c \in RouteCells : coolUntil'[c] = 0 \/ coolUntil'[c] >= cooled[c]
            /\ \E spec \in PoolSpecs : pins' \in {Looked(session), Pinned(Looked(session), session, spec)}
        BY <1>10, <1>12, Zenon DEF RouteOutcome, cooled
  <1> QED BY <1>3, <1>4, <1>11, <1>13 DEF walk, cooled

\* The invariant holds of a relay that starts.
LEMMA RouteStarts == RouteInit => RouteInv
  <1> SUFFICES ASSUME RouteInit PROVE RouteInv
      OBVIOUS
  <1>1. RouteTypes
        BY DEF RouteInit, RouteTypes
  <1>2. PinMap(pins) /\ Len(pins) = 0
        BY DEF RouteInit, PinMap
  <1>3. MaxPins \in Nat
        BY RoutingAssumption
  <1> QED BY <1>1, <1>2, <1>3 DEF RouteInv

\* A request keeps the invariant, and what is promised of it holds.
LEMMA RequestIsOrdered ==
    ASSUME RouteInv, NEW session \in RouteSessions, NEW size, Route(session, size)
    PROVE  RouteInv' /\ NothingIsDropped /\ SessionsKeepTheirPlace /\ SpentHeadGivesWay
  <1> DEFINE walk == WalkFor(session, size)
             pin == PinnedSpec(session)
             N == Cardinality(WalkCells(size))
  <1>1. RouteTypes /\ PinMap(pins) /\ Len(pins) <= MaxPins /\ routeNow \in Nat
        BY DEF RouteInv, RouteTypes
  <1>2. /\ route' = [session |-> session, walk |-> walk, pinned |-> pin, pinLive |-> Holds(pin), size |-> size, at |-> routeNow]
        /\ routeNow' = routeNow /\ condition' = condition
        /\ coolUntil' \in [RouteCells -> Nat] /\ lru' \in [Credentials -> Nat]
        /\ \A c \in RouteCells : coolUntil'[c] = 0 \/ coolUntil'[c] >= QuotaCooled[c]
        /\ \E spec \in PoolSpecs : pins' \in {Looked(session), Pinned(Looked(session), session, spec)}
        BY RouteSteps
  <1>3. /\ N \in Nat /\ walk \in [1..N -> WalkCells(size)]
        /\ \A c \in WalkCells(size) : \E i \in 1..N : walk[i] = c
        /\ \A i, j \in 1..N : walk[i] = walk[j] => i = j
        /\ Holds(pin) /\ Fits(pin, size) => SpecOf(walk[1]) = pin
        BY <1>1, WalkLists
  <1> HIDE DEF walk, pin, N
  <1>4. PICK spec \in PoolSpecs : pins' \in {Looked(session), Pinned(Looked(session), session, spec)}
        BY <1>2
  <1>5. /\ PinMap(pins') /\ Len(pins') <= MaxPins
        /\ \A i \in DOMAIN pins :
              \/ Cardinality({j \in DOMAIN pins : pins[j].lastUsedAt >= pins[i].lastUsedAt}) > MaxPins - 1
              \/ routeNow - pins[i].lastUsedAt > PinTtl
              \/ \E j \in DOMAIN pins' : pins'[j].session = pins[i].session
        BY <1>1, <1>4, PinsAreKept
  <1>6. route'.walk = walk /\ route'.pinned = pin /\ route'.pinLive = Holds(pin) /\ route'.size = size
        BY <1>2
  <1>7. RouteTypes'
        BY <1>1, <1>2 DEF RouteTypes
  <1>8. RouteInv'
        BY <1>5, <1>7 DEF RouteInv, PinMap
  <1>9. NothingIsDropped
    <2>1. IsInjective(walk)
          BY <1>3 DEF IsInjective
    <2>2. ToSet(walk) = WalkCells(size)
          BY <1>3 DEF ToSet
    <2>3. {SpecOf(c) : c \in WalkCells(size)} = {s \in PoolSpecs : Fits(s, size)}
      <3>1. ASSUME NEW c \in WalkCells(size) PROVE SpecOf(c) \in PoolSpecs /\ Fits(SpecOf(c), size)
        <4>1. PICK s \in PoolSpecs : Fits(s, size) /\ c \in Usable(s)
              BY DEF WalkCells
        <4>2. c \in CellsOf(s)
              BY <4>1, UsableCells
        <4>3. SpecOf(c) = s
              BY <4>2, CellShape
        <4> QED BY <4>1, <4>3
      <3>2. ASSUME NEW s \in PoolSpecs, Fits(s, size) PROVE \E c \in WalkCells(size) : SpecOf(c) = s
        <4>1. PICK c \in Usable(s) : c \in CellsOf(s)
              BY UsableCells
        <4>2. SpecOf(c) = s
              BY <4>1, CellShape
        <4>3. c \in WalkCells(size)
              BY <3>2, <4>1 DEF WalkCells
        <4> QED BY <4>2, <4>3
      <3> QED BY <3>1, <3>2
    <2>4. ASSUME NEW c \in RouteCells, Fits(SpecOf(c), size), condition[c] # "barred" PROVE c \in WalkCells(size)
      <3>1. SpecOf(c) \in PoolSpecs /\ c \in CellsOf(SpecOf(c))
            BY FleetShape
      <3>2. c \in Usable(SpecOf(c))
            BY <2>4, <3>1, UsableCells
      <3> QED BY <2>4, <3>1, <3>2 DEF WalkCells
    <2> QED BY <1>6, <2>1, <2>2, <2>3, <2>4 DEF NothingIsDropped
  <1>10. SessionsKeepTheirPlace
        BY <1>3, <1>5, <1>6 DEF SessionsKeepTheirPlace
  <1>11. SpentHeadGivesWay
    <2>1. SUFFICES ASSUME NEW s \in PoolSpecs, QuotaSpent(HeadOf(s)), ~Cooling(HeadOf(s)), coolUntil'[HeadOf(s)] # 0,
                          NEW c \in CellsOf(s), condition[c] = "fine", ~Cooling(c), coolUntil'[c] = coolUntil[c],
                          HeadOf(s)' = HeadOf(s)
                   PROVE  FALSE
          BY DEF SpentHeadGivesWay
    <2>2. PICK head \in CellsOf(s) : head = HeadOf(s) /\ head \in RouteCells /\ c \in RouteCells
          BY <1>1, RankedLists, CellShape
    <2> DEFINE U == Usable(s)'
               key == [d \in U |-> RankKey(d)']
    <2> HIDE DEF U, key
    <2>3. coolUntil'[head] > routeNow
      <3>1. QuotaCooled[head] > routeNow /\ QuotaCooled[head] \in Nat
            BY <1>1, <2>1, <2>2, OrderingCools
      <3>2. coolUntil'[head] >= QuotaCooled[head] /\ coolUntil'[head] \in Nat
            BY <1>2, <2>1, <2>2
      <3> QED BY <1>1, <3>1, <3>2
    <2>4. U \in SUBSET CellsOf(s) /\ c \in U
      <3>1. U = LET open == {d \in CellsOf(s) : condition[d] # "barred"} IN IF open = {} THEN CellsOf(s) ELSE open
            BY <1>2 DEF U, Usable
      <3> QED BY <2>1, <3>1
    <2>5. key \in [U -> [1..4 -> Int]]
      <3>1. ASSUME NEW d \in U PROVE RankKey(d)' \in [1..4 -> Int]
        <4>1. DemotionBand(d)' \in Int /\ HeadroomBand(d)' \in Int
              BY DEF DemotionBand, HeadroomBand
        <4>2. CredOf(d) \in Credentials /\ SlotIndex(d) \in Int
              BY <2>4, CellShape
        <4>3. lru'[CredOf(d)] \in Int
              BY <1>2, <4>2
        <4> QED BY <4>1, <4>2, <4>3 DEF RankKey
      <3> QED BY <3>1 DEF key
    <2>6. \A d \in U : key[d][4] = SlotIndex(d) /\ key[d][1] = DemotionBand(d)'
          BY DEF key, RankKey
    <2>7. InOrder(key)[1] \in U /\ \A d \in U : d # InOrder(key)[1] => Before(key[InOrder(key)[1]], key[d])
          BY <2>4, <2>5, <2>6, RankingKeys
    <2>8. HeadOf(s)' = InOrder(key)[1]
          BY DEF HeadOf, Ranked, key, U
    <2>9. head = InOrder(key)[1]
          BY <2>1, <2>2, <2>8
    <2>10. key[head][1] = 4
      <3>1. DemotionBand(head)' = 4
            BY <1>1, <1>2, <2>2, <2>3 DEF DemotionBand, Cooling
      <3> QED BY <2>6, <2>7, <2>9, <3>1
    <2>11. key[c][1] = 0
      <3>1. DemotionBand(c)' = 0
            BY <1>2, <2>1 DEF DemotionBand, Cooling
      <3> QED BY <2>4, <2>6, <3>1
    <2>12. Before(key[head], key[c])
          BY <2>4, <2>7, <2>9, <2>10, <2>11
    <2>13. key[head] \in [1..4 -> Int] /\ key[c] \in [1..4 -> Int]
          BY <2>4, <2>5, <2>7, <2>9
    <2>14. PICK i \in 1..4 : key[head][i] < key[c][i] /\ \A j \in 1..(i - 1) : key[head][j] = key[c][j]
          BY <2>12, <2>13 DEF Before
    <2> QED BY <2>10, <2>11, <2>14
  <1> QED BY <1>8, <1>9, <1>10, <1>11

\* Whatever the evidence, in every behaviour of the router: the walk a request is given names every deployment
\* that its prompt fits, no credential twice; a session keeps its deployment while its pin is used and not
\* crowded out; and a deployment ranks another credential first once one it was judged by is spent
\* (orderDeploymentGroupsByUsability, applyStickyOrdering, StickySessionManager).
THEOREM RoutingHolds == RouteSpec => RoutingOnlyOrders
  <1> DEFINE Promised == NothingIsDropped /\ SessionsKeepTheirPlace /\ SpentHeadGivesWay
  <1>1. RouteInit => RouteInv
        BY RouteStarts
  <1>2. ASSUME RouteInv, [RouteNext]_routeVars PROVE RouteInv' /\ [Promised]_routeVars
    <2>1. CASE RouteTick
      <3>1. route' = route /\ pins' = pins
            BY <2>1 DEF RouteTick
      <3>2. RouteTypes'
            BY <1>2, <2>1 DEF RouteTick, RouteInv, RouteTypes
      <3>3. RouteInv'
            BY <1>2, <3>1, <3>2 DEF RouteInv, PinMap
      <3>4. Promised
            BY <3>1 DEF NothingIsDropped, SessionsKeepTheirPlace, SpentHeadGivesWay
      <3> QED BY <3>3, <3>4
    <2>2. CASE EvidenceChanges
      <3>1. route' = route /\ pins' = pins
            BY <2>2 DEF EvidenceChanges
      <3>2. RouteTypes'
            BY <1>2, <2>2 DEF EvidenceChanges, RouteInv, RouteTypes
      <3>3. RouteInv'
            BY <1>2, <3>1, <3>2 DEF RouteInv, PinMap
      <3>4. Promised
            BY <3>1 DEF NothingIsDropped, SessionsKeepTheirPlace, SpentHeadGivesWay
      <3> QED BY <3>3, <3>4
    <2>3. CASE \E session \in RouteSessions, size \in PromptSizes : Route(session, size)
          BY <1>2, <2>3, RequestIsOrdered
    <2>4. CASE UNCHANGED routeVars
      <3>1. RouteTypes'
            BY <1>2, <2>4 DEF routeVars, RouteInv, RouteTypes
      <3>2. RouteInv'
            BY <1>2, <2>4, <3>1 DEF routeVars, RouteInv, PinMap
      <3> QED BY <2>4, <3>2
    <2> QED BY <1>2, <2>1, <2>2, <2>3, <2>4 DEF RouteNext
  <1> HIDE DEF Promised
  <1>3. RouteSpec => [][Promised]_routeVars
        BY <1>1, <1>2, PTL DEF RouteSpec
  <1> QED BY <1>3 DEF RoutingOnlyOrders, Promised
=============================================================================
