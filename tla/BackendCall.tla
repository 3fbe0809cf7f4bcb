---------------------------- MODULE BackendCall ----------------------------
(***************************************************************************)
(* One attempt of a request, from the translation of its body to the       *)
(* charge: what is sent to the provider, what is made of its answer, and   *)
(* whom the answer's failure is held against.  An attempt passes up to two *)
(* translations: the front's (a chat or responses request becomes a        *)
(* messages request) and the wire's (a messages request becomes a chat or  *)
(* responses request), and its answer passes them backwards.               *)
(*                                                                         *)
(* `fault` is a ghost: who really made the attempt fail first.             *)
(***************************************************************************)
EXTENDS Naturals, FiniteSets

VARIABLES
    call,       \* the request: its front, the target's wire, stream, tools, relay-added usage
    stage,      \* what the attempt does next
    signal,     \* "live", past its "deadline", or its client "gone"; aborted unless live
    posts,      \* requests sent to the provider
    leases,     \* breaker and accounting attempts begun
    charges,    \* completions of them, in order: provenance of each
    reply,      \* the answer the front was given
    recorded,   \* the outcome the credential walk was told
    walksOn,    \* whether another credential is tried next
    fault

callVars == <<call, stage, signal, posts, leases, charges, reply, recorded, walksOn, fault>>

CallFronts == {"messages", "chat", "responses"}
Wires == {"anthropic", "chat", "responses"}

\* fetchOpenAiFront's dispatch, fetchBackend's, and the target's kind.
Kind == IF call.wire = "anthropic" THEN "anthropic" ELSE "openai"
Direct == call.front = "chat" /\ call.wire = "chat"
FrontTranslates == call.front # "messages" /\ ~Direct
WireTranslates == Kind = "openai" /\ ~Direct
RelayWritesFrames == FrontTranslates \/ WireTranslates

Aborted == signal # "live"

NoReply == [status |-> 0, origin |-> "none", body |-> "none"]
Refusal(status, origin) == [status |-> status, origin |-> origin, body |-> "error"]

CallInit ==
    /\ call \in [front : CallFronts, wire : Wires, stream : BOOLEAN, tools : BOOLEAN,
                 asksUsage : BOOLEAN]
    /\ stage = "translate"
    /\ signal = "live"
    /\ posts = 0 /\ leases = 0 /\ charges = <<>>
    /\ reply = NoReply
    /\ recorded = "none" /\ walksOn = FALSE
    /\ fault = "none"

Blame(who) == fault' = IF fault = "none" THEN who ELSE fault
ReplyIs(r) == reply' = r /\ stage' = "answered"

-----------------------------------------------------------------------------
(* Before egress. A refusal here is the relay's own answer.                *)

BeforeEgress == UNCHANGED <<call, signal, posts, leases, charges, recorded, walksOn>>

RefusedBeforeEgress(status, who) == ReplyIs(Refusal(status, "local")) /\ Blame(who)

\* Any failure of the front's translation is a 400.
TranslateFront ==
    /\ stage = "translate"
    /\ BeforeEgress
    /\ \/ /\ stage' = IF WireTranslates THEN "documents" ELSE "send"
          /\ UNCHANGED <<reply, fault>>
       \/ FrontTranslates /\ RefusedBeforeEgress(400, "caller")

\* transcodeDocuments neither watches the signal nor is told of it.
TranscodeDocuments ==
    /\ stage = "documents"
    /\ BeforeEgress
    /\ \/ stage' = "map" /\ UNCHANGED <<reply, fault>>
       \/ RefusedBeforeEgress(400, "caller")
       \/ RefusedBeforeEgress(502, "relay")

Mapped(wire) ==
    /\ stage = "map" /\ call.wire = wire
    /\ BeforeEgress
    /\ \/ stage' = "send" /\ UNCHANGED <<reply, fault>>
       \/ RefusedBeforeEgress(400, "caller")
       \/ RefusedBeforeEgress(502, "relay")
MapToChat == Mapped("chat")
MapToResponses == Mapped("responses")

-----------------------------------------------------------------------------
(* Egress.                                                                 *)

\* oneShotFetch: only the first request, and only while the signal is live.
BeginsAttempt == leases = 0 /\ ~Aborted

\* The relay asks a streaming provider for usage when the caller did not.
RelayAddedUsage == /\ call.stream
                   /\ call.wire = "chat"
                   /\ Direct => ~call.asksUsage

\* A fetch whose signal is aborted rejects; a breaker that begins no attempt
\* makes the callback throw.
Send ==
    /\ stage = "send"
    /\ UNCHANGED <<call, signal, charges, reply, recorded, walksOn, fault>>
    /\ \/ /\ ~Aborted
          /\ leases' = IF BeginsAttempt THEN leases + 1 ELSE leases
          /\ posts' = posts + 1
          /\ stage' = "sent"
       \/ /\ Aborted \/ posts = 0
          /\ stage' = "rejected"
          /\ UNCHANGED <<posts, leases>>

TransportFails ==
    /\ stage = "sent"
    /\ stage' = "rejected"
    /\ IF Aborted THEN UNCHANGED fault ELSE Blame("upstream")
    /\ UNCHANGED <<call, signal, posts, leases, charges, reply, recorded, walksOn>>

\* A refusal of a request that carried the relay's stream_options is sent once
\* more without them.
RetriesWithout(status) == RelayAddedUsage /\ posts = 1 /\ status = 400

\* The statuses stand for the classes the front tells apart: the caller's, the
\* credential's, the deployment's.
ErrorStatus ==
    /\ stage = "sent" /\ ~Aborted
    /\ \E status \in {400, 429, 500} :
          IF RetriesWithout(status)
          THEN stage' = "send" /\ UNCHANGED <<reply, fault>>
          ELSE /\ Blame("upstream")
               /\ stage' = "errorBody"
               /\ reply' = Refusal(status, "upstream")
    /\ UNCHANGED <<call, signal, posts, leases, charges, recorded, walksOn>>

\* fetchOpenAiBackend, fetchTranslatedOpenAiFront and inspectCandidateResponse
\* read the body of an error before they act on it.
ReadErrorBody ==
    /\ stage = "errorBody"
    /\ stage' \in IF Aborted THEN {"bodyFailed"} ELSE {"answered", "bodyFailed"}
    /\ UNCHANGED <<call, signal, posts, leases, charges, reply, recorded, walksOn, fault>>

Succeeds ==
    /\ stage = "sent" /\ ~Aborted
    /\ stage' = IF call.stream THEN "preflight" ELSE "body"
    /\ UNCHANGED <<call, signal, posts, leases, charges, reply, recorded, walksOn, fault>>

-----------------------------------------------------------------------------
(* The answer's envelope.                                                  *)

InEnvelope == UNCHANGED <<call, signal, posts, leases, charges, recorded, walksOn>>

Delivered == [status |-> 200, origin |-> "none", body |-> IF call.stream THEN "stream" ELSE "buffered"]

\* preflightResponseStream: any failure to read is a failure of the provider.
PreflightFails ==
    /\ stage = "preflight"
    /\ IF Aborted THEN UNCHANGED fault ELSE Blame("upstream")
    /\ ReplyIs(Refusal(502, "upstream"))
    /\ InEnvelope

PreflightPasses ==
    /\ stage = "preflight" /\ ~Aborted
    /\ stage' = "mapBack"
    /\ UNCHANGED <<reply, fault>> /\ InEnvelope

BodyBreaks ==
    /\ stage = "body"
    /\ IF Aborted THEN UNCHANGED fault ELSE Blame("upstream")
    /\ stage' = "bodyFailed"
    /\ UNCHANGED reply /\ InEnvelope

BodyInvalid ==
    /\ stage = "body" /\ ~Aborted
    /\ ReplyIs(Refusal(502, "upstream")) /\ Blame("upstream")
    /\ InEnvelope

BodyValid ==
    /\ stage = "body" /\ ~Aborted
    /\ stage' = "mapBack"
    /\ UNCHANGED <<reply, fault>> /\ InEnvelope

\* The answer goes on to the front's translation, if there is one.
PassesOn == /\ IF FrontTranslates THEN stage' = "frontBack" /\ reply' = Delivered
               ELSE ReplyIs(Delivered)
            /\ UNCHANGED fault
MapperFails == ReplyIs(Refusal(502, "local")) /\ Blame("relay")

\* A buffered answer whose text holds a tool call of some dialect: one the relay
\* cannot parse is the provider's failure, a destructive one is the relay's refusal.
RecoversCall == /\ ~call.stream /\ call.tools
                /\ \/ ReplyIs(Refusal(502, "upstream")) /\ Blame("upstream")
                   \/ ReplyIs(Refusal(502, "local")) /\ Blame("relay")

AnthropicAnswer == /\ stage = "mapBack" /\ call.wire = "anthropic"
                   /\ PassesOn /\ InEnvelope
DirectAnswer == /\ stage = "mapBack" /\ Direct
                /\ PassesOn \/ RecoversCall
                /\ InEnvelope
ChatAnswer == /\ stage = "mapBack" /\ call.wire = "chat" /\ ~Direct
              /\ PassesOn \/ MapperFails \/ RecoversCall
              /\ InEnvelope
ResponsesAnswer == /\ stage = "mapBack" /\ call.wire = "responses"
                   /\ PassesOn \/ MapperFails \/ RecoversCall
                   /\ InEnvelope

\* Whatever the relay's own message does to the front's translation is the relay's
\* doing; the refusals above were passed on with their origin.
TranslateAnswer == /\ stage = "frontBack"
                   /\ \/ ReplyIs(Delivered) /\ UNCHANGED fault
                      \/ MapperFails
                   /\ InEnvelope

-----------------------------------------------------------------------------
(* What the front makes of it. A completion is charged to the breaker and  *)
(* the ledger; the first one counts.                                       *)

Complete_(provenance) == charges' = IF charges = <<>> THEN <<provenance>> ELSE charges
Settles(provenance, outcome) == /\ Complete_(provenance)
                                /\ recorded' = outcome
                                /\ stage' = "done"
AtFront == UNCHANGED <<call, signal, posts, leases, reply>>

\* A client that is gone cancels, a signal that was aborted is a deadline.
Charged(otherwise) == IF signal = "gone" THEN "client-cancellation"
                      ELSE IF Aborted THEN "deadline"
                      ELSE otherwise
OutcomeOf(provenance, otherwise) == CASE provenance = "client-cancellation" -> "cancelled"
                                      [] provenance = "deadline" -> "timeout"
                                      [] OTHER -> otherwise

\* An attempt that never began is answered by the relay, and nothing is charged.
NeverBegan ==
    /\ leases = 0
    /\ stage \in {"rejected", "answered"}
    /\ stage' = "done" /\ recorded' = "rejected"
    /\ UNCHANGED <<charges, walksOn, fault>> /\ AtFront

\* endWalk: another credential, if there is one and the client waits.
MayWalkOn == walksOn' \in {FALSE, signal # "gone"}

TransportFailed ==
    /\ stage = "rejected" /\ leases = 1
    /\ Settles(Charged("upstream"), OutcomeOf(Charged("upstream"), "provider-transport"))
    /\ MayWalkOn
    /\ UNCHANGED fault /\ AtFront

BodyFailed ==
    /\ stage = "bodyFailed"
    /\ LET p == Charged("invalid-upstream-envelope")
       IN Settles(p, OutcomeOf(p, "protocol"))
    /\ MayWalkOn
    /\ UNCHANGED fault /\ AtFront

\* Faulty: any answer of an error status is tried elsewhere.
TryAnything(r) == TRUE
\* The relay's own refusal is final, and so is the caller's own error.
ShouldTryNext(r) == r.origin # "local" /\ r.status # 400

HttpProvenance == IF reply.origin = "local" THEN "relay-mapper-defect" ELSE "upstream"
StatusOutcome == CASE reply.origin = "local" -> "local"
                   [] reply.status = 400 -> "client"
                   [] reply.status = 429 -> "credential"
                   [] OTHER -> "deployment"

\* The messages front finds its client gone before it completes the attempt;
\* the other fronts complete first.
RespondStatus ==
    /\ stage = "answered" /\ leases = 1 /\ reply.status # 200
    /\ MayWalkOn /\ (walksOn' => ShouldTryNext(reply))
    /\ Settles(IF call.front = "messages" /\ signal = "gone" THEN "client-cancellation"
               ELSE HttpProvenance, StatusOutcome)
    /\ UNCHANGED fault /\ AtFront

-----------------------------------------------------------------------------
(* A stream, until its first meaningful event and after it.                *)

\* relayAuthoredResponse: it is asked for the target's kind, not its wire.
MalformedProvenance ==
    IF \/ Kind = "anthropic" /\ call.front = "messages"
       \/ Kind = "openai" /\ call.front = "chat"
    THEN "upstream" ELSE "local"

Dies(provenance, who) ==
    LET p == Charged(IF provenance = "local" THEN "relay-mapper-defect"
                     ELSE "invalid-upstream-envelope")
    IN /\ Settles(p, OutcomeOf(p, IF provenance = "local" THEN "local" ELSE "protocol"))
       /\ MayWalkOn /\ (walksOn' => provenance = "upstream")
       /\ IF Aborted THEN UNCHANGED fault ELSE Blame(who)

\* probeStreamForCommit: an error frame, an end or a broken read before any
\* content is the provider's; a frame that is not an event is its author's; the
\* relay's own refusal of a recovered call is told by the signal beside the stream.
ProbeDies ==
    /\ stage = "answered" /\ reply.body = "stream"
    /\ \/ Dies("upstream", "upstream")
       \/ ~Aborted /\ Dies(MalformedProvenance, IF RelayWritesFrames THEN "relay" ELSE "upstream")
       \/ ~Aborted /\ call.tools /\ Kind = "openai" /\ Dies("local", "relay")
    /\ AtFront

ProbeReady ==
    /\ stage = "answered" /\ reply.body = "stream" /\ ~Aborted
    /\ stage' = "streaming" /\ recorded' = "success"
    /\ UNCHANGED <<charges, walksOn, fault>> /\ AtFront

\* handleMidStreamError.
Breaks == Complete_(Charged("upstream"))

\* An answer whose delivery ended normally. Only the OpenAI fronts then look at
\* the signal.
EndsNormally == Complete_(IF signal = "gone" THEN "client-cancellation"
                          ELSE IF Aborted /\ call.front # "messages" THEN "deadline"
                          ELSE "success")

\* A translated stream ends normally whatever ended the provider's: the
\* translation turns a failed read into an error frame.
StreamEnds ==
    /\ stage = "streaming"
    /\ stage' = "done"
    /\ \/ /\ ~Aborted
          /\ Complete_("success")
          /\ UNCHANGED fault
       \/ /\ IF RelayWritesFrames THEN EndsNormally ELSE Breaks
          /\ IF Aborted THEN UNCHANGED fault ELSE Blame("upstream")
       \/ /\ call.front = "messages" /\ call.tools /\ ~Aborted \* transparentPath validates
          /\ Complete_("invalid-upstream-envelope") /\ Blame("upstream")
    /\ UNCHANGED <<recorded, walksOn>> /\ AtFront

RespondBuffered ==
    /\ stage = "answered" /\ leases = 1 /\ reply.body = "buffered"
    /\ stage' = "done" /\ recorded' = "success"
    /\ \/ EndsNormally /\ UNCHANGED fault
       \/ /\ call.front = "messages" /\ call.tools /\ signal # "gone"
          /\ Complete_("invalid-upstream-envelope") /\ Blame("upstream")
    /\ UNCHANGED walksOn /\ AtFront

-----------------------------------------------------------------------------
\* The first-byte deadline, or a watchdog's.
DeadlinePasses == /\ signal = "live" /\ stage # "done"
                  /\ signal' = "deadline"
                  /\ UNCHANGED <<call, stage, posts, leases, charges, reply, recorded, walksOn, fault>>
ClientGoes == /\ signal # "gone" /\ stage # "done"
              /\ signal' = "gone"
              /\ UNCHANGED <<call, stage, posts, leases, charges, reply, recorded, walksOn, fault>>

CallNext == \/ TranslateFront \/ TranscodeDocuments \/ MapToChat \/ MapToResponses
            \/ Send \/ TransportFails \/ ErrorStatus \/ ReadErrorBody \/ Succeeds
            \/ PreflightFails \/ PreflightPasses \/ BodyBreaks \/ BodyInvalid \/ BodyValid
            \/ AnthropicAnswer \/ DirectAnswer \/ ChatAnswer \/ ResponsesAnswer
            \/ TranslateAnswer \/ NeverBegan \/ TransportFailed \/ BodyFailed \/ RespondStatus
            \/ ProbeDies \/ ProbeReady \/ StreamEnds \/ RespondBuffered
            \/ DeadlinePasses \/ ClientGoes
CallSpec == CallInit /\ [][CallNext]_callVars

-----------------------------------------------------------------------------
(* Properties.                                                             *)

\* However often a body is sent, translated and refused, one attempt begins at
\* most one lease, and only with a request that is really sent; what began is
\* charged once, what did not begin never.
OneLeaseOneCharge ==
    /\ leases <= 1 /\ (leases = 1 => posts > 0)
    /\ charges # <<>> => leases = 1
    /\ stage = "done" /\ leases = 1 => charges # <<>>

\* Where the relay itself put down whose fault a frame was: the frames of a
\* Responses provider are translated for the chat front too.
Misattributed == call.front = "chat" /\ call.wire = "responses"

\* The translations an answer passes hide neither the provider's failures nor
\* the relay's own: a failure of the provider is never called a defect of the
\* relay, and the relay's is neither held against the provider nor a reason to
\* try the next one, as long as the client waits and the deadline has not passed.
ChargeNamesTheAuthor ==
    stage = "done" /\ signal = "live" /\ charges # <<>> =>
        /\ fault = "none" => charges[1] = "success"
        /\ fault = "upstream" => charges[1] \in {"upstream", "invalid-upstream-envelope"}
                                    \cup (IF RelayWritesFrames THEN {"success"} ELSE {})
        /\ fault = "relay" /\ ~Misattributed => charges[1] = "relay-mapper-defect" /\ ~walksOn
        /\ fault # "caller"

\* A call is charged once, and to the side whose doing it was.
CallIsChargedOnce == OneLeaseOneCharge /\ ChargeNamesTheAuthor

\* "A post-header client disconnect is cancellation, not provider failure": an
\* attempt that failed only because its client went away is never charged to
\* the provider.
DepartureIsNoFailure ==
    stage = "done" /\ signal = "gone" /\ fault = "none" /\ charges # <<>> =>
        charges[1] \in {"client-cancellation", "success"}

\* stream-commit.ts: bytes the relay wrote are the relay's, so a frame of its
\* own that is no event is not a reason to charge the provider.
RelayOwnsItsFrames ==
    stage = "done" /\ signal = "live" /\ fault = "relay" /\ charges # <<>> =>
        charges[1] = "relay-mapper-defect"
=============================================================================
