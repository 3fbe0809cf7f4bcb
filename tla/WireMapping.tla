---------------------------- MODULE WireMapping ----------------------------
(***************************************************************************)
(* A conversation carried between two wires.  A client of one front        *)
(* (Anthropic Messages or OpenAI Responses) is answered by a provider that *)
(* speaks another (OpenAI Chat or Responses): the relay maps every request *)
(* it receives from nothing but that request's body, and every answer from *)
(* nothing but that answer and the request, and the client replays what it *)
(* was given on the next turn.                                             *)
(*                                                                         *)
(* Texts, images, documents and reasoning are numbers, given out as they   *)
(* are first written.  A tool call's id is a name and the number of the    *)
(* relay's own suffix.                                                     *)
(***************************************************************************)
EXTENDS Naturals, FiniteSets, Sequences, SequencesExt, Folds

CONSTANTS
    NativeCalls,   \* the calls of one upstream answer: sequences of ids, "" where it gave none
    UserParts,     \* what one message of the user holds: sequences of part kinds
    ResultKinds,   \* what a tool result holds
    MaxSaid        \* bound: the payloads of a conversation

VARIABLES
    wire,      \* the front, the target's wire and its compatibility modes
    history,   \* what the client holds: turns (Messages) or input items (Responses)
    said,      \* payloads given out so far
    ended,     \* how the client was told the last answer ended
    unthought  \* whether some call came without reasoning

mappingVars == <<wire, history, said, ended, unthought>>

Fronts == {"messages", "responses"}
Targets == {"chat", "responses"}
Modes == {"plain", "strict9", "deepseek"}

Item(role, content) == [role |-> role, content |-> content]
Block(type, id, what) == [type |-> type, id |-> id, what |-> what]
NoId == <<"", 0>>
Part(kind, n) == Block(kind, NoId, n)
OfType(blocks, types) == SelectSeq(blocks, LAMBDA b : b.type \in types)
Payloads(blocks) == [i \in DOMAIN blocks |-> blocks[i].what]

-----------------------------------------------------------------------------
(* Responses input items to Anthropic turns.                               *)

\* Consecutive blocks of one role make one turn. Tool results of a user turn,
\* and reasoning of an assistant turn, lead it.
NoTurn == [turns |-> <<>>, role |-> "none", leading |-> <<>>, trailing |-> <<>>]
FlushTurn(t) ==
    IF t.role = "none" THEN t
    ELSE [NoTurn EXCEPT !.turns = Append(t.turns, Item(t.role, t.leading \o t.trailing))]

PushBlocks(t, role, blocks, first) ==
    IF blocks = <<>> THEN t
    ELSE LET u == IF t.role = role THEN t ELSE [FlushTurn(t) EXCEPT !.role = role]
         IN IF first THEN [u EXCEPT !.leading = @ \o blocks] ELSE [u EXCEPT !.trailing = @ \o blocks]

\* An empty text part is no block.
ContentBlocks(blocks) == SelectSeq(blocks, LAMBDA b : ~(b.type = "text" /\ b.what = 0))

PushItem(t, item, reasoning) ==
    CASE item.role = "call" -> PushBlocks(t, "assistant", item.content, FALSE)
      [] item.role = "output" -> PushBlocks(t, "user", item.content, TRUE)
      [] item.role = "reasoning" -> IF reasoning THEN PushBlocks(t, "assistant", item.content, TRUE) ELSE t
      [] item.role = "developer" -> t
      [] OTHER -> PushBlocks(t, item.role, ContentBlocks(item.content), FALSE)

\* What the rest of the relay works on: the body of a Messages request.
SystemText(items) == FlattenSeq([i \in DOMAIN items |->
                        IF items[i].role = "developer" THEN Payloads(items[i].content) ELSE <<>>])
TurnsOf(items, w) ==
    IF w.front = "messages" THEN items
    ELSE FlushTurn(FoldLeft(LAMBDA t, item : PushItem(t, item, w.mode = "deepseek"), NoTurn, items)).turns

\* What neither form can carry refuses the request: arguments cut short, and a
\* document in a tool's result of a Responses request.
Unmappable(items, w) ==
    \E i \in DOMAIN items : \E b \in ToSet(items[i].content) :
        \/ w.front = "responses" /\ b.type = "tool_use" /\ b.what = "cut"
        \/ w.front = "responses" /\ b.type = "tool_result" /\ b.what[1] = "document"
        \/ b.type \in {"tool_use", "tool_result"} /\ b.id = NoId

-----------------------------------------------------------------------------
(* Ids a target can take.                                                  *)

CONSTANTS Strict9,   \* the ids of nine letters and digits
          Digest(_, _)   \* the digest of an id and a salt, such an id

NoIds == [ids |-> <<>>, taken |-> {}]
MappedId(m, id) == (CHOOSE p \in ToSet(m.ids) : p[1] = id)[2]
MapId(m, id) ==
    IF \E p \in ToSet(m.ids) : p[1] = id THEN m
    ELSE LET salt == CHOOSE k \in 0..Cardinality(m.taken) :
                         /\ Digest(id, k) \notin m.taken
                         /\ \A j \in 0..(k - 1) : Digest(id, j) \in m.taken
             out == IF id \in Strict9 /\ id \notin m.taken THEN id ELSE Digest(id, salt)
         IN [ids |-> Append(m.ids, <<id, out>>), taken |-> m.taken \cup {out}]

\* Faulty: the newest turns choose their ids first.
IdsNewestFirst(turns) == FlattenSeq(Reverse([i \in DOMAIN turns |->
    [j \in DOMAIN OfType(turns[i].content, {"tool_use", "tool_result"}) |->
        OfType(turns[i].content, {"tool_use", "tool_result"})[j].id]]))
\* The ids of a request in the order its mapping meets them: calls as they stand
\* in an assistant turn, results as they stand in a user turn.
IdsMet(turns) == FlattenSeq([i \in DOMAIN turns |->
    [j \in DOMAIN OfType(turns[i].content, {"tool_use", "tool_result"}) |->
        OfType(turns[i].content, {"tool_use", "tool_result"})[j].id]])
IdMap(turns) == FoldLeft(MapId, NoIds, IdsMet(turns))
IdFor(map, w, id) == IF w.mode = "strict9" THEN MappedId(map, id) ELSE id

-----------------------------------------------------------------------------
(* A Messages request to OpenAI Chat, and to OpenAI Responses.             *)

Message(role, content) == [role |-> role, content |-> content, calls |-> <<>>, id |-> NoId, reasoning |-> <<>>]

\* A document was turned into text before the mapping sees it.
PartsOf(b) == IF b.type = "tool_result"
              THEN IF b.what[1] = "image" THEN <<b.what[2]>> ELSE <<>>
              ELSE <<b.what>>
ResultText(b) == IF b.what[1] = "image" THEN <<>> ELSE <<b.what[2]>>

AssistantMessage(turn, map, w) ==
    LET calls == OfType(turn.content, {"tool_use"})
    IN [Message("assistant", Payloads(ContentBlocks(OfType(turn.content, {"text"})))) EXCEPT
           !.calls = [i \in DOMAIN calls |-> <<IdFor(map, w, calls[i].id), calls[i].what>>],
           !.reasoning = IF w.mode = "deepseek" THEN Payloads(OfType(turn.content, {"thinking"})) ELSE <<>>]
ToolMessages(turn, map, w) ==
    LET results == OfType(turn.content, {"tool_result"})
    IN [i \in DOMAIN results |-> [Message("tool", ResultText(results[i])) EXCEPT !.id = IdFor(map, w, results[i].id)]]
\* Images of the results go with what the user said, where they stood.
UserMessages(turn, map, w) ==
    LET tools == ToolMessages(turn, map, w)
        parts == FlattenSeq([i \in DOMAIN turn.content |-> PartsOf(turn.content[i])])
        left == SelectSeq(turn.content, LAMBDA b : b.type # "tool_result" \/ PartsOf(b) # <<>>)
    IN IF left = <<>> /\ tools # <<>> THEN tools
       ELSE Append(tools, Message("user", SelectSeq(parts, LAMBDA p : p # 0)))

ChatMessages(turns, w) ==
    LET map == IdMap(turns)
    IN FlattenSeq([i \in DOMAIN turns |->
           IF turns[i].role = "assistant" THEN <<AssistantMessage(turns[i], map, w)>>
           ELSE UserMessages(turns[i], map, w)])

\* A Responses request: one item a block, the images of the results before the
\* rest of the user's turn, nothing for an empty text.
AssistantItems(turn, map, w) ==
    FlattenSeq([i \in DOMAIN turn.content |->
        LET b == turn.content[i]
        IN CASE b.type = "tool_use" -> <<[Message("call", <<>>) EXCEPT !.calls = <<<<IdFor(map, w, b.id), b.what>>>>]>>
             [] b.type = "text" /\ b.what # 0 -> <<Message("assistant", <<b.what>>)>>
             [] OTHER -> <<>>])
UserItems(turn, map, w) ==
    LET images == FlattenSeq([i \in DOMAIN turn.content |->
                      IF turn.content[i].type = "tool_result" THEN PartsOf(turn.content[i]) ELSE <<>>])
        parts == Payloads(ContentBlocks(OfType(turn.content, {"text", "image", "document"})))
    IN ToolMessages(turn, map, w)
       \o (IF images = <<>> THEN <<>> ELSE <<Message("user", images)>>)
       \o (IF parts = <<>> THEN <<>> ELSE <<Message("user", parts)>>)
ResponsesItems(turns, w) ==
    LET map == IdMap(turns)
    IN FlattenSeq([i \in DOMAIN turns |->
           IF turns[i].role = "assistant" THEN AssistantItems(turns[i], map, w) ELSE UserItems(turns[i], map, w)])

Outbound(items, w) == IF w.target = "chat" THEN ChatMessages(TurnsOf(items, w), w)
                      ELSE ResponsesItems(TurnsOf(items, w), w)

\* The operator's thinking stands unless a replayed call has no reasoning with it.
Unreplayable(messages) == \E m \in ToSet(messages) :
                              m.role = "assistant" /\ m.calls # <<>> /\ m.reasoning = <<>>

-----------------------------------------------------------------------------
(* An upstream answer to an Anthropic message, and to the front's form.    *)

\* An id the upstream left out is made up, the same way every time.
GivenId(target, calls, i) ==
    IF calls[i] # NoId THEN calls[i]
    ELSE IF target = "chat" THEN <<"tu", 0>> ELSE <<ToString(i), 0>>
AnswerCalls(up, target) ==
    IF up.calls # <<>> THEN [i \in DOMAIN up.calls |-> Block("tool_use", GivenId(target, up.calls, i), up.args)]
    ELSE IF up.text = "call" THEN <<Block("tool_use", <<"recovered", 0>>, "whole")>>
    ELSE <<>>
StopReason(up, target) ==
    IF AnswerCalls(up, target) # <<>> THEN "tool_use"
    ELSE IF up.finish = "length" THEN "max_tokens" ELSE "end_turn"
AnswerBlocks(up, w, n) ==
    (IF up.thinks /\ w.mode = "deepseek" THEN <<Part("thinking", n)>> ELSE <<>>)
    \o (IF up.text = "prose" \/ (up.text = "call" /\ up.calls # <<>>) THEN <<Part("text", n + 1)>> ELSE <<>>)
    \o AnswerCalls(up, w.target)

\* Ids the request already used, and the answer's own, are not used again.
KnownIds(turns) == ToSet(IdsMet(turns))
UniqueId(id, taken) == CHOOSE new \in {<<id[1], k>> : k \in 0..Cardinality(taken)} :
                           /\ new \notin taken
                           /\ \A k \in 0..(new[2] - 1) : <<id[1], k>> \in taken
MintIds(blocks, known) ==
    FoldLeft(LAMBDA m, b : IF b.type # "tool_use" THEN [m EXCEPT !.out = Append(@, b)]
                           ELSE LET id == UniqueId(b.id, m.taken)
                                IN [out |-> Append(m.out, [b EXCEPT !.id = id]), taken |-> m.taken \cup {id}],
             [out |-> <<>>, taken |-> known], blocks).out

\* What the client appends: the message as it is, or the items it is written as.
Replayed(blocks, w) ==
    IF w.front = "messages" THEN <<Item("assistant", blocks)>>
    ELSE LET texts == OfType(blocks, {"text"})
             thinking == OfType(blocks, {"thinking"})
             calls == OfType(blocks, {"tool_use"})
         IN (IF thinking = <<>> \/ w.mode # "deepseek" THEN <<>> ELSE <<Item("reasoning", thinking)>>)
            \o (IF texts = <<>> THEN <<>> ELSE <<Item("assistant", texts)>>)
            \o [i \in DOMAIN calls |-> Item("call", <<calls[i]>>)]
EndedAs(up, w) ==
    IF w.front = "messages" THEN StopReason(up, w.target)
    ELSE IF StopReason(up, w.target) = "max_tokens" THEN "incomplete" ELSE "completed"

-----------------------------------------------------------------------------
(* The client and the upstream.                                            *)

Calls(items) == FlattenSeq([i \in DOMAIN items |-> OfType(items[i].content, {"tool_use"})])
Results(items) == FlattenSeq([i \in DOMAIN items |-> OfType(items[i].content, {"tool_result"})])
Pending(items) == {b.id : b \in ToSet(Calls(items))} \ {b.id : b \in ToSet(Results(items))}
UserSpoke == history # <<>> /\ Last(history).role \in {"user", "output"}
Sendable == UserSpoke /\ Pending(history) = {}

MappingInit == /\ wire \in [front : Fronts, target : Targets, mode : Modes]
               /\ wire.mode = "deepseek" => wire.target = "chat"
               /\ history = <<>> /\ said = 0 /\ ended = "none" /\ unthought = "no"

\* A Messages client writes into the turn it has open.
Added(role, blocks) ==
    IF wire.front = "messages" /\ history # <<>> /\ Last(history).role = "user"
    THEN [history EXCEPT ![Len(history)].content = @ \o blocks]
    ELSE Append(history, Item(IF wire.front = "messages" THEN "user" ELSE role, blocks))

Asks(kinds) == /\ said + Len(kinds) <= MaxSaid
               /\ ~(history # <<>> /\ Last(history).role = "user" /\ Pending(history) = {})
               /\ history' = Added("user", [i \in DOMAIN kinds |->
                                  IF kinds[i] = "empty" THEN Part("text", 0) ELSE Part(kinds[i], said + i)])
               /\ said' = said + Len(kinds)
               /\ UNCHANGED <<wire, ended, unthought>>
\* Where it could come between a call and its result.
Instructs == /\ wire.front = "responses" /\ said < MaxSaid
             /\ history # <<>> /\ Last(history).role = "call"
             /\ history' = Append(history, Item("developer", <<Part("text", said + 1)>>))
             /\ said' = said + 1
             /\ UNCHANGED <<wire, ended, unthought>>
Returns(id, kind) == /\ id \in Pending(history) /\ said < MaxSaid
                     /\ history' = Added("output", <<Block("tool_result", id, <<kind, said + 1>>)>>)
                     /\ said' = said + 1
                     /\ UNCHANGED <<wire, ended, unthought>>

Upstream == [thinks : BOOLEAN, text : {"none", "prose", "call"}, calls : NativeCalls,
             args : {"whole", "cut"}, finish : {"stop", "length"}]
\* Arguments are cut only by the cap; there is nothing to cut without a call.
\* Only a target whose reasoning is carried is asked for any.
Answers(up) ==
    /\ Sendable /\ ~Unmappable(history, wire) /\ said + 2 <= MaxSaid
    /\ up.args = "cut" => up.finish = "length" /\ up.calls # <<>>
    /\ up.text # "none" \/ up.calls # <<>>
    /\ up.thinks => wire.mode = "deepseek"
    /\ LET blocks == MintIds(AnswerBlocks(up, wire, said + 1), KnownIds(TurnsOf(history, wire)))
       IN history' = history \o Replayed(blocks, wire)
    /\ said' = said + 2
    /\ ended' = EndedAs(up, wire)
    /\ unthought' = IF AnswerCalls(up, wire.target) # <<>> /\ ~up.thinks THEN "yes" ELSE unthought
    /\ UNCHANGED wire

MappingNext == \/ \E kinds \in UserParts : Asks(kinds)
               \/ Instructs
               \/ \E id \in Pending(history), kind \in ResultKinds : Returns(id, kind)
               \/ \E up \in Upstream : Answers(up)

-----------------------------------------------------------------------------
(* What the mapping promises.                                              *)

\* The messages a Chat server takes: results directly after the message that
\* called for them, each call answered once, no id called twice.
WellPaired(messages) ==
    LET calls == FlattenSeq([i \in DOMAIN messages |-> messages[i].calls])
        results == SelectSeq(messages, LAMBDA m : m.role = "tool")
    IN /\ IsInjective([i \in DOMAIN calls |-> calls[i][1]])
       /\ {c[1] : c \in ToSet(calls)} = {m.id : m \in ToSet(results)}
       /\ Len(calls) = Len(results)
       /\ \A i \in DOMAIN messages : messages[i].role = "tool" =>
              \E j \in 1..(i - 1) : /\ \E c \in ToSet(messages[j].calls) : c[1] = messages[i].id
                                    /\ wire.target = "chat" => \A k \in (j + 1)..i : messages[k].role = "tool"

\* Everything that was said is passed on once, but for reasoning a target does not take.
SaidIn(items) ==
    UNION {UNION {IF b.type \in {"text", "image", "document"} THEN {b.what}
                  ELSE IF b.type = "tool_result" THEN {b.what[2]} ELSE {} : b \in ToSet(item.content)}
           : item \in ToSet(items)} \ {0}
PassedOn(messages) == FlattenSeq([i \in DOMAIN messages |-> messages[i].content])

\* A client that replays what the relay gave it, with its tools' results in any
\* order and its own words between them, always makes a request the target
\* takes: no id is met twice, every result stands with its call, nothing said is
\* lost or said twice, and a call that came with reasoning goes back with it.
ReplayedConversationsMap ==
    Sendable /\ ~Unmappable(history, wire) =>
        LET messages == Outbound(history, wire)
        IN /\ WellPaired(messages)
           /\ IsInjective(PassedOn(messages))
           /\ ToSet(PassedOn(messages)) \cup ToSet(SystemText(history)) = SaidIn(history)
           /\ wire.mode = "deepseek" /\ wire.target = "chat" /\ unthought = "no" => ~Unreplayable(messages)

\* What was sent stays as it was when the conversation goes on: the target's
\* prompt cache is keyed by it.
SentPrefixIsStable ==
    [][history' # history /\ Last(history').role \in {"assistant", "call"} =>
          IsPrefix(Outbound(history, wire), Outbound(history', wire))]_mappingVars

\* A conversation goes on as it was: what is replayed is taken, and what was sent stands.
ConversationsCarryOn == []ReplayedConversationsMap /\ SentPrefixIsStable

\* An answer whose call was cut short by the cap is not told as a finished one.
CappedCallIsIncomplete ==
    \A i \in DOMAIN history : \A b \in ToSet(history[i].content) :
        i = Len(history) /\ b.type = "tool_use" /\ b.what = "cut" => ended \notin {"completed", "end_turn"}
=============================================================================
