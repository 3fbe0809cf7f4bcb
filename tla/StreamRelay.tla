----------------------------- MODULE StreamRelay ----------------------------
(***************************************************************************)
(* A streamed turn of an OpenAI Responses backend on its way to an         *)
(* Anthropic client: the translation of its events (backend.ts), the       *)
(* removal of one leading think span (think-tags.ts), the recovery of      *)
(* tool calls written as text (dialect-stream.ts), fresh tool ids          *)
(* (tool-use-ids.ts), the commit probe (stream-commit.ts), and the relay   *)
(* that holds a turn back from its first tool call on and repairs it       *)
(* (routes/messages.ts, repair.ts, emitSse.ts).                            *)
(*                                                                         *)
(* The stages are pipes with no decisions in common, each first-in         *)
(* first-out, so what one upstream event produces travels through all of   *)
(* them in one step.  Text is a sequence of tokens.                        *)
(***************************************************************************)
EXTENDS Integers, FiniteSets, Sequences, SequencesExt

CONSTANTS
    TextTokens,       \* the pieces a backend writes text in, a subset of the ones below
    MaxItems,         \* output items of a response
    MaxText,          \* bound: text tokens of a response
    LeadMax,          \* MAX_THINK_LEAD_BYTES, in tokens
    ThinkMax,         \* MAX_THINK_HELD_BYTES, in tokens
    ProbeMax,         \* STREAM_PREFLIGHT_LIMIT, in frames
    ValidateMax,      \* MAX_VALIDATE_BYTES, in frames
    SeenIds           \* tool-use ids of the conversation so far

ASSUME StreamAssumption == /\ MaxItems \in Nat \ {0} /\ MaxText \in Nat
                           /\ {LeadMax, ThinkMax, ProbeMax, ValidateMax} \subseteq Nat \ {0}

\* "part": text that may turn out to begin a marker.  "call", "torn", "danger": an envelope of a
\* tool call that parses, that does not, that names a destructive tool.
Envelopes == {"call", "torn", "danger"}
ASSUME TokenAssumption == TextTokens \subseteq ({"blank", "word", "open", "close", "part"} \cup Envelopes)

Items == 1..MaxItems
ItemKinds == {"message", "thought", "call-good", "call-bad", "call-danger"}
IsCall(kind) == kind \in {"call-good", "call-bad", "call-danger"}

VARIABLES
    upstream,    \* the backend's side of the response
    translator,  \* ResponsesStreamState
    think,       \* ThinkTagStripFilter and the block index beside it
    dialect,     \* the locals of recoverDialectInStream
    taken,       \* ToolUseIdMinter: ids given out or seen
    probe,       \* probeStreamForCommit: "hold", "ready", "dead", and the frames held
    relay,       \* the locals of repairStreamingPath
    sent,        \* frames the client was given
    turn         \* how the attempt ended

streamVars == <<upstream, translator, think, dialect, taken, probe, relay, sent, turn>>

Frame(type, block, value) == [type |-> type, block |-> block, value |-> value]
Text(block, text) == IF text = <<>> THEN <<>> ELSE <<Frame("text", block, text)>>
After(s, n) == SubSeq(s, n + 1, Len(s))

\* A stage takes a frame at a time and may hold, drop, add or change; Through passes a batch.
Through(Step(_, _), state, frames) ==
    FoldLeft(LAMBDA acc, f : LET r == Step(acc.state, f) IN [state |-> r.state, out |-> acc.out \o r.out],
             [state |-> state, out |-> <<>>], frames)

-----------------------------------------------------------------------------
(* Responses events to Anthropic frames.  An Emission is the translator's  *)
(* state with the frames pushed so far.                                    *)

NoBlock == -1
NewTranslator == [started |-> FALSE, stopped |-> FALSE, next |-> 0,
                  block |-> [i \in Items |-> NoBlock], open |-> <<>>]

Started(e) == IF e.state.started THEN e
              ELSE [state |-> [e.state EXCEPT !.started = TRUE], out |-> Append(e.out, Frame("start", 0, <<>>))]
Opened(e, item, what) ==
    IF e.state.block[item] # NoBlock THEN e
    ELSE [state |-> [e.state EXCEPT !.next = @ + 1, !.block[item] = e.state.next, !.open = Append(@, item)],
          out |-> Append(e.out, Frame("block", e.state.next, what))]
\* A delta of an item no block was opened for is dropped.
Delta(e, item, type, value) ==
    IF e.state.block[item] = NoBlock THEN e
    ELSE [e EXCEPT !.out = Append(@, Frame(type, e.state.block[item], value))]
ItemDone(e, item) ==
    IF item \notin ToSet(e.state.open) THEN e
    ELSE [state |-> [e.state EXCEPT !.open = SelectSeq(@, LAMBDA i : i # item)],
          out |-> Append(e.out, Frame("stop", e.state.block[item], <<>>))]

DeltaType(kind) == CASE kind = "message" -> "text" [] kind = "thought" -> "thinking" [] OTHER -> "args"
\* The tool block carries its id; the others say what they are.
BlockOf(item) == IF IsCall(item.kind) THEN <<"tool_use", item.id, item.kind>> ELSE <<item.kind>>

\* What the final event's response.output has and no event announced.
SynthesizeMissing(e, output) ==
    FoldLeft(LAMBDA acc, i :
                 IF acc.state.block[i] # NoBlock \/ (output[i].kind = "thought" /\ output[i].text = <<>>) THEN acc
                 ELSE LET opened == Opened(acc, i, BlockOf(output[i]))
                      IN IF output[i].text = <<>> THEN opened
                         ELSE Delta(opened, i, DeltaType(output[i].kind), output[i].text),
             e, [i \in DOMAIN output |-> i])

\* `response` is "none" when the stream just ended.
FinishTurn(e, response, output) ==
    IF e.state.stopped THEN e
    ELSE LET begun == Started([e EXCEPT !.state.stopped = TRUE])
             full == IF response = "none" THEN begun ELSE SynthesizeMissing(begun, output)
             closed == FoldLeft(LAMBDA acc, i : ItemDone(acc, i), full, full.state.open)
             hasTools == \E i \in DOMAIN output : IsCall(output[i].kind) /\ closed.state.block[i] # NoBlock
             reason == CASE hasTools -> "tool_use" [] ~hasTools /\ response = "incomplete" -> "max_tokens" [] OTHER -> "end_turn"
         IN [closed EXCEPT !.out = @ \o <<Frame("delta", 0, <<reason>>), Frame("end", 0, <<>>)>>]

FailTurn(e) == LET begun == Started(e)
               IN [state |-> [begun.state EXCEPT !.stopped = TRUE], out |-> Append(begun.out, Frame("error", 0, <<"upstream">>))]

-----------------------------------------------------------------------------
(* One leading think span is taken out; anything else is given back whole. *)

NewThink == [mode |-> "lead", held |-> <<>>, block |-> 0]
ReleaseHeld(t) == [state |-> [t EXCEPT !.mode = "pass", !.held = <<>>], text |-> t.held]
Hold(t) == [state |-> t, text |-> <<>>]
FirstAt(s, x) == SelectInSeq(s, LAMBDA y : y = x)      \* 0: nowhere

\* Inside: everything from the opening tag on is held until its closing tag.
InspectThink(t) ==
    LET body == After(t.held, FirstAt(t.held, "open"))
        nested == FirstAt(body, "open")
        close == FirstAt(body, "close")
        closeEnd == Len(t.held) - Len(body) + close
    IN CASE nested > 0 /\ (close = 0 \/ nested < close) -> ReleaseHeld(t)
         [] close > 0 /\ (nested = 0 \/ close < nested) ->
                IF closeEnd > ThinkMax THEN ReleaseHeld(t)
                ELSE [state |-> [t EXCEPT !.mode = "done", !.held = <<>>], text |-> After(t.held, closeEnd)]
         [] OTHER -> IF Len(t.held) > ThinkMax THEN ReleaseHeld(t) ELSE Hold(t)

DecideLead(t) ==
    LET first == SelectInSeq(t.held, LAMBDA y : y # "blank")
        undecided == first = 0 \/ (t.held[first] = "part" /\ first = Len(t.held))
    IN CASE undecided -> IF Len(t.held) > LeadMax THEN ReleaseHeld(t) ELSE Hold(t)
         [] ~undecided /\ t.held[first] = "open" ->
                IF first > LeadMax THEN ReleaseHeld(t) ELSE InspectThink([t EXCEPT !.mode = "inside"])
         [] OTHER -> ReleaseHeld(t)

FilterPush(t, text) ==
    LET fed == [t EXCEPT !.held = @ \o text]
    IN CASE t.mode \in {"pass", "done"} -> [state |-> t, text |-> text]
         [] t.mode = "lead" -> DecideLead(fed)
         [] t.mode = "inside" -> InspectThink(fed)
FilterFlush(t) == IF t.mode \in {"lead", "inside"} THEN ReleaseHeld(t) ELSE Hold(t)

ThinkFlush(t) == LET r == FilterFlush(t) IN [state |-> r.state, out |-> Text(t.block, r.text)]
ThinkStep(t, f) ==
    CASE f.type = "block" -> [state |-> [t EXCEPT !.block = f.block], out |-> <<f>>]
      [] f.type = "text" -> LET r == FilterPush(t, f.value) IN [state |-> r.state, out |-> Text(t.block, r.text)]
      [] f.type \in {"stop", "end"} -> LET r == ThinkFlush(t) IN [state |-> r.state, out |-> Append(r.out, f)]
      [] OTHER -> [state |-> t, out |-> <<f>>]

-----------------------------------------------------------------------------
(* A tool call written as text becomes a tool block.                       *)

NewDialect == [block |-> 0, text |-> <<>>, emitted |-> 0, capturing |-> FALSE, envelope |-> <<>>,
               finished |-> FALSE]

Recovered(envelope) ==
    CASE "danger" \in ToSet(envelope) -> "refused"
      [] "danger" \notin ToSet(envelope) /\ "call" \in ToSet(envelope) -> "parsed"
      [] OTHER -> "detected"

\* emitSseTail: the blocks from an index on, then the end of the turn.
SseTail(blocks, from) ==
    FlattenSeq([i \in DOMAIN blocks |->
                   <<Frame("block", from + i - 1, blocks[i].what)>>
                   \o <<Frame(blocks[i].type, from + i - 1, blocks[i].value), Frame("stop", from + i - 1, <<>>)>>])
    \o <<Frame("delta", 0, <<"tool_use">>), Frame("end", 0, <<>>)>>

RecoveredBlocks(envelope) ==
    LET prose == SelectSeq(envelope, LAMBDA x : x \notin Envelopes \cup {"open", "close"})
        calls == SelectSeq(envelope, LAMBDA x : x = "call")
    IN (IF \A x \in ToSet(prose) : x = "blank" THEN <<>>
        ELSE <<[what |-> <<"message">>, type |-> "text", value |-> prose]>>)
       \o [i \in DOMAIN calls |->
              [what |-> <<"tool_use", <<"tu_recovered", i - 1, 0>>, "call-good">>, type |-> "args", value |-> <<"good">>]]

\* Faulty: nothing remembers that the capture was already settled.
DialectFinishTwice(d) ==
    [state |-> [d EXCEPT !.emitted = Len(d.text)],
     out |-> CASE ~d.capturing -> Text(d.block, After(d.text, d.emitted))
               [] d.capturing /\ Recovered(d.envelope) = "parsed" ->
                      <<Frame("stop", d.block, <<>>)>> \o SseTail(RecoveredBlocks(d.envelope), d.block + 1)
               [] OTHER -> <<Frame("error", 0, <<"unparseable">>)>>]
DialectFinish(d) ==
    LET done == [d EXCEPT !.finished = TRUE]
    IN CASE d.finished -> [state |-> d, out |-> <<>>]
         [] ~d.finished /\ ~d.capturing ->
                [state |-> [done EXCEPT !.emitted = Len(d.text)], out |-> Text(d.block, After(d.text, d.emitted))]
         [] ~d.finished /\ d.capturing ->
                [state |-> done,
                 out |-> CASE Recovered(d.envelope) = "parsed" ->
                                 <<Frame("stop", d.block, <<>>)>> \o SseTail(RecoveredBlocks(d.envelope), d.block + 1)
                           [] Recovered(d.envelope) = "refused" -> <<Frame("error", 0, <<"refused">>)>>
                           [] OTHER -> <<Frame("error", 0, <<"unparseable">>)>>]

\* Text is let through up to the first envelope, or up to what may begin one.
DialectText(d, text) ==
    LET all == d.text \o text
        hit == SelectInSeq(all, LAMBDA x : x \in Envelopes)
        safe == CASE hit > 0 -> hit - 1
                  [] hit = 0 /\ all # <<>> /\ all[Len(all)] = "part" -> Len(all) - 1
                  [] OTHER -> Len(all)
        upTo == IF safe > d.emitted THEN safe ELSE d.emitted
    IN [state |-> [d EXCEPT !.text = all, !.emitted = upTo, !.capturing = (hit > 0),
                            !.envelope = IF hit > 0 THEN After(all, upTo) ELSE <<>>],
        out |-> Text(d.block, SubSeq(all, d.emitted + 1, upTo))]

DialectStep(d, f) ==
    CASE f.type = "block" ->
             [state |-> [d EXCEPT !.block = f.block, !.text = <<>>, !.emitted = 0], out |-> <<f>>]
      [] f.type = "text" /\ ~d.capturing -> DialectText(d, f.value)
      [] f.type = "text" /\ d.capturing ->
             [state |-> [d EXCEPT !.text = @ \o f.value, !.envelope = @ \o f.value], out |-> <<>>]
      [] f.type = "stop" -> IF d.capturing THEN [state |-> d, out |-> <<>>]
                            ELSE [state |-> [d EXCEPT !.emitted = Len(d.text)],
                                  out |-> Append(Text(d.block, After(d.text, d.emitted)), f)]
      [] f.type = "delta" -> [state |-> d, out |-> IF d.capturing THEN <<>> ELSE <<f>>]
      [] f.type = "end" -> LET r == DialectFinish(d)
                           IN [state |-> r.state, out |-> IF d.capturing THEN r.out ELSE Append(r.out, f)]
      [] OTHER -> [state |-> d, out |-> <<f>>]

-----------------------------------------------------------------------------
(* Every tool id the client sees is new to the conversation.               *)

\* An id is a name, a number and what the relay appended to it.
Original(name) == <<name, 0, 0>>
FreshId(id, ids) == CHOOSE new \in {<<id[1], id[2], k>> : k \in 0..Cardinality(ids)} :
                        new \notin ids /\ \A k \in 0..(new[3] - 1) : <<id[1], id[2], k>> \in ids
MintStep(ids, f) ==
    IF f.type = "block" /\ f.value[1] = "tool_use"
    THEN LET id == FreshId(f.value[2], ids)
         IN [state |-> ids \cup {id}, out |-> <<[f EXCEPT !.value[2] = id]>>]
    ELSE [state |-> ids, out |-> <<f>>]

-----------------------------------------------------------------------------
(* The commit probe and the relay proper.                                  *)

NewProbe == [verdict |-> "hold", held |-> <<>>]
Verdict(f) ==
    CASE f.type = "error" -> IF f.value = <<"refused">> THEN "dead-local" ELSE "dead-upstream"
      [] f.type = "end" -> "dead-upstream"
      [] f.type = "block" /\ f.value[1] = "tool_use" -> "ready"
      [] f.type \in {"text", "thinking"} /\ \E x \in ToSet(f.value) : x # "blank" -> "ready"
      [] OTHER -> "hold"
\* The first verdict of a batch stands; a stream that ends, or has said nothing for too long, is dead.
Probed(p, frames, over) ==
    LET held == p.held \o frames
        judged == SelectSeq(SubSeq(held, 1, IF Len(held) < ProbeMax THEN Len(held) ELSE ProbeMax),
                            LAMBDA f : Verdict(f) # "hold")
    IN [held |-> held,
        verdict |-> CASE judged # <<>> -> Verdict(judged[1])
                      [] judged = <<>> /\ (over \/ Len(held) >= ProbeMax) -> "dead-upstream"
                      [] OTHER -> "hold"]

NewRelay(mode) == [mode |-> mode, acc |-> <<>>, overflow |-> FALSE, buffering |-> FALSE, held |-> <<>>, first |-> 0]
\* From the first tool block on a turn is held, unless it has grown too large to be validated.
RelayStep(r, f) ==
    LET over == r.overflow \/ Len(r.acc) + 1 > ValidateMax
        grown == [r EXCEPT !.acc = IF r.overflow THEN @ ELSE Append(@, f), !.overflow = over]
    IN CASE r.mode = "observe" -> [state |-> grown, out |-> <<f>>]
         [] r.mode = "repair" /\ r.buffering /\ ~over -> [state |-> [grown EXCEPT !.held = Append(@, f)], out |-> <<>>]
         [] r.mode = "repair" /\ r.buffering /\ over ->
                [state |-> [grown EXCEPT !.held = <<>>, !.buffering = FALSE], out |-> Append(r.held, f)]
         [] r.mode = "repair" /\ ~r.buffering /\ ~over /\ f.type = "block" /\ f.value[1] = "tool_use" ->
                [state |-> [grown EXCEPT !.buffering = TRUE, !.first = f.block, !.held = <<f>>], out |-> <<>>]
         [] OTHER -> [state |-> grown, out |-> <<f>>]

\* reconstructFromSse: the blocks in the order of their indices, and the last stop reason.
DeltaTypes == {"text", "thinking", "args"}
ValuesOf(frames, block) ==
    FlattenSeq([i \in DOMAIN frames |-> IF frames[i].type \in DeltaTypes /\ frames[i].block = block
                                        THEN frames[i].value ELSE <<>>])
Reconstructed(frames) ==
    LET opens == SelectSeq(frames, LAMBDA f : f.type = "block")
        reasons == SelectSeq(frames, LAMBDA f : f.type = "delta")
    IN [content |-> [i \in DOMAIN opens |-> [what |-> opens[i].value, value |-> ValuesOf(frames, opens[i].block)]],
        reason |-> IF reasons = <<>> THEN "none" ELSE reasons[Len(reasons)].value[1]]
IsTool(block) == block.what[1] = "tool_use"
Tools(message) == SelectSeq(message.content, IsTool)
Violations(message) ==
    (IF \E b \in ToSet(Tools(message)) : b.value # <<"good">> THEN {"schema"} ELSE {})
    \cup (IF Tools(message) # <<>> /\ message.reason # "tool_use" THEN {"stop_reason_mismatch"} ELSE {})

\* How repair may end.  A wrong stop reason alone is corrected without asking a model.
RepairOutcomes(message) ==
    CASE \E b \in ToSet(Tools(message)) : b.what[3] = "call-danger" -> {"refused_destructive"}
      [] Violations(message) = {"stop_reason_mismatch"} -> {"fixed"}
      [] OTHER -> {"fixed", "failed", "refused"}
\* guardReshaped: same blocks in the same places, only the arguments may differ.
FixedTail(message, first) ==
    LET fixed == [i \in DOMAIN message.content |->
                     IF IsTool(message.content[i]) THEN [message.content[i] EXCEPT !.value = <<"good">>]
                     ELSE message.content[i]]
        rest == After(fixed, first)
    IN SseTail([i \in DOMAIN rest |-> [what |-> rest[i].what,
                                     type |-> CASE IsTool(rest[i]) -> "args"
                                                [] rest[i].what[1] = "thought" -> "thinking" [] OTHER -> "text",
                                     value |-> rest[i].value]], first)

\* The end of the stream at the relay: what is still given to the client, and how the attempt ended.
Endings(r) ==
    LET message == Reconstructed(r.acc)
        end(out, how) == [out |-> out, turn |-> how]
    IN CASE r.mode = "observe" ->
                {end(<<>>, IF ~r.overflow /\ Violations(message) = {} THEN "success" ELSE "protocol")}
         [] r.mode = "repair" /\ ~r.buffering -> {end(<<>>, "success")}
         [] r.mode = "repair" /\ r.buffering /\ Violations(message) = {} -> {end(r.held, "success")}
         [] OTHER -> {IF how = "fixed" THEN end(FixedTail(message, r.first), "success")
                      ELSE end(<<Frame("error", 0, <<how>>)>>, "protocol") : how \in RepairOutcomes(message)}

-----------------------------------------------------------------------------
(* What one event of the backend does, all the way to the client.          *)

NewItem(kind, name) == [kind |-> kind, id |-> Original(name), text |-> <<>>]

\* A stage of the pipeline that is flushed when the stream is over.
Flushed(r, last) == [state |-> last.state, out |-> r.out \o last.out]
ThinkEnds(r, over) == IF over THEN Flushed(r, ThinkFlush(r.state)) ELSE r
DialectEnds(r, over) == IF over /\ r.state.capturing THEN Flushed(r, DialectFinish(r.state)) ELSE r

\* `emitted` is the translator's emission; `over`: the backend's stream is at its end.
Deliver(emitted, over) ==
    \E e \in {emitted} :
    \E thought \in {ThinkEnds(Through(ThinkStep, think, e.out), over)} :
    \E recovered \in {DialectEnds(Through(DialectStep, dialect, thought.out), over)} :
    \E named \in {Through(MintStep, taken, recovered.out)} :
    \E probed \in {IF probe.verdict = "ready" THEN probe ELSE Probed(probe, named.out, over)} :
    LET frames == IF probe.verdict = "ready" THEN named.out ELSE probed.held
    IN \E relayed \in {Through(RelayStep, relay, frames)} :
       /\ translator' = e.state /\ think' = thought.state /\ dialect' = recovered.state /\ taken' = named.state
       /\ CASE probed.verdict = "hold" -> probe' = probed /\ UNCHANGED <<relay, sent, turn>>
            [] probed.verdict \in {"dead-local", "dead-upstream"} ->
                   probe' = probed /\ turn' = probed.verdict /\ UNCHANGED <<relay, sent>>
            [] probed.verdict = "ready" ->
                   /\ probe' = [verdict |-> "ready", held |-> <<>>]
                   /\ relay' = relayed.state
                   /\ IF over THEN \E end \in Endings(relayed.state) :
                                       sent' = sent \o relayed.out \o end.out /\ turn' = end.turn
                      ELSE sent' = sent \o relayed.out /\ UNCHANGED turn

Now == [state |-> translator, out |-> <<>>]
Current == Len(upstream.items)
CurrentItem == upstream.items[Current]
Streaming == turn = "open" /\ upstream.state \in {"between", "inside"}
Inside(kinds) == Streaming /\ upstream.state = "inside" /\ CurrentItem.kind \in kinds

\* response.created
Created == /\ Streaming /\ ~translator.started /\ upstream.items = <<>>
           /\ Deliver(Started(Now), FALSE) /\ UNCHANGED upstream

\* output_item.added and content_part.added, which a backend may leave out.
ItemAdded(kind, id, announced) ==
    /\ Streaming /\ upstream.state = "between" /\ Current < MaxItems
    /\ announced \/ kind # "thought"
    /\ upstream' = [upstream EXCEPT !.items = Append(@, NewItem(kind, id)), !.state = "inside"]
    /\ LET begun == Started(Now)
       IN Deliver(CASE announced /\ kind # "thought" -> Opened(begun, Current + 1, BlockOf(NewItem(kind, id)))
                    [] announced /\ kind = "thought" -> begun
                    [] OTHER -> Now, FALSE)

TextSaid == FoldLeft(LAMBDA n, item : n + Len(item.text), 0, upstream.items)
TextDelta(x) ==
    /\ Inside({"message"}) /\ TextSaid < MaxText
    /\ upstream' = [upstream EXCEPT !.items[Current].text = Append(@, x)]
    /\ Deliver(Delta(Now, Current, "text", <<x>>), FALSE)
ArgumentsDelta ==
    /\ Inside({"call-good", "call-bad", "call-danger"}) /\ CurrentItem.text = <<>>
    /\ LET value == IF CurrentItem.kind = "call-good" THEN <<"good">> ELSE <<"bad">>
       IN /\ upstream' = [upstream EXCEPT !.items[Current].text = value]
          /\ Deliver(Delta(Now, Current, "args", value), FALSE)
ReasoningDelta ==
    /\ Inside({"thought"}) /\ CurrentItem.text = <<>>
    /\ upstream' = [upstream EXCEPT !.items[Current].text = <<"word">>]
    /\ Deliver(Delta(Opened(Started(Now), Current, <<"thought">>), Current, "thinking", <<"word">>), FALSE)
\* A call's arguments are complete when its item is.
OutputItemDone ==
    /\ Streaming /\ upstream.state = "inside"
    /\ IsCall(CurrentItem.kind) => CurrentItem.text # <<>>
    /\ upstream' = [upstream EXCEPT !.state = "between"]
    /\ Deliver(ItemDone(Now, Current), FALSE)

ResponseCompleted == /\ Streaming /\ upstream.state = "between"
             /\ upstream' = [upstream EXCEPT !.state = "completed"]
             /\ Deliver(FinishTurn(Now, "completed", upstream.items), TRUE)
ResponseIncomplete == /\ Streaming /\ upstream.items # <<>>
              /\ upstream' = [upstream EXCEPT !.state = "incomplete"]
              /\ Deliver(FinishTurn(Now, "incomplete", upstream.items), TRUE)
ResponseFailed == /\ Streaming
          /\ upstream' = [upstream EXCEPT !.state = "failed"]
          /\ Deliver(FailTurn(Now), TRUE)
\* The connection closes without a final event.
CutOff == /\ Streaming
             /\ upstream' = [upstream EXCEPT !.state = "truncated"]
             /\ Deliver(FinishTurn(Now, "none", upstream.items), TRUE)
\* A read fails, the relay's own watchdogs included: the turn is finished first, then the error told.
Broken == /\ Streaming
          /\ upstream' = [upstream EXCEPT !.state = "broken"]
          /\ LET e == FinishTurn(Now, "none", upstream.items)
             IN Deliver([e EXCEPT !.out = Append(@, Frame("error", 0, <<"broken">>))], TRUE)
ClientLeaves == /\ turn = "open"
                /\ turn' = "left"
                /\ UNCHANGED <<upstream, translator, think, dialect, taken, probe, relay, sent>>

StreamInit ==
    /\ upstream = [items |-> <<>>, state |-> "between"]
    /\ translator = NewTranslator /\ think = NewThink /\ dialect = NewDialect
    /\ taken = {Original(name) : name \in SeenIds} /\ probe = NewProbe /\ sent = <<>> /\ turn = "open"
    /\ \E mode \in {"repair", "observe"} : relay = NewRelay(mode)

StreamNext ==
    \/ Created
    \/ \E kind \in ItemKinds, id \in SeenIds, announced \in BOOLEAN : ItemAdded(kind, id, announced)
    \/ \E x \in TextTokens : TextDelta(x)
    \/ ArgumentsDelta \/ ReasoningDelta \/ OutputItemDone
    \/ ResponseCompleted \/ ResponseIncomplete \/ ResponseFailed \/ CutOff \/ Broken \/ ClientLeaves

-----------------------------------------------------------------------------
(* Properties.                                                             *)

\* What a client makes of the frames, one by one, up to an error.
Reading(frames) ==
    FoldLeft(LAMBDA c, f :
        CASE c.errored -> c
          [] ~c.errored /\ f.type = "error" -> [c EXCEPT !.errored = TRUE, !.ok = @ /\ ~c.ended]
          [] ~c.errored /\ f.type = "start" -> [c EXCEPT !.started = TRUE, !.ok = @ /\ ~c.started]
          [] ~c.errored /\ f.type = "block" ->
                 [c EXCEPT !.next = @ + 1, !.open = @ \cup {f.block}, !.ok = @ /\ c.started /\ ~c.ended /\ f.block = c.next]
          [] ~c.errored /\ f.type \in DeltaTypes -> [c EXCEPT !.ok = @ /\ f.block \in c.open]
          [] ~c.errored /\ f.type = "stop" -> [c EXCEPT !.open = @ \ {f.block}, !.ok = @ /\ f.block \in c.open]
          [] OTHER -> [c EXCEPT !.ended = (f.type = "end"), !.ok = @ /\ ~c.ended /\ c.open = {}],
        [started |-> FALSE, next |-> 0, open |-> {}, ended |-> FALSE, errored |-> FALSE, ok |-> TRUE], frames)

\* Blocks are numbered in order, deltas fall into open blocks, nothing follows the end of the message,
\* and the message ends with every block closed.  Not promised of a message whose blocks overlap,
\* which they do in two cases: several blocks synthesized from the final event are all opened before
\* one is closed, and a block opened while an envelope is captured leaves the captured one open.
OneAtATime(frames) == \A i, j \in DOMAIN frames :
    i < j /\ frames[i].type = "block" /\ frames[j].type = "block" =>
        \E k \in i..j : frames[k].type = "stop" /\ frames[k].block = frames[i].block
MessageIsWellFormed ==
    LET frames == SelectSeq(sent, LAMBDA f : f # Frame("error", 0, <<"broken">>))
    IN OneAtATime(frames) => Reading(frames).ok

\* The text a client was given is what the backend sent, in order, but for one think span at its
\* head and for what an envelope turned into a call.
TextOf(frames) == FlattenSeq([i \in DOMAIN frames |-> IF frames[i].type = "text" THEN frames[i].value ELSE <<>>])
SpanTaken(said, n) == /\ said[n] = "close"
                      /\ \E k \in 1..n : said[k] = "open" /\ \A j \in 1..(n - 1) : j # k => said[j] # "open"
                                         /\ \A m \in 1..(k - 1) : said[m] = "blank"
Delivered(said, text) == \/ text = said
                         \/ \E n \in DOMAIN said : SpanTaken(said, n) /\ text = After(said, n)
AllSaid == FlattenSeq([i \in DOMAIN upstream.items |->
                          IF upstream.items[i].kind = "message" THEN upstream.items[i].text ELSE <<>>])
Announced == \A i \in DOMAIN upstream.items : translator.block[i] = i - 1
TextIsKept == (turn = "success" /\ upstream.state = "completed" /\ Announced /\ ~dialect.capturing /\ OneAtATime(sent))
                  => Delivered(AllSaid, TextOf(sent))

\* With repair on, no part of a tool call reaches the client before the whole turn was found valid
\* or made so; only a turn too large to validate is passed on as it comes.
CallsAreSound == (relay.mode = "repair" /\ ~relay.overflow) =>
    LET message == Reconstructed(sent)
    IN Tools(message) # <<>> => turn = "success" /\ Violations(message) = {}

\* No two calls of a turn share an id, and none has one the conversation already used.
CallIdsAreNew == LET ids == [i \in DOMAIN Tools(Reconstructed(sent)) |-> Tools(Reconstructed(sent))[i].what[2]]
                 IN IsInjective(ids) /\ ToSet(ids) \cap {Original(name) : name \in SeenIds} = {}

\* What a client of a translated stream is given (the four parts above).
StreamIsFaithful == MessageIsWellFormed /\ TextIsKept /\ CallsAreSound /\ CallIdsAreNew

\* backend.ts:1914 "an error event terminates the stream; no message_stop follows" - and none comes before.
AnErrorIsNotACompletion == \A i, j \in DOMAIN sent : ~(sent[i].type = "error" /\ sent[j].type = "end")

StreamSpec == StreamInit /\ [][StreamNext]_streamVars
=============================================================================
