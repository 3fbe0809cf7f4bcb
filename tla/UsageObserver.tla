--------------------------- MODULE UsageObserver ---------------------------
(***************************************************************************)
(* What the relay learns of a response's tokens while its bytes pass by    *)
(* unchanged.  Bytes are cut into chunks anywhere; the observer puts lines *)
(* and frames together again within a bound.  Of the frames it keeps the   *)
(* usage the provider reports, and an estimate of the output of its own:   *)
(* the characters of every text and of every complete tool call, without   *)
(* those of binary payloads.  The estimate is withdrawn for good by        *)
(* anything that cannot be measured.                                       *)
(*                                                                         *)
(* A behaviour watches either the bytes or the frames (`watches`).         *)
(***************************************************************************)
EXTENDS Integers, Sequences, SequencesExt, FiniteSets, FiniteSetsExt

CONSTANTS
    MaxFrame,       \* MAX_SSE_FRAME
    MaxFields,      \* MAX_STREAMED_TEXT_FIELDS
    MaxCalls,       \* MAX_PENDING_TOOL_CALLS
    MaxArguments,   \* MAX_PENDING_ARGUMENT_CHARS
    MaxBytes,       \* bound on a stream's length
    MaxFrames       \* bound on the frames of a response

ASSUME UsageObserverAssumption ==
    /\ {MaxFrame, MaxFields, MaxCalls, MaxArguments, MaxBytes, MaxFrames} \subseteq Nat

VARIABLES
    watches,    \* "bytes", "anthropic", "chat", "usage" or "json"
    bytes,      \* every byte sent so far: "y" stands for a byte of a line, "r" CR, "n" LF
    lines,      \* the line reader
    frames,     \* the frames inspected: the lengths of their lines
    unlucky,    \* ghost: an oversized line was dropped together with its trailing CR
    output,     \* OutputEstimateState
    published,  \* estimatedOutputTokens
    usage,      \* the reported fields
    heard,      \* ghost: what was said, piece by piece
    over        \* the stream was finished or abandoned

readerVars == <<bytes, lines, frames, unlucky>>
outputVars == <<output, published, usage, heard>>
observerVars == <<watches, readerVars, outputVars, over>>

Unseen == -1

-----------------------------------------------------------------------------
(* From chunks to frames.                                                  *)

NewFrame == [data |-> <<>>, size |-> 0, overflow |-> FALSE]

InspectFrame(reader) ==
    IF reader.frame.overflow \/ reader.frame.data = <<>> THEN reader
    ELSE [reader EXCEPT !.read = Append(@, reader.frame.data)]

ProcessLine(reader, length, terminator) ==
    LET size == reader.frame.size + length + terminator
    IN  IF length = 0 THEN [InspectFrame(reader) EXCEPT !.frame = NewFrame]
        ELSE IF size > MaxFrame
             THEN [reader EXCEPT !.frame = [data |-> <<>>, size |-> size, overflow |-> TRUE]]
        ELSE IF reader.frame.overflow THEN [reader EXCEPT !.frame.size = size]
        ELSE [reader EXCEPT !.frame.size = size, !.frame.data = Append(@, length)]

\* Faulty: a CR at the end of a chunk is taken for a whole line break.
LineBreaksEager(text, final) == {i \in DOMAIN text : text[i] \in {"r", "n"}}

\* A CR at the very end may be half of a CRLF.
LineBreaks(text, final) ==
    {i \in DOMAIN text : \/ text[i] = "n"
                         \/ text[i] = "r" /\ (i < Len(text) \/ final)}

\* One turn of the drain loop; nothing more to do is a state without text.
RECURSIVE Drain(_, _)
Drain(reader, final) ==
    LET breaks == LineBreaks(reader.text, final)
        index == Min(breaks)
        crlf == reader.text[index] = "r" /\ index < Len(reader.text)
                /\ reader.text[index + 1] = "n"
        terminator == IF crlf THEN 2 ELSE 1
        rest == SubSeq(reader.text, index + terminator, Len(reader.text))
    IN  IF reader.text = <<>> /\ ~(reader.discard /\ final) THEN reader
        ELSE IF breaks # {} THEN
            Drain(IF reader.discard
                  THEN [reader EXCEPT !.text = rest, !.discard = FALSE]
                  ELSE ProcessLine([reader EXCEPT !.text = rest], index - 1, terminator),
                  final)
        ELSE IF reader.discard THEN
            [reader EXCEPT !.text = IF ~final /\ @ # <<>> /\ Last(@) = "r" THEN <<"r">> ELSE <<>>,
                           !.discard = ~final]
        ELSE IF reader.frame.size + Len(reader.text) > MaxFrame THEN
            Drain([reader EXCEPT !.frame.overflow = TRUE, !.text = <<>>, !.discard = TRUE,
                                 !.cutAtCR = @ \/ Last(reader.text) = "r"],
                  final)
        ELSE reader

\* The last line and the last frame need no terminator.
DrainFinal(reader) ==
    LET drained == Drain(reader, TRUE)
        last == IF drained.text = <<>> THEN drained
                ELSE ProcessLine([drained EXCEPT !.text = <<>>], Len(drained.text), 0)
    IN  [InspectFrame(last) EXCEPT !.frame = NewFrame]

ReaderIs(reader) ==
    /\ lines' = [reader EXCEPT !.read = <<>>, !.cutAtCR = FALSE]
    /\ frames' = frames \o reader.read
    /\ unlucky' = (unlucky \/ reader.cutAtCR)

PushChunk ==
    /\ watches = "bytes" /\ ~over
    /\ \E n \in 1..2 : \E chunk \in [1..n -> {"y", "r", "n"}] :
         /\ Len(bytes) + n <= MaxBytes
         /\ bytes' = bytes \o chunk
         /\ ReaderIs(Drain([lines EXCEPT !.text = @ \o chunk], FALSE))
    /\ UNCHANGED <<watches, outputVars, over>>

FinishBytes ==
    /\ watches = "bytes" /\ ~over
    /\ ReaderIs(DrainFinal(lines))
    /\ over' = TRUE
    /\ UNCHANGED <<watches, bytes, outputVars>>

-----------------------------------------------------------------------------
(* The estimate.  A text is a sequence of fragments, a fragment weighs its *)
(* characters; "bin" is a whole binary member of a tool call's arguments.  *)

Width == [da |-> 2, ta |-> 3, base64 |-> 7, comma |-> 1, x |-> 4,
          open |-> 1, close |-> 1, bin |-> 13]

Characters(text) == FoldLeft(LAMBDA sum, f : sum + Width[f], 0, text)
EstimateTokens(characters) == (characters + 3) \div 4

\* isBase64DataUrl, of a whole text: data: up front, ;base64 before the first comma.
IsBase64DataUrl(text) ==
    LET commas == {i \in DOMAIN text : text[i] = "comma"}
    IN  /\ Len(text) > 3 /\ SubSeq(text, 1, 2) = <<"da", "ta">>
        /\ commas # {} /\ Min(commas) > 3 /\ text[Min(commas) - 1] = "base64"

IsArgumentJson(text) ==
    /\ Len(text) > 1 /\ text[1] = "open" /\ Last(text) = "close"
    /\ \A i \in 2..(Len(text) - 1) : text[i] \in {"x", "bin"}

\* argumentCharacters: the payload of a binary member (4 characters here) is left out.
ArgumentCharacters(text) ==
    IF IsBase64DataUrl(text) THEN 0
    ELSE IF text = <<>> THEN 0
    ELSE IF ~IsArgumentJson(text) THEN Unseen
    ELSE Characters(text) - 4 * Cardinality({i \in DOMAIN text : text[i] = "bin"})

NothingPending == [k \in {} |-> <<>>]
Dropping(f, keys) == [k \in DOMAIN f \ keys |-> f[k]]
Holding(f, key, v) == [k \in DOMAIN f \cup {key} |-> IF k = key THEN v ELSE f[k]]

NoOutput == [characters |-> 0, tainted |-> FALSE, argumentCharacters |-> 0,
             arguments |-> NothingPending, texts |-> NothingPending]

TaintOutputEstimate(o) ==
    [o EXCEPT !.tainted = TRUE, !.argumentCharacters = 0, !.arguments = NothingPending,
              !.texts = NothingPending]

\* publishOutputEstimate, after every change.
Estimate(o) ==
    IF o.tainted \/ DOMAIN o.arguments # {} \/ o.characters <= 0 THEN Unseen
    ELSE EstimateTokens(o.characters)

RecordOutputCharacters(o, n) ==
    IF o.tainted \/ n <= 0 THEN o ELSE [o EXCEPT !.characters = @ + n]

RecordOutputText(o, text) ==
    IF IsBase64DataUrl(text) THEN o ELSE RecordOutputCharacters(o, Characters(text))

RecordToolArguments(o, text) ==
    LET n == ArgumentCharacters(text)
    IN  IF n = Unseen THEN TaintOutputEstimate(o) ELSE RecordOutputCharacters(o, n)

NewField == [disposition |-> "candidate", held |-> 0, prefix |-> <<>>, headerTail |-> "none"]

\* processCandidateCharacter, a fragment at a time, until the field is decided.
ProcessFragment(field, f) ==
    IF field.disposition # "candidate" THEN field
    ELSE IF field.prefix # <<"da", "ta">> THEN
        LET prefix == Append(field.prefix, f)
        IN  IF IsPrefix(prefix, <<"da", "ta">>) THEN [field EXCEPT !.prefix = prefix]
            ELSE [field EXCEPT !.prefix = prefix, !.disposition = "count", !.held = 0]
    ELSE IF f = "comma" THEN
        IF field.headerTail = "base64" THEN [field EXCEPT !.disposition = "skip"]
        ELSE [field EXCEPT !.disposition = "count", !.held = 0]
    ELSE [field EXCEPT !.headerTail = f]

AppendStreamedOutputText(o, key, piece) ==
    IF o.tainted \/ piece = <<>> THEN o
    ELSE IF key \notin DOMAIN o.texts /\ Cardinality(DOMAIN o.texts) >= MaxFields
         THEN TaintOutputEstimate(o)
    ELSE LET field == IF key \in DOMAIN o.texts THEN o.texts[key] ELSE NewField
             held == [field EXCEPT !.held = @ + Characters(piece)]
             read == FoldLeft(ProcessFragment, held, piece)
         IN  CASE field.disposition = "count" -> RecordOutputCharacters(o, Characters(piece))
               [] field.disposition = "skip"  -> o
               [] OTHER -> [o EXCEPT !.texts = Holding(@, key, IF read.disposition = "skip"
                                                            THEN [read EXCEPT !.held = 0] ELSE read),
                                     !.characters = @ + Characters(piece)
                                          - (IF read.disposition = "skip" THEN read.held ELSE 0)]

AppendToolArguments(o, key, piece) ==
    LET size == o.argumentCharacters + Characters(piece)
        prior == IF key \in DOMAIN o.arguments THEN o.arguments[key] ELSE <<>>
    IN  IF o.tainted \/ piece = <<>> THEN o
        ELSE IF \/ key \notin DOMAIN o.arguments /\ Cardinality(DOMAIN o.arguments) >= MaxCalls
                \/ size > MaxArguments
             THEN TaintOutputEstimate(o)
        ELSE [o EXCEPT !.arguments = Holding(@, key, prior \o piece), !.argumentCharacters = size]

FlushToolArguments(o, key) ==
    IF key \notin DOMAIN o.arguments THEN o
    ELSE RecordToolArguments([o EXCEPT !.arguments = Dropping(@, {key}),
                                       !.argumentCharacters = @ - Characters(o.arguments[key])],
                             o.arguments[key])

FlushEach(o, keys) == FoldSet(LAMBDA key, acc : FlushToolArguments(acc, key), o, keys)
FlushTexts(o, keys) == [o EXCEPT !.texts = Dropping(@, keys)]

\* The keys of a block or of a choice: the flushes by prefix.
Keyed(f, index) == {key \in DOMAIN f : key[1] = index}

OutputIs(o) == output' = o /\ published' = Estimate(o)

-----------------------------------------------------------------------------
(* The ghost: what was said, with nothing of the observer's own counting.  *)

Nothing == [closed |-> 0, texts |-> NothingPending, arguments |-> NothingPending,
            unmeasurable |-> FALSE]

Joined(f, key, piece) == Holding(f, key, (IF key \in DOMAIN f THEN f[key] ELSE <<>>) \o piece)

Weight(text) == IF IsBase64DataUrl(text) THEN 0 ELSE Characters(text)
\* What is recognized as a base64 payload stays one whatever follows.
Said(h) == h.closed + FoldSet(LAMBDA key, sum : sum + Weight(h.texts[key]), 0, DOMAIN h.texts)

SayText(h, key, piece) ==
    [h EXCEPT !.texts = Joined(@, key, piece),
              !.unmeasurable = @ \/ Cardinality(DOMAIN h.texts \cup {key}) > MaxFields]

SayArguments(h, key, piece) ==
    LET arguments == Joined(h.arguments, key, piece)
    IN  [h EXCEPT !.arguments = arguments,
                  !.unmeasurable =
                       \/ @
                       \/ Cardinality(DOMAIN arguments) > MaxCalls
                       \/ FoldSet(LAMBDA k, sum : sum + Characters(arguments[k]), 0,
                                  DOMAIN arguments) > MaxArguments]

\* The texts and calls of `texts` and `calls` are complete.
Conclude(h, texts, calls) ==
    LET weights == [k \in calls |-> ArgumentCharacters(h.arguments[k])]
    IN  [closed |-> h.closed
                    + FoldSet(LAMBDA k, sum : sum + Weight(h.texts[k]), 0, texts)
                    + FoldSet(LAMBDA k, sum : sum + weights[k], 0, calls),
         texts |-> Dropping(h.texts, texts),
         arguments |-> Dropping(h.arguments, calls),
         unmeasurable |-> h.unmeasurable \/ \E k \in calls : weights[k] = Unseen]

-----------------------------------------------------------------------------
(* The frames of a response.                                               *)

TextPieces == {<<"da">>, <<"ta", "base64">>, <<"comma">>, <<"x">>}
ArgumentPieces == {<<"open">>, <<"close">>, <<"bin">>, <<"open", "close">>}

\* A frame that is not JSON, or above the frame bound: its text and usage are lost.
Malformed(o) == TaintOutputEstimate(o)

ReadsFrame(protocol) == watches = protocol /\ ~over /\ heard.frames < MaxFrames
Hear(h) == heard' = [h EXCEPT !.frames = @ + 1]
SameReader == UNCHANGED <<watches, readerVars, over>>

\* inspectAnthropicOutput: text and thinking of a block, its start included.
AnthropicText ==
    /\ ReadsFrame("anthropic")
    /\ \E key \in {<<0, "text">>, <<0, "thinking">>, <<1, "text">>}, piece \in TextPieces :
         /\ OutputIs(AppendStreamedOutputText(output, key, piece))
         /\ Hear([heard EXCEPT !.said = SayText(heard.said, key, piece)])
    /\ UNCHANGED usage /\ SameReader

AnthropicArguments ==
    /\ ReadsFrame("anthropic")
    /\ \E index \in {0, 1}, piece \in ArgumentPieces :
         /\ OutputIs(AppendToolArguments(output, <<index, "input">>, piece))
         /\ Hear([heard EXCEPT !.said = SayArguments(heard.said, <<index, "input">>, piece)])
    /\ UNCHANGED usage /\ SameReader

AnthropicStop ==
    /\ ReadsFrame("anthropic")
    /\ \E index \in {0, 1} :
         LET flushed == FlushEach(output, Keyed(output.arguments, index))
         IN  /\ OutputIs(FlushTexts(flushed, Keyed(flushed.texts, index)))
             /\ Hear([heard EXCEPT !.said = Conclude(heard.said, Keyed(heard.said.texts, index),
                                        Keyed(heard.said.arguments, index))])
    /\ UNCHANGED usage /\ SameReader

\* inspectOpenAiOutput of a choice's delta: its content, then its call's arguments (a
\* call without an index is known by its place), then the end of the choice.
ChatDelta ==
    /\ ReadsFrame("chat")
    /\ \E choice \in {0, 1}, finish \in BOOLEAN,
          text \in TextPieces \cup {<<>>}, arguments \in ArgumentPieces \cup {<<>>} :
         LET texted == AppendStreamedOutputText(output, <<choice, "content">>, text)
             called == AppendToolArguments(texted, <<choice, "call">>, arguments)
             flushed == FlushEach(called, Keyed(called.arguments, choice))
             told == IF text = <<>> THEN heard.said
                     ELSE SayText(heard.said, <<choice, "content">>, text)
             asked == IF arguments = <<>> THEN told
                      ELSE SayArguments(told, <<choice, "call">>, arguments)
         IN  /\ text = <<>> \/ arguments = <<>>
             /\ text # arguments \/ finish
             /\ OutputIs(IF finish THEN FlushTexts(flushed, Keyed(flushed.texts, choice))
                         ELSE called)
             /\ Hear([heard EXCEPT !.said = IF finish THEN Conclude(asked, Keyed(asked.texts, choice),
                                                       Keyed(asked.arguments, choice))
                               ELSE asked])
    /\ UNCHANGED usage /\ SameReader

BadFrame ==
    /\ \E protocol \in {"anthropic", "chat", "usage"} : ReadsFrame(protocol)
    /\ OutputIs(Malformed(output))
    /\ Hear([heard EXCEPT !.said.unmeasurable = TRUE])
    /\ UNCHANGED usage /\ SameReader

\* inspectUsageRecord: a field that is missing or no count leaves the earlier one.
Recorded(old, record) == [f \in DOMAIN old |-> IF record[f] = Unseen THEN old[f] ELSE record[f]]

\* message_start reports the input, message_delta the output; a chat stream reports
\* both, and some of the fields may be no counts.
UsageFrame ==
    /\ ReadsFrame("usage")
    /\ \E input, out \in {Unseen, 0, 1} :
         /\ usage' = Recorded(usage, [input |-> input, output |-> out])
         /\ Hear([heard EXCEPT !.reports = Append(@, [input |-> input, output |-> out])])
    /\ UNCHANGED <<output, published>> /\ SameReader

\* finish(): what is still open ends here. A stream its client abandons never gets there.
FinishFrames ==
    /\ watches \in {"anthropic", "chat", "usage"} /\ ~over
    /\ OutputIs(FlushEach(FlushTexts(output, DOMAIN output.texts), DOMAIN output.arguments))
    /\ heard' = [heard EXCEPT !.said = Conclude(@, DOMAIN @.texts, DOMAIN @.arguments)]
    /\ over' = TRUE
    /\ UNCHANGED <<watches, readerVars, usage>>

AbandonFrames ==
    /\ watches \in {"anthropic", "chat", "usage"} /\ ~over
    /\ over' = TRUE
    /\ UNCHANGED <<watches, readerVars, outputVars>>

\* The JSON observer: the whole body at its end, nothing of one above the buffer bound.
ReadBody ==
    /\ watches = "json" /\ ~over
    /\ \E text \in {<<"x">>, <<"da", "ta", "base64", "comma", "x">>},
          arguments \in {<<"open", "close">>, <<"open", "bin", "close">>, <<"open">>},
          fate \in {"read", "cut", "tooLarge"} :
         LET read == RecordToolArguments(RecordOutputText(output, text), arguments)
             said == SayArguments(SayText(heard.said, <<0, "text">>, text), <<0, "input">>,
                                  arguments)
         IN  CASE fate = "read" ->
                    /\ output' = read /\ published' = Estimate(read)
                    /\ heard' = [heard EXCEPT !.said = Conclude(said, {<<0, "text">>},
                                                                {<<0, "input">>})]
               [] fate = "cut" ->
                    /\ OutputIs(Malformed(output))
                    /\ heard' = [heard EXCEPT !.said.unmeasurable = TRUE]
               [] OTHER -> heard' = [heard EXCEPT !.said.unmeasurable = TRUE]
                           /\ UNCHANGED <<output, published>>
    /\ over' = TRUE
    /\ UNCHANGED <<watches, readerVars, usage>>

-----------------------------------------------------------------------------
ObserverInit ==
    /\ watches \in {"bytes", "anthropic", "chat", "usage", "json"}
    /\ bytes = <<>> /\ frames = <<>> /\ unlucky = FALSE
    /\ lines = [text |-> <<>>, discard |-> FALSE, frame |-> NewFrame, read |-> <<>>,
                cutAtCR |-> FALSE]
    /\ output = NoOutput /\ published = Unseen
    /\ usage = [input |-> Unseen, output |-> Unseen]
    /\ heard = [said |-> Nothing, reports |-> <<>>, frames |-> 0]
    /\ over = FALSE

ObserverNext ==
    \/ PushChunk \/ FinishBytes
    \/ AnthropicText \/ AnthropicArguments \/ AnthropicStop
    \/ ChatDelta
    \/ BadFrame \/ UsageFrame \/ FinishFrames \/ AbandonFrames \/ ReadBody

-----------------------------------------------------------------------------
(* A reader that takes one byte after the other, knowing all of them.      *)

FramesIn(all, final) ==
    LET Ends(i) == all[i] = "n" \/ (all[i] = "r" /\ IF i < Len(all) THEN all[i+1] # "n" ELSE final)
        Closed(acc) == IF acc.data # <<>> /\ acc.size <= MaxFrame
                       THEN Append(acc.out, acc.data) ELSE acc.out
        Terminator(i) == IF all[i] = "n" /\ i > 1 /\ all[i-1] = "r" THEN 2 ELSE 1
        Take(acc, i) ==
            IF all[i] = "y" THEN [acc EXCEPT !.line = @ + 1]
            ELSE IF ~Ends(i) THEN acc
            ELSE IF acc.line = 0
                 THEN [line |-> 0, data |-> <<>>, size |-> 0, out |-> Closed(acc)]
            ELSE [acc EXCEPT !.line = 0, !.data = Append(@, acc.line),
                             !.size = @ + acc.line + Terminator(i)]
        taken == FoldLeft(Take, [line |-> 0, data |-> <<>>, size |-> 0, out |-> <<>>],
                          [i \in 1..Len(all) |-> i])
        ended == IF taken.line = 0 THEN taken
                 ELSE [taken EXCEPT !.data = Append(@, taken.line), !.size = @ + taken.line]
    IN  IF final THEN Closed(ended) ELSE taken.out

\* The frames inspected do not depend on where the provider's chunks are cut, unless the
\* reader dropped an oversized line with half of its line break (makeSseObserver).
CutsDoNotMatter == watches = "bytes" /\ ~unlucky => frames = FramesIn(bytes, over)

\* An oversized frame costs itself only: "The next blank line will reset the poisoned
\* frame and permit recovery." (usage-observer.ts:730)
OversizedFrameCostsItself == watches = "bytes" => frames = FramesIn(bytes, over)

LastCount(f) ==
    FoldLeft(LAMBDA last, report : IF report[f] = Unseen THEN last ELSE report[f], Unseen,
             heard.reports)

\* The estimate that is published counts every text and every finished call that was
\* said, none of a binary payload, and is absent while a call is open and ever after
\* something that could not be measured; each reported field is the last count the
\* provider gave for it (publishOutputEstimate and its callers, inspectUsageRecord).
ObservedIsWhatWasSaid ==
    watches # "bytes" =>
        /\ published = IF heard.said.unmeasurable \/ DOMAIN heard.said.arguments # {}
                          \/ Said(heard.said) <= 0
                       THEN Unseen ELSE EstimateTokens(Said(heard.said))
        /\ \A f \in DOMAIN usage : usage[f] = LastCount(f)

\* What is observed of an answer is what the provider said, however it was cut.
UsageIsWhatWasSaid == CutsDoNotMatter /\ ObservedIsWhatWasSaid
=============================================================================
