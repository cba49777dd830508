--------------------------- MODULE ProviderStream ---------------------------
(***************************************************************************)
(* One streamed answer of a model provider: the readers of OpenAI chat     *)
(* completions, Anthropic messages and OpenAI responses (llm/*/stream.rs), *)
(* the lines they take from the response (provider_http.rs), the budget    *)
(* all output shares (utils/http.rs), and the printer that the caller      *)
(* feeds through a bounded channel.                                        *)
(*                                                                         *)
(* The server may send any line at any time.  A text is the number of the  *)
(* line that carried it; a line with several deltas is that many lines.    *)
(* Lines a reader skips (blank, comments, bad JSON, other events) are left *)
(* out: they change nothing.                                               *)
(***************************************************************************)
EXTENDS Integers, Sequences, SequencesExt, FiniteSets, FiniteSetsExt, Functions

CONSTANTS Provider,    \* "openai", "anthropic" or "responses"
          Indexes,     \* indexes a server gives to tool calls
          Names,       \* names and ids of calls; the empty one is ""
          Structured,  \* name of the forced structured-output tool, or ""
          Sizes,       \* bytes of a delta
          OutputLimit, \* ProviderExecutionPolicy::output_bytes
          Capacity,    \* capacity of the channel, 100 in the code
          MaxLines     \* bound: lines the server sends

StreamAssumption ==
    /\ Provider \in {"openai", "anthropic", "responses"}
    /\ Structured # "" => Provider = "anthropic" /\ Structured \in Names
    /\ "" \notin Names /\ Indexes \subseteq Nat /\ Sizes \subseteq Nat
    /\ OutputLimit \in Nat /\ Capacity \in Nat \ {0} /\ MaxLines \in Nat

VARIABLES
    phase,   \* where send_request_stream and its caller are
    content, reasoning, \* full_content and full_reasoning
    used,    \* stored_output_bytes
    calls,   \* the pending calls, blocks or items by index
    seen,    \* what the reader has noted: terminal marker, final usage, error
    out,     \* the chunk whose send is awaited
    then,    \* what the reader does once it is sent
    chan,    \* the channel
    printed, \* what the printer took
    usage,   \* what ProviderAttempt has observed, and its final_receipt flag
    answer,  \* content of the ChatResponse, once there is one
    wire     \* history: lines sent, the texts and inputs of tools among them, the
             \* last usage object, and the line that was not ended or 0

vars == <<phase, content, reasoning, used, calls, seen, out, then, chan, printed, usage,
          answer, wire>>

NoChunk == [kind |-> "none"]

NoCall == [id |-> "", name |-> "", args |-> <<>>, bytes |-> 0, type |-> "none", announced |-> FALSE]

\* PendingToolCall, BlockState, ItemState
Call == [id : Names \cup {""}, name : Names \cup {""}, args : Seq(Nat), bytes : Nat,
         type : {"none", "tool", "text"}, announced : BOOLEAN]

Init ==
    /\ phase = "send"
    /\ content = <<>> /\ reasoning = <<>> /\ used = 0
    /\ calls = [i \in Indexes |-> NoCall]
    /\ seen = [terminal |-> FALSE, finalUsage |-> FALSE, error |-> FALSE]
    /\ out = NoChunk /\ then = "read" /\ chan = <<>> /\ printed = <<>>
    /\ usage = [some |-> FALSE, final |-> FALSE]
    /\ answer = <<>>
    /\ wire = [sizes |-> <<>>, texts |-> <<>>, thoughts |-> <<>>,
               inputs |-> [i \in Indexes |-> <<>>], last |-> "none", torn |-> 0]
-----------------------------------------------------------------------------
(* The reader *)

\* ProviderSseLines::next_line: another line is read only when the chunks of
\* the one before are in the channel.
Reading == phase = "read" /\ out = NoChunk /\ wire.torn = 0 /\ Len(wire.sizes) < MaxLines

Line == Len(wire.sizes) + 1

\* The server stops within a line, a text or any other: BoundedLineBuffer keeps
\* what has no line end, and no reader gets to see it.
Torn(text) ==
    /\ Reading
    /\ wire' = [wire EXCEPT !.sizes = Append(@, 0), !.torn = Line,
                            !.texts = IF text THEN Append(@, Line) ELSE @]
    /\ UNCHANGED <<phase, content, reasoning, used, calls, seen, out, then, chan, printed,
                   usage, answer>>

\* bounded_push_str
Fits(n) == used + n <= OutputLimit

\* tx.send(..).await: taken up by Deliver when there is room.
Send(chunk) == out' = chunk /\ UNCHANGED chan

\* tx.try_send(..): a full channel loses the chunk.
TrySend(chunks) ==
    /\ chan' = chan \o SubSeq(chunks, 1, Min({Len(chunks), Capacity - Len(chan)}))
    /\ UNCHANGED out

Fail == phase' = "failed" /\ UNCHANGED <<chan, out>>

\* ProviderAttempt::observe
Observe(some, final) ==
    usage' = IF some THEN [some |-> TRUE, final |-> final]
             ELSE [usage EXCEPT !.final = @ \/ final]

\* The block a text of Anthropic's belongs to.
InBlock(i) == Provider = "anthropic" /\ calls[i].type # "none"

\* A text delta.  Anthropic stores it once more with its block, after it was
\* sent, and fails then when the budget is used up.
Text(n, i) ==
    /\ Reading
    /\ wire' = [wire EXCEPT !.sizes = Append(@, n), !.texts = Append(@, Line),
                            !.inputs[i] = IF InBlock(i) THEN Append(@, Line) ELSE @]
    /\ LET whole == IF InBlock(i) THEN 2 * n ELSE n
       IN  \/ /\ ~Fits(n) /\ Fail
              /\ UNCHANGED <<content, used, calls, then>>
           \/ /\ Fits(n)
              /\ content' = Append(content, Line)
              /\ Send([kind |-> "text", line |-> Line])
              /\ UNCHANGED phase
              /\ \/ /\ Fits(whole) /\ used' = used + whole /\ UNCHANGED then
                    /\ calls' = IF InBlock(i)
                                THEN [calls EXCEPT ![i].args = Append(@, Line), ![i].bytes = @ + n]
                                ELSE calls
                 \/ /\ ~Fits(whole) /\ used' = used + n /\ then' = "fail"
                    /\ UNCHANGED calls
    /\ UNCHANGED <<reasoning, seen, printed, usage, answer>>

\* A reasoning delta.
Thinking(n) ==
    /\ Reading
    /\ wire' = [wire EXCEPT !.sizes = Append(@, n), !.thoughts = Append(@, Line)]
    /\ UNCHANGED <<content, calls, seen, then, printed, usage, answer>>
    /\ \/ /\ ~Fits(n) /\ Fail
          /\ UNCHANGED <<reasoning, used>>
       \/ /\ Fits(n)
          /\ reasoning' = Append(reasoning, Line) /\ used' = used + n
          /\ Send([kind |-> "thinking", line |-> Line])
          /\ UNCHANGED phase
-----------------------------------------------------------------------------
(* Tool calls *)

Start(id, name) == [kind |-> "start", id |-> id, name |-> name]
Delta(id) == [kind |-> "delta", id |-> id]

Complete(c) == c.id # "" /\ c.name # ""

Announce(c) == ~c.announced /\ Complete(c)

\* StreamToolCalls::apply_delta.  The first id and the first name of an index
\* stay; each is one byte here.  A delta of size 0 carries no arguments.
ApplyDelta(i, id, name, n) ==
    /\ Reading
    /\ wire' = [wire EXCEPT !.sizes = Append(@, n),
                            !.inputs[i] = IF n > 0 THEN Append(@, Line) ELSE @]
    /\ LET old == calls[i]
           met == [old EXCEPT !.type = "tool",
                              !.id = IF @ = "" THEN id ELSE @,
                              !.name = IF @ = "" THEN name ELSE @]
           cost == Cardinality({f \in {"id", "name"} : met[f] # old[f]})
           start == Announce(met)
           grown == [met EXCEPT !.announced = @ \/ start,
                                !.args = IF n > 0 THEN Append(@, Line) ELSE @,
                                !.bytes = @ + cost + n]
       IN  \/ /\ ~Fits(cost + n) /\ Fail
              /\ UNCHANGED <<calls, used>>
           \/ /\ Fits(cost + n)
              /\ calls' = [calls EXCEPT ![i] = grown] /\ used' = used + cost + n
              /\ TrySend((IF start THEN <<Start(met.id, met.name)>> ELSE <<>>)
                           \o (IF n > 0 THEN <<Delta(met.id)>> ELSE <<>>))
              /\ UNCHANGED phase
    /\ UNCHANGED <<content, reasoning, seen, then, printed, usage, answer>>

\* content_block_start and response.output_item.added: a fresh entry takes the
\* index, whatever was there.
Begin(i, type, id, name) ==
    /\ Reading
    /\ wire' = [wire EXCEPT !.sizes = Append(@, 0), !.inputs[i] = <<>>]
    /\ IF type = "tool"
       THEN /\ calls' = [calls EXCEPT ![i] = [NoCall EXCEPT !.type = type, !.id = id, !.name = name]]
            /\ Send(Start(id, name))
       ELSE /\ calls' = [calls EXCEPT ![i] = [NoCall EXCEPT !.type = type]]
            /\ UNCHANGED <<chan, out>>
    /\ UNCHANGED <<phase, content, reasoning, used, seen, then, printed, usage, answer>>

\* input_json_delta and response.function_call_arguments.delta: ignored unless
\* the entry is there.
Arguments(i, n) ==
    /\ Reading
    /\ wire' = [wire EXCEPT !.sizes = Append(@, n), !.inputs[i] = Append(@, Line)]
    /\ calls[i].type # "none"
    /\ \/ /\ ~Fits(n) /\ Fail
          /\ UNCHANGED <<calls, used>>
       \/ /\ Fits(n)
          /\ calls' = [calls EXCEPT ![i].args = Append(@, Line), ![i].bytes = @ + n]
          /\ used' = used + n
          /\ Send(Delta(calls[i].id))
          /\ UNCHANGED phase
    /\ UNCHANGED <<content, reasoning, seen, then, printed, usage, answer>>
-----------------------------------------------------------------------------
(* Usage, the end of the stream and errors *)

\* Which usage objects end the accounting: OpenAI's chunk without choices, the
\* usage of a responses event that ends the stream.  Anthropic's never do by
\* themselves.
FinalUsage(kind) == kind = "final" /\ Provider = "openai"

\* A usage object in the stream; "final" has the output count of message_delta
\* or no choices beside it.
Usage(kind) ==
    /\ Reading
    /\ wire' = [wire EXCEPT !.sizes = Append(@, 0), !.last = kind]
    /\ Observe(TRUE, FinalUsage(kind))
    /\ seen' = [seen EXCEPT !.finalUsage = @ \/ (Provider = "anthropic" /\ kind = "final")]
    /\ UNCHANGED <<phase, content, reasoning, used, calls, out, then, chan, printed, answer>>

\* [DONE], message_stop, response.completed with its usage.
Terminal(receipt) ==
    /\ Reading
    /\ wire' = [wire EXCEPT !.sizes = Append(@, 0), !.last = IF receipt THEN "final" ELSE @]
    /\ seen' = [seen EXCEPT !.terminal = TRUE]
    /\ Observe(receipt, receipt \/ (Provider = "anthropic" /\ seen.finalUsage))
    /\ Send([kind |-> "done"])
    /\ UNCHANGED <<phase, content, reasoning, used, calls, then, printed, answer>>

\* An error in the stream; a failed or incomplete response may carry its usage.
Error(receipt) ==
    /\ Reading
    /\ wire' = [wire EXCEPT !.sizes = Append(@, 0), !.last = IF receipt THEN "final" ELSE @]
    /\ Observe(receipt, receipt)
    /\ seen' = [seen EXCEPT !.error = TRUE]
    /\ \/ /\ Provider = "responses"
          /\ Send([kind |-> "error"]) /\ then' = "fail" /\ UNCHANGED phase
       \/ /\ Provider # "responses" /\ Fail /\ UNCHANGED then
    /\ UNCHANGED <<content, reasoning, used, calls, printed, answer>>

Deliver ==
    /\ out # NoChunk /\ phase = "read" /\ Len(chan) < Capacity
    /\ chan' = Append(chan, out) /\ out' = NoChunk
    /\ phase' = IF then = "fail" THEN "failed" ELSE phase
    /\ UNCHANGED <<content, reasoning, used, calls, seen, then, printed, usage, answer, wire>>

\* The entries that are calls, in the order of their indexes (BTreeMap).
ToolIndexes == {i \in Indexes : calls[i].type = "tool"}

\* Some servers of OpenAI's protocol leave the marker out: something was said.
OpenAiAccepted == seen.terminal \/ content # <<>> \/ ToolIndexes # {}

\* output::assemble: the forced tool or another is there when one is forced.
AnthropicAccepted == seen.terminal /\ (Structured # "" => ToolIndexes # {})

ResponsesAccepted == seen.terminal

\* When the end of the stream is taken for the end of an answer.
Accepted ==
    CASE Provider = "openai"    -> OpenAiAccepted
      [] Provider = "anthropic" -> AnthropicAccepted
      [] Provider = "responses" -> ResponsesAccepted

\* The calls of the forced tool; their input is the answer.
StructuredIndexes == {i \in ToolIndexes : Structured # "" /\ calls[i].name = Structured}

\* Mutant: the texts are returned although the forced tool was called
TextsReturned == content

\* What is returned as content: the input of the last call of the forced tool, or else
\* the texts.
Returned ==
    IF StructuredIndexes = {} THEN content ELSE calls[Max(StructuredIndexes)].args

\* The response ends: StreamToolCalls::finish or output::assemble, and the
\* receipt, whose settlement may overflow.  Every call must have its id and name.
EndOfStream(settled) ==
    /\ phase = "read" /\ out = NoChunk
    /\ \/ /\ Accepted /\ settled /\ \A i \in ToolIndexes : Complete(calls[i])
          /\ phase' = "answered" /\ answer' = Returned
       \/ /\ ~(Accepted /\ settled /\ \A i \in ToolIndexes : Complete(calls[i]))
          /\ phase' = "failed" /\ UNCHANGED answer
    /\ UNCHANGED <<content, reasoning, used, calls, seen, out, then, chan, printed, usage, wire>>

\* The request is sent and answered with a success status.
Respond ==
    /\ phase = "send" /\ phase' = "read"
    /\ UNCHANGED <<content, reasoning, used, calls, seen, out, then, chan, printed, usage, answer, wire>>

\* Any other status: the usage in its body is the receipt of the attempt.
ErrorResponse(receipt) ==
    /\ phase = "send" /\ phase' = "failed"
    /\ Observe(receipt, receipt)
    /\ wire' = [wire EXCEPT !.last = IF receipt THEN "final" ELSE @]
    /\ UNCHANGED <<content, reasoning, used, calls, seen, out, then, chan, printed, answer>>

\* The connection breaks, the request times out, the response has more bytes
\* than a stream may have or a line is not UTF-8.
Broken ==
    /\ phase \in {"send", "read"} /\ out = NoChunk /\ phase' = "failed"
    /\ UNCHANGED <<content, reasoning, used, calls, seen, out, then, chan, printed, usage, answer, wire>>
-----------------------------------------------------------------------------
(* The caller *)

\* The printer takes a chunk.
Take ==
    /\ chan # <<>>
    /\ printed' = Append(printed, Head(chan)) /\ chan' = Tail(chan)
    /\ UNCHANGED <<phase, content, reasoning, used, calls, seen, out, then, usage, answer, wire>>

\* call_streaming: the result is used when the printer has ended, which it
\* does when the channel is empty and its sender gone.
Joined ==
    /\ phase \in {"answered", "failed"} /\ chan = <<>>
    /\ phase' = IF phase = "answered" THEN "ok" ELSE "error"
    /\ UNCHANGED <<content, reasoning, used, calls, seen, out, then, chan, printed, usage, answer, wire>>

\* The caller is dropped; the printer prints what is in the channel.
Cancel ==
    /\ phase \in {"send", "read", "answered", "failed"} /\ phase' = "dropped" /\ out' = NoChunk
    /\ UNCHANGED <<content, reasoning, used, calls, seen, then, chan, printed, usage, answer, wire>>

\* The readers of the three protocols: what a line may be to each.
OpenAiLine ==
    /\ Provider = "openai"
    /\ \/ \E n \in Sizes : Thinking(n) \/ \E i \in Indexes : Text(n, i)
       \/ \E i \in Indexes, id, name \in Names \cup {""}, n \in Sizes \cup {0} : ApplyDelta(i, id, name, n)
       \/ \E kind \in {"interim", "final"} : Usage(kind)
       \/ Terminal(FALSE) \/ Error(FALSE)

AnthropicLine ==
    /\ Provider = "anthropic"
    /\ \/ \E n \in Sizes : Thinking(n) \/ \E i \in Indexes : Text(n, i) \/ Arguments(i, n)
       \/ \E i \in Indexes, type \in {"tool", "text"}, id, name \in Names \cup {""} : Begin(i, type, id, name)
       \/ \E kind \in {"interim", "final"} : Usage(kind)
       \/ Terminal(FALSE) \/ Error(FALSE)

ResponsesLine ==
    /\ Provider = "responses"
    /\ \/ \E n \in Sizes : Thinking(n) \/ \E i \in Indexes : Text(n, i) \/ Arguments(i, n)
       \/ \E i \in Indexes, type \in {"tool", "text"}, id, name \in Names \cup {""} : Begin(i, type, id, name)
       \/ Usage("interim")
       \/ \E receipt \in BOOLEAN : Terminal(receipt) \/ Error(receipt)

Next ==
    \/ Respond \/ Broken \/ Deliver \/ Take \/ Joined \/ Cancel
    \/ OpenAiLine \/ AnthropicLine \/ ResponsesLine
    \/ \E b \in BOOLEAN : ErrorResponse(b) \/ Torn(b) \/ EndOfStream(b)

Spec == Init /\ [][Next]_vars

-----------------------------------------------------------------------------
(* Properties *)

TypeOK ==
    /\ phase \in {"send", "read", "answered", "failed", "ok", "error", "dropped"}
    /\ content \in Seq(Nat) /\ reasoning \in Seq(Nat) /\ used \in Nat
    /\ calls \in [Indexes -> Call]
    /\ seen \in [terminal : BOOLEAN, finalUsage : BOOLEAN, error : BOOLEAN]
    /\ then \in {"read", "fail"} /\ Len(chan) <= Capacity
    /\ usage \in [some : BOOLEAN, final : BOOLEAN] /\ answer \in Seq(Nat)
    /\ wire.torn \in 0..MaxLines /\ wire.sizes \in Seq(Nat) /\ wire.last \in {"none", "interim", "final"}

\* The texts of the lines the server ended.
TextsInFull == SelectSeq(wire.texts, LAMBDA l : l # wire.torn)

\* An answer is whole as far as its lines were ended: it is the whole input of the
\* forced tool if that was called (of its last call), and otherwise every
\* text the server sent, in order; it does not come from a stream with an error in it,
\* its calls can be made, and the server said that it ends there.  OpenAI's reader does
\* without the last, against the comment above its loop (openai/stream.rs:49-51): when
\* something was said a stream that breaks off, also within a line, is an answer.
AnswerIsWhole ==
    phase \in {"answered", "ok"} =>
        /\ answer = IF StructuredIndexes = {} THEN TextsInFull
                    ELSE wire.inputs[Max(StructuredIndexes)]
        /\ ~seen.error /\ reasoning = wire.thoughts
        /\ \A i \in ToolIndexes : Complete(calls[i])
        /\ seen.terminal \/ (Provider = "openai" /\ (TextsInFull # <<>> \/ ToolIndexes # {}))

Lines(chunks) == LET texts == SelectSeq(chunks, LAMBDA c : c.kind = "text")
                 IN  [j \in DOMAIN texts |-> texts[j].line]

\* What the terminal shows is what the reader took: texts reach the printer all and in
\* order however full the channel is, and the caller goes on only after the last was
\* printed.  That is also the answer unless a forced tool was called, whose input is
\* not printed.
PrintedIsAnswer ==
    /\ phase # "dropped" => Lines(Append(printed \o chan, out)) = content
    /\ phase = "ok" =>
         /\ Lines(printed) = TextsInFull
         /\ StructuredIndexes = {} => Lines(printed) = answer

Bytes(lines) == FoldLeft(LAMBDA sum, l : sum + wire.sizes[l], 0, lines)

\* Texts, reasoning and the arguments of calls together stay within the output
\* limit: everything held was counted, also what a new block displaced.
OutputWithinLimit ==
    /\ used <= OutputLimit
    /\ Bytes(content) + Bytes(reasoning) + SumFunction([i \in Indexes |-> calls[i].bytes]) <= used

\* OpenAI's calls are announced when both their parts have come, and once.
AnnouncedOnce ==
    Provider = "openai" =>
        LET starts == SelectSeq(printed \o chan, LAMBDA c : c.kind = "start")
        IN  /\ \A j \in DOMAIN starts : starts[j].id # "" /\ starts[j].name # ""
            /\ \A id \in Names : Cardinality({j \in DOMAIN starts : starts[j].id = id})
                                   <= Cardinality({i \in Indexes : calls[i].id = id})

\* A receipt counts as final only when the server closed the accounts: with its
\* last usage object, or with the end of the message after one that had the
\* output count.  A truncated stream of Anthropic's never has one.
FinalIsEarned ==
    usage.final =>
        IF Provider = "anthropic" /\ wire.sizes # <<>> THEN seen.terminal /\ seen.finalUsage ELSE wire.last = "final"

=============================================================================
