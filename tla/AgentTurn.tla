------------------------------ MODULE AgentTurn ------------------------------
(***************************************************************************)
(* The provider / tool loop of an agent, and the approval gate in front of *)
(* its tools.  Several agents run at once: conversation turns, which keep  *)
(* a history across turns, and tasks, which build a fresh one.  They share *)
(* one tool registry and so one set of "always" grants.                    *)
(*                                                                         *)
(* A step is one piece of code between two awaits.  The provider's answer, *)
(* the human's answer, a tool's outcome and the firing of the dispatch     *)
(* timer are choices; a turn can be dropped at every await.                *)
(***************************************************************************)
EXTENDS Naturals, Sequences, SequencesExt, FiniteSets, Functions

CONSTANTS
    Chat,         \* conversation callers: run_single_agent_turn
    Task,         \* task callers: TaskExecutionContext::execute
    Tool,         \* registered tools
    Gated,        \* the tools the approval rules match
    Unregistered, \* a tool name the registry does not know
    CallId,       \* ids a provider gives its tool calls
    MaxTurns,     \* bound: turns of one conversation
    MaxCalls,     \* bound: tool calls in one response
    MaxRounds,    \* max_tool_rounds
    MaxMessages,  \* max_history
    MaxBytes      \* the history budget

Caller == Chat \cup Task

AgentTurnAssumption ==
    /\ Chat \cap Task = {} /\ Gated \subseteq Tool /\ Unregistered \notin Tool
    /\ \A n \in {MaxTurns, MaxCalls, MaxRounds, MaxMessages, MaxBytes} : n \in Nat

(***************************************************************************)
(* Provider chat histories: which sequences of messages a provider may be  *)
(* sent, and how a history is cut down to its limits.  A message is its    *)
(* role, the ids of the tool calls it makes, the id of the call it answers *)
(* or of the turn it starts, and its estimated size.                       *)
(***************************************************************************)

Message(role, calls, id, size) == [role |-> role, calls |-> calls, id |-> id, size |-> size]

NoId == 0

System == Message("system", <<>>, NoId, 1)
User(id) == Message("user", <<>>, id, 1)
Assistant(calls) == Message("assistant", calls, NoId, 1)
ToolResult(id, size) == Message("tool", <<>>, id, size)

Users(h) == {i \in DOMAIN h : h[i].role = "user"}

\* The turn a history is in starts at its last user message.
ActiveStart(h) == CHOOSE i \in Users(h) : \A j \in Users(h) : j <= i

\* chat_history_estimated_bytes
Bytes(h) == SumFunction([i \in DOMAIN h |-> h[i].size])

\* The ids still to be answered after message i: those of the last message that is
\* not a tool result, less the results that follow it.
PendingIds(h, i) ==
    LET from == CHOOSE j \in 0 .. i : /\ j = 0 \/ h[j].role # "tool"
                                      /\ \A k \in j + 1 .. i : h[k].role = "tool"
    IN  IF from = 0 \/ h[from].calls = <<>> THEN {}
        ELSE Range(h[from].calls) \ {h[k].id : k \in from + 1 .. i}

\* validate_history_protocol, one message at a time.
ValidMessage(h, i) ==
    CASE h[i].role = "system"    -> i = 1
      [] h[i].role = "user"      -> PendingIds(h, i - 1) = {}
      [] h[i].role = "assistant" -> /\ \E j \in 1 .. i - 1 : h[j].role = "user"
                                    /\ PendingIds(h, i - 1) = {}
                                    /\ IsInjective(h[i].calls)
      [] h[i].role = "tool"      -> h[i].id \in PendingIds(h, i - 1)

ValidProtocol(h, complete) ==
    /\ h # <<>> /\ h[1].role = "system"
    /\ \A i \in DOMAIN h : ValidMessage(h, i)
    /\ complete => PendingIds(h, Len(h)) = {}

Fits(h, maxMessages, maxBytes) == Len(h) - 1 <= maxMessages /\ Bytes(h) <= maxBytes

\* validate_chat_history
ValidHistory(h, maxMessages, maxBytes, complete) ==
    Fits(h, maxMessages, maxBytes) /\ ValidProtocol(h, complete)

\* The system message and everything from message i on.
From(h, i) == <<h[1]>> \o SubSeq(h, i, Len(h))

\* enforce_conversation_history_limits: refused when the protocol is broken or the
\* current turn alone is over the limits ...
Enforceable(h, maxMessages, maxBytes) ==
    IF Len(h) < 2 \/ h[1].role # "system"
    THEN ValidHistory(h, maxMessages, maxBytes, FALSE)
    ELSE /\ ValidProtocol(h, FALSE) /\ Users(h) # {}
         /\ Fits(From(h, ActiveStart(h)), maxMessages, maxBytes)

\* ... and otherwise the oldest turns go, each as a whole, until the rest fits.
Enforced(h, maxMessages, maxBytes) ==
    IF Len(h) < 2 THEN h
    ELSE From(h, CHOOSE i \in Users(h) :
                    /\ Fits(From(h, i), maxMessages, maxBytes)
                    /\ \A j \in Users(h) : j < i => ~Fits(From(h, j), maxMessages, maxBytes))

(***************************************************************************)
(* The turns.                                                              *)
(***************************************************************************)
VARIABLES
    hist,     \* hist[c]: the message buffer
    base,     \* base[c]: the rollback snapshot of the active turn
    before,   \* history, before[c]: the buffer when the active turn's message came
    pc,       \* pc[c]: where the loop is
    turns,    \* turns[c]: turns started
    rounds,   \* rounds[c]: tool rounds of the active turn
    calls,    \* calls[c]: calls of the last response still to be made
    dl,       \* dl[c]: the deadline of the dispatch, "default" or "gate"
    verdict,  \* verdict[c]: what the human said of the current call
    granted,  \* tools granted for the rest of the flow
    consent   \* tools a human answered "always" for

loop == <<hist, base, before, turns, rounds, calls>>
vars == <<hist, base, before, pc, turns, rounds, calls, dl, verdict, granted, consent>>

Init ==
    /\ hist = [c \in Caller |-> <<System>>]
    /\ base = [c \in Caller |-> <<System>>]
    /\ before = [c \in Caller |-> <<System>>]
    /\ pc = [c \in Caller |-> "idle"]
    /\ turns = [c \in Caller |-> 0]
    /\ rounds = [c \in Caller |-> 0]
    /\ calls = [c \in Caller |-> <<>>]
    /\ dl = [c \in Caller |-> "default"]
    /\ verdict = [c \in Caller |-> "none"]
    /\ granted = {} /\ consent = {}

-----------------------------------------------------------------------------
(* The loop. *)

\* Mutant of Rollback: the buffer is cut after the active user message.
RollbackByIndex(c) == SubSeq(hist[c], 1, ActiveStart(hist[c]))

\* What an uncommitted turn leaves: the transcript before its user message.
Rollback(c) == base[c]

\* The turn is over without a reply: the guard rolls the buffer back.
Fail(c) ==
    /\ pc' = [pc EXCEPT ![c] = "idle"]
    /\ hist' = [hist EXCEPT ![c] = Rollback(c)]
    /\ calls' = [calls EXCEPT ![c] = <<>>]

\* The limits accept history h, and what is left of it is valid.
Accepts(h) ==
    /\ Enforceable(h, MaxMessages, MaxBytes)
    /\ ValidHistory(Enforced(h, MaxMessages, MaxBytes), MaxMessages, MaxBytes, FALSE)

\* Append messages to a conversation buffer and cut it to its limits, or fail.
Push(c, tail, where) ==
    LET h == hist[c] \o tail IN
    IF Accepts(h)
    THEN /\ hist' = [hist EXCEPT ![c] = Enforced(h, MaxMessages, MaxBytes)]
         /\ pc' = [pc EXCEPT ![c] = where]
    ELSE /\ hist' = [hist EXCEPT ![c] = Rollback(c)]
         /\ pc' = [pc EXCEPT ![c] = "idle"]

\* A caller adds its user message and starts a turn: the snapshot is taken before
\* the limits are enforced.
StartTurn(c) ==
    /\ c \in Chat /\ pc[c] = "idle" /\ turns[c] < MaxTurns
    /\ base' = [base EXCEPT ![c] = hist[c]]
    /\ before' = [before EXCEPT ![c] = hist[c]]
    /\ turns' = [turns EXCEPT ![c] = @ + 1]
    /\ rounds' = [rounds EXCEPT ![c] = 0]
    /\ LET h == Append(hist[c], User(turns'[c])) IN
       IF Accepts(h)
       THEN /\ hist' = [hist EXCEPT ![c] = Enforced(h, MaxMessages, MaxBytes)]
            /\ pc' = [pc EXCEPT ![c] = "asking"]
       ELSE UNCHANGED <<hist, pc>>
    /\ UNCHANGED <<calls, dl, verdict, granted, consent>>

\* The top of the loop: the history is validated as a whole, and sent.
Request(c) ==
    /\ pc[c] = "asking"
    /\ IF ValidHistory(hist[c], MaxMessages, MaxBytes, TRUE)
       THEN pc' = [pc EXCEPT ![c] = "provider"] /\ UNCHANGED <<hist, calls>>
       ELSE Fail(c)
    /\ UNCHANGED <<base, before, turns, rounds, dl, verdict, granted, consent>>

\* The provider's final reply: it is appended and the turn is committed.
Reply(c) ==
    /\ c \in Chat /\ pc[c] = "provider"
    /\ Push(c, <<Assistant(<<>>)>>, "idle")
    /\ UNCHANGED <<base, before, turns, rounds, calls, dl, verdict, granted, consent>>

\* The provider fails or its final reply is blank.
ProviderFails(c) ==
    /\ pc[c] = "provider"
    /\ Fail(c)
    /\ UNCHANGED <<base, before, turns, rounds, dl, verdict, granted, consent>>

\* A response with tool calls: nonempty, of registered and unregistered tools.
Responses ==
    UNION {[1 .. n -> [id : CallId, tool : Tool \cup {Unregistered}]] : n \in 1 .. MaxCalls}

Ids(response) == [i \in DOMAIN response |-> response[i].id]

ToolCalls(c, response) ==
    /\ c \in Chat /\ pc[c] = "provider"
    /\ rounds' = [rounds EXCEPT ![c] = @ + 1]
    /\ IF rounds[c] >= MaxRounds
       THEN Fail(c)
       ELSE /\ Push(c, <<Assistant(Ids(response))>>, "dispatch")
            /\ calls' = [calls EXCEPT ![c] = IF pc'[c] = "idle" THEN <<>> ELSE response]
    /\ UNCHANGED <<base, before, turns, dl, verdict, granted, consent>>

\* The outcome of the first call is appended; the next call or request follows.
After(c) == IF Len(calls[c]) > 1 THEN "dispatch" ELSE "asking"

Result(c, size) ==
    /\ IF c \in Chat
       THEN Push(c, <<ToolResult(Head(calls[c]).id, size)>>, After(c))
       ELSE LET h == Append(hist[c], ToolResult(Head(calls[c]).id, size)) IN
            IF ValidHistory(h, MaxMessages, MaxBytes, FALSE)
            THEN hist' = [hist EXCEPT ![c] = h] /\ pc' = [pc EXCEPT ![c] = After(c)]
            ELSE hist' = [hist EXCEPT ![c] = Rollback(c)] /\ pc' = [pc EXCEPT ![c] = "idle"]
    /\ calls' = [calls EXCEPT ![c] = IF pc'[c] = "idle" THEN <<>> ELSE Tail(@)]
    /\ dl' = [dl EXCEPT ![c] = "default"]
    /\ verdict' = [verdict EXCEPT ![c] = "none"]
    /\ UNCHANGED <<base, before, turns, rounds>>

-----------------------------------------------------------------------------
(* A task builds its history, and fails instead of cutting it. *)

StartTask(c) ==
    /\ c \in Task /\ pc[c] = "idle" /\ turns[c] < MaxTurns
    /\ turns' = [turns EXCEPT ![c] = @ + 1]
    /\ rounds' = [rounds EXCEPT ![c] = 0]
    /\ hist' = [hist EXCEPT ![c] = <<System, User(turns'[c])>>]
    /\ pc' = [pc EXCEPT ![c] = "asking"]
    /\ UNCHANGED <<base, before, calls, dl, verdict, granted, consent>>

TaskReply(c) ==
    /\ c \in Task /\ pc[c] = "provider"
    /\ Fail(c)
    /\ UNCHANGED <<base, before, turns, rounds, dl, verdict, granted, consent>>

TaskToolCalls(c, response) ==
    /\ c \in Task /\ pc[c] = "provider"
    /\ LET h == Append(hist[c], Assistant(Ids(response))) IN
       IF rounds[c] >= MaxRounds \/ ~ValidHistory(h, MaxMessages, MaxBytes, FALSE)
       THEN Fail(c)
       ELSE /\ hist' = [hist EXCEPT ![c] = h]
            /\ calls' = [calls EXCEPT ![c] = response]
            /\ pc' = [pc EXCEPT ![c] = "dispatch"]
    /\ rounds' = [rounds EXCEPT ![c] = @ + 1]
    /\ UNCHANGED <<base, before, turns, dl, verdict, granted, consent>>

-----------------------------------------------------------------------------
(* One call through the registry. *)

Name(c) == Head(calls[c]).tool

\* Arguments that are not JSON never reach the registry.
BadArguments(c) ==
    /\ pc[c] = "dispatch"
    /\ Result(c, 1)
    /\ UNCHANGED <<granted, consent>>

\* gate_dispatch_allowance: a gated call not yet granted may wait for the human.
Allowance(tool) == IF tool \in Gated /\ tool \notin granted THEN "gate" ELSE "default"

\* The deadline is computed first ...
Dispatch(c) ==
    /\ pc[c] = "dispatch"
    /\ dl' = [dl EXCEPT ![c] = Allowance(Name(c))]
    /\ pc' = [pc EXCEPT ![c] = "execute"]
    /\ UNCHANGED <<loop, verdict, granted, consent>>

NeedsHuman(tool) == tool \in Gated /\ tool \notin granted

\* ... then the registry looks the tool up and consults the gate.
Execute(c) ==
    /\ pc[c] = "execute"
    /\ \/ Name(c) = Unregistered /\ Result(c, 1)
       \/ /\ Name(c) # Unregistered
          /\ pc' = [pc EXCEPT ![c] = IF NeedsHuman(Name(c)) THEN "waiting" ELSE "running"]
          /\ UNCHANGED <<loop, dl, verdict>>
    /\ UNCHANGED <<granted, consent>>

\* The question comes back: with one of the allow tokens, with "always", with
\* anything else, with a timeout, with an error, or there is no channel at all.
Allow(c) ==
    /\ pc[c] = "waiting"
    /\ verdict' = [verdict EXCEPT ![c] = "allow"]
    /\ pc' = [pc EXCEPT ![c] = "running"]
    /\ UNCHANGED <<loop, dl, granted, consent>>

AllowAlways(c) ==
    /\ pc[c] = "waiting"
    /\ verdict' = [verdict EXCEPT ![c] = "allow"]
    /\ granted' = granted \cup {Name(c)}
    /\ consent' = consent \cup {Name(c)}
    /\ pc' = [pc EXCEPT ![c] = "running"]
    /\ UNCHANGED <<loop, dl>>

\* Mutant of Deny: a denied call is asked for again.
DenyReask(c) ==
    /\ pc[c] = "waiting"
    /\ pc' = [pc EXCEPT ![c] = "execute"]
    /\ UNCHANGED <<loop, dl, verdict, granted, consent>>

Deny(c) ==
    /\ pc[c] = "waiting"
    /\ Result(c, 1)
    /\ UNCHANGED <<granted, consent>>

\* The tool returns, or fails; its text is of some size.
ToolReturns(c, size) ==
    /\ pc[c] = "running"
    /\ Result(c, size)
    /\ UNCHANGED <<granted, consent>>

\* The dispatch timer drops the call.  With the gate's allowance it is longer than
\* the question's own timeout, so it never fires while the question is open.
DispatchTimeout(c) ==
    /\ pc[c] \in {"running", "waiting"}
    /\ pc[c] = "waiting" => dl[c] = "default"
    /\ Result(c, 1)
    /\ UNCHANGED <<granted, consent>>

\* The turn's future is dropped at an await: a timeout around it, or a shutdown.
Cancel(c) ==
    /\ pc[c] \in {"provider", "waiting", "running"}
    /\ Fail(c)
    /\ UNCHANGED <<base, before, turns, rounds>>
    /\ dl' = [dl EXCEPT ![c] = "default"]
    /\ verdict' = [verdict EXCEPT ![c] = "none"]
    /\ UNCHANGED <<granted, consent>>

Step(c) ==
    \/ \E response \in Responses : ToolCalls(c, response) \/ TaskToolCalls(c, response)
    \/ Request(c) \/ Reply(c) \/ TaskReply(c) \/ ProviderFails(c)
    \/ BadArguments(c) \/ Dispatch(c) \/ Execute(c)
    \/ Allow(c) \/ AllowAlways(c) \/ Deny(c)
    \/ \E size \in 1 .. 2 : ToolReturns(c, size)
    \/ DispatchTimeout(c)

Next == \E c \in Caller : StartTurn(c) \/ StartTask(c) \/ Step(c) \/ Cancel(c)

Spec == Init /\ [][Next]_vars

-----------------------------------------------------------------------------
\* Whatever was trimmed, rejected, timed out or dropped on the way, the buffer is a
\* complete history at rest and at the top of the loop - no tool result without
\* its call, no call without its result, no reply without a turn - so the check
\* there never fails a turn whose tools have already run.
ProviderSeesWholeTurns ==
    \A c \in Caller : pc[c] \in {"idle", "asking"} =>
        ValidHistory(hist[c], MaxMessages, MaxBytes, TRUE)

\* The reply to the turn's own message ends the buffer, after the newest of the turns
\* that were there before, each whole.
Committed(c, h) ==
    LET u == ActiveStart(h)
        kept == SubSeq(h, 2, u - 1)
    IN  /\ pc[c] = "provider" /\ h[Len(h)] = Assistant(<<>>) /\ h[u] = User(turns[c])
        /\ kept = <<>> \/ (kept[1].role = "user" /\ IsSuffix(kept, before[c]))

\* A turn ends with its reply, or leaves the buffer exactly as it was before the user
\* message, older turns that the limits had evicted meanwhile included.
UncommittedLeavesNothing ==
    \A c \in Chat : pc[c] # "idle" /\ pc'[c] = "idle" =>
        hist'[c] = before[c] \/ Committed(c, hist'[c])

\* A gated tool runs only after a human allowed this very call, or answered
\* "always" for this very tool; every other outcome of the question denies.
GatedRunsWithConsent ==
    \A c \in Caller : pc[c] = "running" /\ Name(c) \in Gated =>
        verdict[c] = "allow" \/ Name(c) \in consent

\* The generic tool timeout never cuts an approval wait short, whichever grants
\* other agents obtain between computing the deadline and asking.
WaitHasAllowance == \A c \in Caller : pc[c] = "waiting" => dl[c] = "gate"

\* Every turn ends.
TurnEnds == \A c \in Caller : pc[c] = "asking" ~> pc[c] = "idle"

=============================================================================
