------------------------------- MODULE EventBus -------------------------------
(***************************************************************************)
(* The process-local side of the event bus (src/engine/eventbus.rs) and    *)
(* the SSE streams that read it: run streams of the JSON and SQLite stores *)
(* (src/api/handlers.rs) and conversation streams                          *)
(* (src/api/conversations/events.rs).                                      *)
(*                                                                         *)
(* Events are numbered in the order of their emission.  The bus keeps a    *)
(* replay history bounded by count and bytes, and a broadcast ring of the  *)
(* last Ring events; a receiver that falls behind the ring is told how     *)
(* many events it missed.                                                  *)
(***************************************************************************)
EXTENDS Integers, Sequences, FiniteSets, Functions

CONSTANTS RunStreams, ConversationStreams,
          MaxReplay, MaxReplayBytes,     \* replay history
          Ring,                          \* broadcast channel capacity
          Sizes,                         \* serialized sizes an event can have
          MaxEventBytes,                 \* IRONCREW_EVENT_MAX_BYTES
          MaxSse,                        \* SSE permits
          MaxEmits                       \* bound: events emitted

Streams == RunStreams \cup ConversationStreams

BusLimits ==
    /\ {MaxReplay, MaxReplayBytes, Ring, MaxEventBytes, MaxSse} \subseteq Nat \ {0}
    /\ Sizes \subseteq Nat \ {0}

VARIABLES
    sent,      \* sizes of the events emitted so far, by number
    last,      \* the number of RunComplete, 0 before it
    history,   \* replay: the numbers of the events kept, oldest first
    bytes,     \* current_bytes
    open,      \* whether a handle to the bus is left
    permits,   \* free SSE permits
    stream     \* the SSE streams

vars == <<sent, last, history, bytes, open, permits, stream>>

NewStream == [pc |-> "off", replay |-> <<>>, next |-> 1, from |-> 1, got |-> {}, missed |-> 0]

Init ==
    /\ sent = <<>>
    /\ last = 0
    /\ history = <<>>
    /\ bytes = 0
    /\ open = TRUE
    /\ permits = MaxSse
    /\ stream = [s \in Streams |-> NewStream]

-------------------------------------------------------------------------------

\* bound_event: fields are truncated to a third of the limit, and an event that is still
\* too large is replaced by a small warning.
BoundEvent(size) == IF size <= MaxEventBytes THEN size ELSE MaxEventBytes \div 3 + 1

\* The serialized bytes of the events of h.
SizeOf(h) == SumFunctionOnSet(sent, Range(h))

\* The condition that ends the pop_front loop of emit, after k events were popped.
Fits(h, b, size, k) ==
    /\ Len(h) - k < MaxReplay
    /\ b - SizeOf(SubSeq(h, 1, k)) + size <= MaxReplayBytes

\* The loop: how many events it pops, the fewest that make room.
Evict(h, b, size) ==
    CHOOSE k \in 0..Len(h) : Fits(h, b, size, k) /\ \A j \in 0..(k - 1) : ~Fits(h, b, size, j)

\* EventBus::emit and the publication of emit_terminal: history and broadcast change
\* together under the replay lock.
Emit(raw, terminal) ==
    LET size == BoundEvent(raw)
        n    == Len(sent) + 1
        k    == Evict(history, bytes, size)
    IN  /\ open
        /\ n <= MaxEmits
        /\ terminal => last = 0
        /\ sent' = Append(sent, size)
        /\ last' = IF terminal THEN n ELSE last
        /\ IF size <= MaxReplayBytes
           THEN /\ history' = Append(SubSeq(history, k + 1, Len(history)), n)
                /\ bytes' = bytes - SizeOf(SubSeq(history, 1, k)) + size
           ELSE UNCHANGED <<history, bytes>>
        /\ UNCHANGED <<open, permits, stream>>

\* The last handle goes: the tombstone's retention ended, or the conversation was evicted.
DropBus ==
    /\ open
    /\ open' = FALSE
    /\ UNCHANGED <<sent, last, history, bytes, permits, stream>>

-------------------------------------------------------------------------------

\* Mutant: the receiver is created after the lock is released, one event later.
SubscribeLate == Len(sent) + 2

\* subscribe_with_replay: the receiver starts at the event after the snapshot.
Subscribe == Len(sent) + 1

\* The handler takes a permit and subscribes; without a permit it answers 429, and without
\* an active bus 404 (both leave the stream off).
Connect(s) ==
    /\ stream[s].pc = "off"
    /\ open
    /\ permits > 0
    /\ permits' = permits - 1
    /\ stream' = [stream EXCEPT ![s] =
         [pc |-> "replay", replay |-> history, next |-> Subscribe,
          from |-> Subscribe, got |-> {}, missed |-> 0]]
    /\ UNCHANGED <<sent, last, history, bytes, open>>

Close(k) == [k EXCEPT !.pc = "closed", !.replay = <<>>]

\* Replay: a run stream that meets RunComplete ends there.
Replay(s) ==
    LET k == stream[s]
    IN  /\ k.pc = "replay"
        /\ IF k.replay = <<>>
           THEN stream' = [stream EXCEPT ![s].pc = "live"] /\ UNCHANGED permits
           ELSE LET n   == Head(k.replay)
                    end == s \in RunStreams /\ n = last
                    k2  == [k EXCEPT !.replay = Tail(@), !.got = @ \cup {n}]
                IN  /\ stream' = [stream EXCEPT ![s] = IF end THEN Close(k2) ELSE k2]
                    /\ permits' = IF end THEN permits + 1 ELSE permits
        /\ UNCHANGED <<sent, last, history, bytes, open>>

\* The oldest event still in the ring.
Tail0 == IF Len(sent) > Ring THEN Len(sent) - Ring + 1 ELSE 1

Receive(s) ==
    LET k   == stream[s]
        end == s \in RunStreams /\ k.next = last
        k2  == [k EXCEPT !.got = @ \cup {k.next}, !.next = @ + 1]
    IN  /\ k.pc = "live"
        /\ k.next >= Tail0 /\ k.next <= Len(sent)
        /\ stream' = [stream EXCEPT ![s] = IF end THEN Close(k2) ELSE k2]
        /\ permits' = IF end THEN permits + 1 ELSE permits
        /\ UNCHANGED <<sent, last, history, bytes, open>>

\* RecvError::Lagged(n): the receiver moves to the oldest event it can still have.
Lag(k) == [k EXCEPT !.missed = @ + (Tail0 - k.next), !.next = Tail0]

\* A run stream goes on after the warning, a conversation stream ends with a gap event.
Lagged(s) ==
    LET k   == stream[s]
        end == s \in ConversationStreams
    IN  /\ k.pc = "live"
        /\ k.next < Tail0
        /\ stream' = [stream EXCEPT ![s] = IF end THEN Close(Lag(k)) ELSE Lag(k)]
        /\ permits' = IF end THEN permits + 1 ELSE permits
        /\ UNCHANGED <<sent, last, history, bytes, open>>

ReturnPermit == permits' = permits + 1

\* RecvError::Closed, once everything in the ring was received.
BusClosed(s) ==
    /\ stream[s].pc = "live"
    /\ ~open
    /\ stream[s].next = Len(sent) + 1
    /\ stream' = [stream EXCEPT ![s] = Close(@)]
    /\ ReturnPermit
    /\ UNCHANGED <<sent, last, history, bytes, open>>

\* The client goes away and the body is dropped with its permit; it may connect again.
Disconnect(s) ==
    /\ stream[s].pc \in {"replay", "live"}
    /\ stream' = [stream EXCEPT ![s] = NewStream]
    /\ ReturnPermit
    /\ UNCHANGED <<sent, last, history, bytes, open>>

StreamStep(s) == Replay(s) \/ Receive(s) \/ Lagged(s) \/ BusClosed(s)

Next ==
    \/ \E size \in Sizes, terminal \in BOOLEAN : Emit(size, terminal)
    \/ DropBus
    \/ \E s \in Streams : Connect(s) \/ StreamStep(s) \/ Disconnect(s)

Spec == Init /\ [][Next]_vars

-------------------------------------------------------------------------------

TypeOK ==
    /\ permits \in 0..MaxSse
    /\ \A s \in Streams : stream[s].pc \in {"off", "replay", "live", "closed"}
    /\ last \in 0..Len(sent)

\* Both replay bounds hold after every emission, and the running byte count is the sum of
\* what is kept (IRONCREW_MAX_EVENTS, IRONCREW_EVENT_REPLAY_MAX_BYTES).
ReplayWithinBudget ==
    /\ Len(history) <= MaxReplay
    /\ bytes = SizeOf(history)
    /\ bytes <= MaxReplayBytes

\* The snapshot and the receiver meet without a hole and without an overlap: every event a
\* live stream has passed since it subscribed was delivered or counted in a warning, and
\* what it was given before that is the replayed part only.
NothingLostUncounted ==
    \A s \in Streams :
        LET k    == stream[s]
            live == {n \in k.got : n >= k.from}
        IN  k.pc \in {"replay", "live"} =>
              /\ Cardinality(live) + k.missed = k.next - k.from
              /\ k.got \subseteq 1..(k.next - 1)

\* A stream that subscribed late misses nothing the history still held: after its replay
\* it has every event of the history it was given.
ReplayThenLive ==
    \A s \in Streams :
        stream[s].pc \in {"replay", "live"} =>
            \A n \in 1..Len(sent) :
                n < stream[s].from /\ n \in Range(history)
                  => n \in stream[s].got \/ n \in Range(stream[s].replay)

\* Permits are exactly the ones not held by a stream, so the connection limit is neither
\* exceeded nor eaten up by streams that ended.
PermitsExact ==
    permits + Cardinality({s \in Streams : stream[s].pc \in {"replay", "live"}}) = MaxSse

\* A subscriber gets the replay and then the live events without a seam, lags are
\* counted, the replay keeps its budget and stream permits come back (eventbus.rs).
EventBusSound ==
    /\ TypeOK /\ ReplayWithinBudget
    /\ NothingLostUncounted /\ ReplayThenLive
    /\ PermitsExact

\* Every stream ends once the bus is gone, even if RunComplete was pushed out of the ring.
StreamsEnd ==
    \A s \in Streams : (~open /\ stream[s].pc \in {"replay", "live"}) ~> (stream[s].pc \in {"closed", "off"})
===============================================================================
