------------------------------- MODULE RunEvents -------------------------------
(***************************************************************************)
(* A run's events on their way to a remote SSE client: the durable         *)
(* producer behind the event bus and its writer task                       *)
(* (src/engine/eventbus.rs), the run monitor that flushes the queue before *)
(* the terminal record and publishes run_complete after it                 *)
(* (src/api/handlers.rs), the journal, and the SSE handler that pages      *)
(* through it for a client that may disconnect at any event and come back  *)
(* with Last-Event-ID.                                                     *)
(***************************************************************************)
EXTENDS Naturals, Sequences, FiniteSets, FiniteSetsExt, SequencesExt

CONSTANTS MaxPerRun,      \* max_events_per_run / max_bytes_per_run
          MaxTotal,       \* max_total_events / max_total_bytes
          PruneBatch,     \* prune_batch
          MaxEvict,       \* MAX_EVICTED_RUN_EVENTS_PER_APPEND
          PageMax         \* page_max_events

CONSTANTS Clients,        \* SSE clients of the run
          QueueMax,       \* channel capacity
          ByteSlots,      \* byte permits: one per event queued or being written
          BatchMax,       \* events per append
          BatchBytes,     \* bytes per append
          MaxAttempts,    \* APPEND_MAX_ATTEMPTS
          MaxReadFails,   \* consecutive failed reads that close a stream
          MaxEmits,       \* bound: events emitted
          MaxOthers,      \* bound: appends of other runs
          MaxFaults,      \* bound: failed or timed-out appends and reads
          MaxDrops        \* bound: disconnects

ProducerLimits ==
    {QueueMax, ByteSlots, BatchMax, BatchBytes, MaxAttempts, MaxReadFails} \subseteq Nat \ {0}

(***************************************************************************)
(* The bounded run-event journal of the PostgreSQL store                   *)
(* (src/engine/postgres_store/run_events): what one append transaction,    *)
(* one pruning pass and one page read do to the journal of one run.        *)
(* Every transaction holds the accounting row FOR UPDATE, so each operator *)
(* below is a function of the journal it finds.                            *)
(*                                                                         *)
(* A row is [seq, at, final]: its sequence, the append transaction that    *)
(* wrote it (the order of created_at; all rows of a batch share it) and    *)
(* whether it is run_complete.  Retention is a constant added to           *)
(* created_at, so the expired rows are those with at <= horizon.  `others' *)
(* are the rows of other runs, which share the global budget.  Every event *)
(* weighs one unit of the byte budgets.                                    *)
(***************************************************************************)

\* RunEventJournalConfig::validate, the constraints between the limits.
JournalLimits ==
    /\ {MaxPerRun, MaxTotal, PruneBatch, MaxEvict, PageMax} \subseteq Nat \ {0}
    /\ MaxPerRun <= MaxTotal
    /\ PageMax <= MaxPerRun
    /\ PruneBatch <= MaxTotal

Seqs(S) == {r.seq : r \in S}

NoGap == [first |-> 0, last |-> 0, reason |-> "none"]

\* The state row as initialize_run_event_state inserts it.
EmptyState ==
    [latest |-> 0, dropped |-> 0, complete |-> TRUE, reason |-> "none", terminal |-> 0]

EmptyJournal == [state |-> EmptyState, rows |-> {}, others |-> {}]

\* The first n rows of S in the order (created_at, run_id, sequence).
Oldest(S, n) ==
    LET Before(a, b) == a.at < b.at \/ (a.at = b.at /\ a.seq < b.seq)
    IN  {r \in S : Cardinality({x \in S : Before(x, r)}) < n}

-------------------------------------------------------------------------------
(* Deleting rows.                                                          *)

\* delete_run_event_candidates for one run: rows `gone' leave, `left' stay.
AfterDelete(state, left, gone, reason) ==
    LET dropped == IF left = {} THEN state.latest
                   ELSE Max({state.dropped, Min(Seqs(left)) - 1})
    IN  [state EXCEPT
           !.dropped  = dropped,
           !.reason   = IF dropped > state.dropped THEN reason ELSE @,
           !.complete = @ /\ Max(Seqs(gone)) <= dropped]

Delete(J, victims, reason) ==
    LET gone == J.rows \cap victims
        left == J.rows \ victims
    IN  [state  |-> IF gone = {} THEN J.state ELSE AfterDelete(J.state, left, gone, reason),
         rows   |-> left,
         others |-> J.others \ victims]

\* prune_expired_run_events: at most one batch of the oldest expired rows.
PruneExpired(J, horizon) ==
    Delete(J, Oldest({r \in J.rows \cup J.others : r.at <= horizon}, PruneBatch), "retention")

\* evict_run_event_capacity
EvictPerRun(J, n) == Delete(J, Oldest(J.rows, n), "writer_backpressure")

\* evict_global_run_event_capacity
EvictGlobal(J, n) == Delete(J, Oldest(J.rows \cup J.others, n), "global_capacity")

Excess(n, limit) == IF n > limit THEN n - limit ELSE 0

-------------------------------------------------------------------------------
(* Appending.  A batch is a sequence of [seq, final].                      *)

\* partition_new_run_event_entries: an entry at or below latest_sequence is a duplicate
\* if its row is still there, and a conflict otherwise.
IsDuplicate(J, e)  == e.seq \in Seqs(J.rows)
WasAllocated(J, e) == e.seq <= J.state.latest /\ ~IsDuplicate(J, e)
NewEntries(J, batch) == SelectSeq(batch, LAMBDA e : ~IsDuplicate(J, e))

\* validate_new_run_event_entries
Accepts(J, run, new) ==
    \/ new = <<>>
    \/ /\ J.state.terminal = 0
       /\ \/ /\ run.status = "running"
             /\ run.leased
             /\ \A i \in DOMAIN new : ~new[i].final
          \/ /\ run.status = "success"
             /\ Len(new) = 1
             /\ new[1].final

\* update_run_event_state_after_append
AfterInsert(state, new) ==
    LET expected(i) == IF i = 1 THEN state.latest + 1 ELSE new[i - 1].seq + 1
    IN  [state EXCEPT
           !.latest   = new[Len(new)].seq,
           !.complete = @ /\ \A i \in DOMAIN new : new[i].seq = expected(i),
           !.terminal = IF \E i \in DOMAIN new : new[i].final THEN new[Len(new)].seq ELSE @]

\* persist_run_event_append, after both evictions.
Insert(J, new, at) ==
    [J EXCEPT !.rows  = @ \cup {[seq |-> new[i].seq, at |-> at, final |-> new[i].final] :
                                 i \in DOMAIN new},
              !.state = AfterInsert(@, new)]

\* append_run_event_journal: "ok", "conflict" (not retried) or "missing" (the run row is
\* not visible yet, retried), with the journal the transaction leaves.
AppendBatch(J, run, batch, at, horizon) ==
    LET pruned == PruneExpired(J, horizon)
        new    == NewEntries(pruned, batch)
        own    == Excess(Cardinality(pruned.rows) + Len(new), MaxPerRun)
        freed  == EvictPerRun(pruned, own)
        global == Excess(Cardinality(freed.rows) + Cardinality(freed.others) + Len(new), MaxTotal)
        room   == EvictGlobal(freed, global)
    IN  CASE run.status = "absent" -> [res |-> "missing", J |-> J]
          [] run.status # "absent" /\
             (\/ \E i \in DOMAIN batch : WasAllocated(pruned, batch[i])
              \/ ~Accepts(pruned, run, new)
              \/ new # <<>> /\ (own > MaxEvict \/ global > MaxEvict)) ->
               [res |-> "conflict", J |-> J]
          [] OTHER -> [res |-> "ok", J |-> IF new = <<>> THEN pruned ELSE Insert(room, new, at)]

\* An append of another run: the same transaction, seen from this one.
OtherAppend(J, at, horizon) ==
    LET pruned == PruneExpired(J, horizon)
        over   == Excess(Cardinality(pruned.rows) + Cardinality(pruned.others) + 1, MaxTotal)
    IN  IF over > MaxEvict THEN J
        ELSE LET room == EvictGlobal(pruned, over)
             IN  [room EXCEPT !.others = @ \cup {[seq |-> at, at |-> at, final |-> FALSE]}]

-------------------------------------------------------------------------------
(* Reading one page after a cursor.                                        *)

\* The bounds read_run_events_journal reports: logical retention hides expired rows at
\* once, whether or not they have been pruned.
Bounds(J, horizon) ==
    LET live     == {r \in J.rows : r.at > horizon}
        expired  == J.rows \ live
        boundary == CASE expired = {} -> J.state.dropped
                      [] expired # {} /\ live = {} -> Max(Seqs(expired))
                      [] OTHER -> Min({Max(Seqs(expired)), Min(Seqs(live)) - 1})
        dropped  == Max({J.state.dropped, boundary})
    IN  [live     |-> live,
         latest   |-> J.state.latest,
         dropped  |-> dropped,
         reason   |-> IF dropped > J.state.dropped THEN "retention" ELSE J.state.reason,
         complete |-> J.state.complete]

\* The part of the rows found that continues the cursor without a hole.
ContiguousPrefix(found, after) == {r \in found : (after + 1)..r.seq \subseteq Seqs(found)}

\* read_run_events_journal
Page(J, run, after, horizon) ==
    LET b      == Bounds(J, horizon)
        wanted == {r \in b.live : r.seq > after /\ r.seq > b.dropped}
        found  == {r \in wanted : Cardinality({x \in wanted : x.seq < r.seq}) < PageMax}
        prefix == ContiguousPrefix(found, after)
        gap    == CASE after < b.dropped ->
                         [first |-> after + 1, last |-> b.dropped, reason |-> b.reason]
                    [] after >= b.dropped /\ prefix = {} /\ found # {} ->
                         [first |-> after + 1, last |-> Min(Seqs(found)) - 1,
                          reason |-> "writer_backpressure"]
                    [] after >= b.dropped /\ found = {} /\ after < b.latest ->
                         [first |-> after + 1, last |-> b.latest, reason |-> "writer_backpressure"]
                    [] OTHER -> NoGap
    IN  [after    |-> after,
         events   |-> IF gap = NoGap THEN prefix ELSE {},
         gap      |-> gap,
         latest   |-> b.latest,
         dropped  |-> b.dropped,
         earliest |-> IF b.live = {} THEN 0 ELSE Min(Seqs(b.live)),
         ended    |-> run.status \in {"success", "abandoned"},
         terminal |-> J.state.terminal]

\* RunEventBounds::validate and RunEventPage::validate: a page that fails is an error.
ValidPage(p) ==
    /\ p.dropped <= p.latest
    /\ p.earliest # 0 => p.dropped < p.earliest /\ p.earliest <= p.latest
    /\ p.after <= p.latest
    /\ Cardinality(p.events) <= PageMax
    /\ Seqs(p.events) = (p.after + 1)..(p.after + Cardinality(p.events))
    /\ \A e \in p.events : e.seq <= p.latest
    /\ p.gap # NoGap =>
         /\ p.events = {}
         /\ p.gap.first = p.after + 1
         /\ p.gap.first <= p.gap.last
         /\ p.gap.last <= p.latest
         /\ p.gap.reason # "none"
    /\ p.events = {} /\ p.gap = NoGap => p.after = p.latest
    /\ p.terminal <= p.latest

-------------------------------------------------------------------------------
(***************************************************************************)
(* The producer, the monitor and the SSE clients.                          *)
(***************************************************************************)
VARIABLES
    bus,      \* DurableSequenceState: next, sealed, flushing; and the sequences accepted
    queue,    \* the channel: events [kind, seq, final] and flush commands
    writer,   \* durable_event_writer: pc, carried, batch, tries, failed
    monitor,  \* the run monitor: pc, and the answers to its flush and terminal event
    run,      \* the run record: status and whether its lease is live
    journal,  \* the journal of the run, with the rows of others
    stamp,    \* append transactions so far
    horizon,  \* rows with at <= horizon are past their retention
    stored,   \* history: sequences ever committed
    client,   \* SSE streams
    faults, others, drops   \* counters of the bounds

vars == <<bus, queue, writer, monitor, run, journal, stamp, horizon, stored, client,
          faults, others, drops>>

pipe == <<bus, queue, writer, monitor>>
store == <<run, journal, stamp, horizon, stored>>
bounds == <<faults, others, drops>>

Ev(n, final) == [kind |-> "event", seq |-> n, final |-> final]
FlushCommand == [kind |-> "flush", seq |-> 0, final |-> FALSE]

Idle == [pc |-> "idle", carried |-> <<>>, batch |-> <<>>, tries |-> 0, failed |-> FALSE]

\* What the stream remembers of the page it is yielding.
NoPage == [latest |-> 0, ended |-> FALSE, terminal |-> 0]

NewClient ==
    [pc |-> "off", after |-> 0, ack |-> 0, todo |-> <<>>, page |-> NoPage,
     fails |-> 0, last |-> 0, seen |-> {}, gapped |-> {}, ending |-> "none"]

Init ==
    /\ bus = [next |-> 1, sealed |-> FALSE, flushing |-> FALSE, accepted |-> {}]
    /\ queue = <<>>
    /\ writer = Idle
    /\ monitor = [pc |-> "working", flushed |-> "none", before |-> {}, ended |-> "none"]
    /\ run = [status |-> "absent", leased |-> TRUE]
    /\ journal = EmptyJournal
    /\ stamp = 0
    /\ horizon = 0
    /\ stored = {}
    /\ client = [c \in Clients |-> NewClient]
    /\ faults = 0 /\ others = 0 /\ drops = 0

-------------------------------------------------------------------------------
(* The producer.  Each of these runs under the replay lock.                *)

\* Permits are held from enqueue until the batch that carried the event is answered.
BytesHeld ==
    LET Events(s) == Len(SelectSeq(s, LAMBDA c : c.kind = "event"))
    IN  Events(queue) + Events(writer.carried) + Len(writer.batch)

Listening == writer.pc # "stopped"

\* DurableProducer::enqueue.  `fits' is FALSE when the event fails to serialise or exceeds
\* max_event_bytes; every refusal after the sequence was allocated leaves a gap.
Enqueue(fits) ==
    IF bus.sealed THEN UNCHANGED <<bus, queue>>
    ELSE LET accept == /\ fits
                       /\ ~bus.flushing
                       /\ BytesHeld < ByteSlots
                       /\ Listening
                       /\ Len(queue) < QueueMax
         IN  /\ bus' = [bus EXCEPT !.next = @ + 1,
                                   !.accepted = IF accept THEN @ \cup {bus.next} ELSE @]
             /\ queue' = IF accept THEN Append(queue, Ev(bus.next, FALSE)) ELSE queue

\* EventBus::emit by any clone of the bus: the worker, or a task that outlives it.
Emit(fits) ==
    /\ monitor.pc # "dead"
    /\ bus.next <= MaxEmits
    /\ Enqueue(fits)
    /\ UNCHANGED <<writer, monitor, store, client, bounds>>

-------------------------------------------------------------------------------
(* The writer task.                                                        *)

\* The flush command is answered by whether any batch so far was lost.
FlushAnswer == IF writer.failed THEN "failed" ELSE "persisted"

\* The events taken into one batch: until BatchMax, the byte budget or a flush command.
BatchLen(input) ==
    LET limit == Min({BatchMax, BatchBytes, Len(input)})
        flush == {i \in 1..limit : input[i].kind = "flush"}
    IN  IF flush = {} THEN limit ELSE Min(flush) - 1

\* The next command: a flush is answered at once; an event opens a batch.  The command
\* that ends the batch early is carried to the next round.
TakeCommand ==
    LET input == writer.carried \o queue
        n     == BatchLen(input)
        stop  == n < BatchMax /\ n < Len(input)
    IN  /\ writer.pc = "idle"
        /\ input # <<>>
        /\ IF input[1].kind = "flush"
           THEN /\ writer' = [writer EXCEPT !.carried = <<>>]
                /\ queue' = Tail(input)
                /\ monitor' = IF monitor.pc = "flush_ack"
                              THEN [monitor EXCEPT !.flushed = FlushAnswer]
                              ELSE monitor
           ELSE /\ writer' = [writer EXCEPT !.pc = "append", !.tries = 1,
                                            !.batch = SubSeq(input, 1, n),
                                            !.carried = IF stop THEN <<input[n + 1]>> ELSE <<>>]
                /\ queue' = SubSeq(input, IF stop THEN n + 2 ELSE n + 1, Len(input))
                /\ UNCHANGED monitor
        /\ UNCHANGED <<bus, store, client, bounds>>

HasFinal(batch) == \E i \in DOMAIN batch : batch[i].final

\* writer_failed after one more batch.
WriterFailed(ok) == writer.failed \/ ~ok

\* The batch is answered: permits return, the terminal event is acknowledged, and the
\* writer ends after the batch that held it.
Settle(ok) ==
    LET final == HasFinal(writer.batch)
    IN  /\ writer' = [writer EXCEPT !.batch = <<>>, !.tries = 0,
                                    !.failed = WriterFailed(ok),
                                    !.pc = IF final THEN "stopped" ELSE "idle",
                                    !.carried = IF final THEN <<>> ELSE @]
        /\ queue' = IF final THEN <<>> ELSE queue
        /\ monitor' = IF final /\ monitor.pc = "term_ack"
                      THEN [monitor EXCEPT !.ended = IF ok THEN "persisted" ELSE "failed"]
                      ELSE monitor

TryAgain ==
    /\ writer' = [writer EXCEPT !.tries = @ + 1]
    /\ UNCHANGED <<queue, monitor>>

Attempt == AppendBatch(journal, run, writer.batch, stamp + 1, horizon)

Commit(a) ==
    /\ journal' = a.J
    /\ stamp' = stamp + 1
    /\ stored' = stored \cup Seqs({writer.batch[i] : i \in DOMAIN writer.batch})
    /\ UNCHANGED <<run, horizon>>

\* One attempt of append_durable_batch_with_retries that hears the store's answer.
Write ==
    LET a == Attempt
    IN  /\ writer.pc = "append"
        /\ CASE a.res = "ok"       -> Commit(a) /\ Settle(TRUE)
             [] a.res = "conflict" -> Settle(FALSE) /\ UNCHANGED store
             [] OTHER              -> /\ IF writer.tries < MaxAttempts THEN TryAgain
                                         ELSE Settle(FALSE)
                                      /\ UNCHANGED store
        /\ UNCHANGED <<bus, client, bounds>>

\* One that does not: the pool, the transport or the deadline fails, and the transaction
\* may have committed all the same.
WriteLost ==
    /\ writer.pc = "append"
    /\ faults < MaxFaults
    /\ faults' = faults + 1
    /\ \/ Attempt.res = "ok" /\ Commit(Attempt)
       \/ UNCHANGED store
    /\ IF writer.tries < MaxAttempts THEN TryAgain ELSE Settle(FALSE)
    /\ UNCHANGED <<bus, client, others, drops>>

-------------------------------------------------------------------------------
(* The run monitor.                                                        *)

\* The worker ended: flush_durable reserves the barrier.
ReserveFlush ==
    /\ monitor.pc = "working"
    /\ run.status # "absent"
    /\ monitor' = [monitor EXCEPT !.pc = "flush_slot"]
    /\ bus' = [bus EXCEPT !.flushing = TRUE]
    /\ UNCHANGED <<queue, writer, store, client, bounds>>

\* FlushBarrierGuard: released when the command is in the channel, or on any way out.
ReleaseBarrier == bus' = [bus EXCEPT !.flushing = FALSE]

SendFlush ==
    /\ monitor.pc = "flush_slot"
    /\ Listening /\ Len(queue) < QueueMax
    /\ queue' = Append(queue, FlushCommand)
    /\ monitor' = [monitor EXCEPT !.pc = "flush_ack", !.before = bus.accepted]
    /\ ReleaseBarrier
    /\ UNCHANGED <<writer, store, client, bounds>>

\* The answer arrives, or the one deadline of both waits passes.
FlushReturns ==
    /\ \/ /\ monitor.pc = "flush_slot"
          /\ monitor' = [monitor EXCEPT !.pc = "record", !.flushed = "timed_out"]
          /\ ReleaseBarrier
       \/ /\ monitor.pc = "flush_ack"
          /\ monitor' = [monitor EXCEPT !.pc = "record",
                                        !.flushed = IF @ = "none" THEN "timed_out" ELSE @]
          /\ UNCHANGED bus
    /\ UNCHANGED <<queue, writer, store, client, bounds>>

\* The terminal record: written if the run is still this owner's, or found terminal.
RecordTerminal ==
    /\ monitor.pc = "record"
    /\ run' = IF run.status = "running" /\ run.leased THEN [run EXCEPT !.status = "success"] ELSE run
    /\ monitor' = [monitor EXCEPT !.pc = "publish"]
    /\ UNCHANGED <<bus, queue, writer, journal, stamp, horizon, stored, client, bounds>>

\* DurableProducer::reserve_terminal: seals the stream and takes the last sequence.
SealTerminal ==
    bus' = [bus EXCEPT !.sealed = TRUE, !.next = IF bus.flushing \/ bus.sealed THEN @ ELSE @ + 1]

\* emit_terminal, if the record can be read and is terminal; the event may fail to
\* serialise, which leaves the stream sealed without it.
PublishTerminal ==
    /\ monitor.pc = "publish"
    /\ \/ /\ run.status \in {"success", "abandoned"}
          /\ SealTerminal
          /\ \/ ~bus.sealed /\ ~bus.flushing /\ monitor' = [monitor EXCEPT !.pc = "term_slot"]
             \/ monitor' = [monitor EXCEPT !.pc = "end", !.ended = "dropped"]
       \/ monitor' = [monitor EXCEPT !.pc = "end", !.ended = "failed"] /\ UNCHANGED bus
    /\ UNCHANGED <<queue, writer, store, client, bounds>>

\* DurableProducer::enqueue_terminal waits for a byte permit and then for a slot.
SendTerminal ==
    /\ monitor.pc = "term_slot"
    /\ BytesHeld < ByteSlots
    /\ Listening /\ Len(queue) < QueueMax
    /\ queue' = Append(queue, Ev(bus.next - 1, TRUE))
    /\ monitor' = [monitor EXCEPT !.pc = "term_ack"]
    /\ UNCHANGED <<bus, writer, store, client, bounds>>

TerminalReturns ==
    /\ monitor.pc \in {"term_slot", "term_ack"}
    /\ monitor' = [monitor EXCEPT !.pc = "end", !.ended = IF @ = "none" THEN "timed_out" ELSE @]
    /\ UNCHANGED <<bus, queue, writer, store, client, bounds>>

-------------------------------------------------------------------------------
(* The store around the journal.                                           *)

\* The run-intent row becomes visible.
RunIntent ==
    /\ run.status = "absent"
    /\ run' = [run EXCEPT !.status = "running"]
    /\ UNCHANGED <<pipe, journal, stamp, horizon, stored, client, bounds>>

\* The owner stops heartbeating: a process that dies takes its queue with it.
Crash ==
    /\ monitor.pc \notin {"dead", "end"}
    /\ run.status # "absent"
    /\ monitor' = [monitor EXCEPT !.pc = "dead"]
    /\ writer' = [Idle EXCEPT !.pc = "stopped"]
    /\ queue' = <<>>
    /\ bus' = [bus EXCEPT !.sealed = TRUE]
    /\ UNCHANGED <<store, client, bounds>>

\* The lease runs out, and the reconciler abandons the run.
LeaseExpires ==
    /\ run.status = "running" /\ run.leased
    /\ run' = [run EXCEPT !.leased = FALSE]
    /\ UNCHANGED <<pipe, journal, stamp, horizon, stored, client, bounds>>

\* The reconciler abandons the run: a journal that has begun is no longer complete.
Abandon ==
    /\ run.status = "running" /\ ~run.leased
    /\ run' = [run EXCEPT !.status = "abandoned"]
    /\ journal' = [journal EXCEPT !.state.complete = @ /\ journal.state.latest = 0]
    /\ UNCHANGED <<pipe, stamp, horizon, stored, client, bounds>>

\* Retention passes for the rows of one more transaction.
Expire ==
    /\ horizon < stamp
    /\ horizon' = horizon + 1
    /\ UNCHANGED <<pipe, run, journal, stamp, stored, client, bounds>>

\* prune_expired_run_events_best_effort, after a reconciler pass.
Maintain ==
    /\ \E r \in journal.rows \cup journal.others : r.at <= horizon
    /\ journal' = PruneExpired(journal, horizon)
    /\ UNCHANGED <<pipe, run, stamp, horizon, stored, client, bounds>>

\* Another run appends one event.
OtherRun ==
    /\ others < MaxOthers
    /\ others' = others + 1
    /\ journal' = OtherAppend(journal, stamp + 1, horizon)
    /\ stamp' = stamp + 1
    /\ UNCHANGED <<pipe, run, horizon, stored, client, faults, drops>>

-------------------------------------------------------------------------------
(* The SSE handler and its client.                                         *)

Readable == run.status # "absent"

PageAfter(after) == Page(journal, run, after, horizon)

\* RunEventCursor::validate_against
CursorValid(cursor, p) == cursor <= p.latest /\ p.dropped <= cursor

\* flow_events: the run must exist; a cursor is checked against the bounds before the
\* first page is read.  A client whose cursor is refused starts over without one.
Connect(c) ==
    LET cursor == client[c].last
    IN  /\ client[c].pc = "off"
        /\ Readable
        /\ client' = [client EXCEPT ![c] =
             IF cursor # 0 /\ ~CursorValid(cursor, PageAfter(0))
             THEN NewClient
             ELSE [@ EXCEPT !.pc = "first", !.after = cursor, !.ack = cursor,
                            !.todo = <<>>, !.fails = 0]]
        /\ UNCHANGED <<pipe, store, bounds>>

\* What the page makes the stream yield, as [id, gap, final] items.
Items(p) ==
    IF p.gap # NoGap
    THEN <<[id |-> p.gap.last, covers |-> p.gap.first..p.gap.last, gap |-> TRUE, final |-> FALSE]>>
    ELSE [i \in 1..Cardinality(p.events) |->
            [id |-> p.after + i, covers |-> {p.after + i}, gap |-> FALSE,
             final |-> \E e \in p.events : e.seq = p.after + i /\ e.final]]

\* The second check of the cursor, and every later page.
ReadPage(c) ==
    LET k == client[c]
        p == PageAfter(k.after)
    IN  /\ k.pc \in {"first", "read"}
        /\ client' = [client EXCEPT ![c] =
             IF k.pc = "first" /\ k.ack # 0 /\ ~CursorValid(k.ack, p)
             THEN NewClient
             ELSE [@ EXCEPT !.pc = "yield", !.todo = Items(p), !.fails = 0,
                            !.page = [latest |-> p.latest, ended |-> p.ended, terminal |-> p.terminal]]]
        /\ UNCHANGED <<pipe, store, bounds>>

\* A read that fails or times out; five in a row end the stream with an error event.
ReadFails(c) ==
    /\ client[c].pc = "read"
    /\ faults < MaxFaults
    /\ faults' = faults + 1
    /\ client' = [client EXCEPT ![c] =
         IF @.fails + 1 >= MaxReadFails
         THEN [@ EXCEPT !.pc = "off", !.fails = 0]
         ELSE [@ EXCEPT !.fails = @ + 1]]
    /\ UNCHANGED <<pipe, store, others, drops>>

\* Mutant: the cursor moves past a gap without a journal_gap event.
SkipWithoutNotice(k, item) ==
    [k EXCEPT !.todo = Tail(@), !.after = item.id, !.last = item.id,
              !.seen = IF item.gap THEN @ ELSE @ \cup item.covers]

\* One SSE event reaches the client, whose Last-Event-ID it becomes.
Receive(k, item) ==
    [k EXCEPT !.todo = Tail(@), !.after = item.id, !.last = item.id,
              !.seen   = IF item.gap THEN @ ELSE @ \cup item.covers,
              !.gapped = IF item.gap THEN @ \cup item.covers ELSE @,
              !.pc     = IF item.final THEN "closed" ELSE @,
              !.ending = IF item.final THEN "numbered" ELSE @]

Yield(c) ==
    /\ client[c].pc = "yield"
    /\ client[c].todo # <<>>
    /\ client' = [client EXCEPT ![c] = Receive(@, Head(@.todo))]
    /\ UNCHANGED <<pipe, store, bounds>>

\* cursor_acknowledges_terminal
Acknowledged(k) == k.ack # 0 /\ k.ack >= k.page.terminal

\* After the page: read on, close quietly, or close with a synthetic run_complete.
AfterPage(c) ==
    LET k == client[c]
    IN  /\ k.pc = "yield"
        /\ k.todo = <<>>
        /\ client' = [client EXCEPT ![c] =
             CASE ~k.page.ended \/ k.after < k.page.terminal -> [@ EXCEPT !.pc = "read", !.page = NoPage]
               [] k.page.ended /\ k.page.terminal # 0 /\ k.after >= k.page.terminal
                    /\ Acknowledged(k) -> [@ EXCEPT !.pc = "closed", !.ending = "quiet"]
               [] OTHER -> [@ EXCEPT !.pc = "closed", !.ending = "synthetic"]]
        /\ UNCHANGED <<pipe, store, bounds>>

\* The connection drops at any point; the client comes back with its Last-Event-ID, also
\* after it has received run_complete.
Disconnect(c) ==
    /\ client[c].pc \notin {"off"}
    /\ drops < MaxDrops
    /\ drops' = drops + 1
    /\ client' = [client EXCEPT ![c] = [@ EXCEPT !.pc = "off", !.todo = <<>>, !.page = NoPage, !.fails = 0]]
    /\ UNCHANGED <<pipe, store, faults, others>>

-------------------------------------------------------------------------------

MonitorStep ==
    ReserveFlush \/ SendFlush \/ FlushReturns \/ RecordTerminal \/ PublishTerminal
      \/ SendTerminal \/ TerminalReturns

StoreStep == RunIntent \/ LeaseExpires \/ Abandon \/ Expire \/ Maintain \/ OtherRun

ClientStep(c) == Connect(c) \/ ReadPage(c) \/ ReadFails(c) \/ Yield(c) \/ AfterPage(c) \/ Disconnect(c)

Next ==
    \/ \E fits \in BOOLEAN : Emit(fits)
    \/ TakeCommand \/ Write \/ WriteLost
    \/ MonitorStep
    \/ Crash
    \/ StoreStep
    \/ \E c \in Clients : ClientStep(c)

Spec == Init /\ [][Next]_vars

-------------------------------------------------------------------------------
(* Properties.                                                             *)

TypeOK ==
    /\ bus.next \in 1..(MaxEmits + 2)
    /\ Len(queue) <= QueueMax
    /\ BytesHeld <= ByteSlots
    /\ writer.pc \in {"idle", "append", "stopped"}
    /\ monitor.pc \in {"working", "flush_slot", "flush_ack", "record", "publish",
                       "term_slot", "term_ack", "end", "dead"}
    /\ run.status \in {"absent", "running", "success", "abandoned"}
    /\ Cardinality(journal.rows) <= MaxPerRun
    /\ Cardinality(journal.rows) + Cardinality(journal.others) <= MaxTotal
    /\ \A c \in Clients : client[c].pc \in {"off", "first", "read", "yield", "closed"}

\* Whatever was dropped by the producer, evicted, expired or pruned, in whatever order, a
\* read after any cursor the journal ever issued passes the page's own validation: one
\* contiguous piece or one gap, never an error that would kill every reader of the run.
PagesAreValid ==
    \A after \in 0..journal.state.latest : ValidPage(PageAfter(after))

\* No silent loss (docs/cloud-deployment.md: gaps are explicit): every sequence up to the
\* client's Last-Event-ID was delivered to it or announced in a journal_gap, across
\* disconnects, expiry and eviction.
NoSilentLoss ==
    \A c \in Clients : 1..client[c].last = client[c].seen \cup client[c].gapped

\* The SSE ids of one client only go forward, unless its cursor was refused and it started over.
IdsIncrease ==
    \A c \in Clients :
      client'[c].last >= client[c].last \/ client'[c].last = 0

\* A gap notice never lies about an event that can still be read: a sequence announced as
\* lost is not in the journal within its retention.
GapsAreLost ==
    \A c \in Clients : client[c].gapped \cap Seqs(Bounds(journal, horizon).live) = {}

\* flush_durable answers Persisted only if everything accepted before the barrier had been
\* committed, whichever batch it travelled in and however often that batch was retried.
FlushMeansStored == monitor.flushed = "persisted" => monitor.before \subseteq stored

\* The journal ends with run_complete: one such row, nothing after it, and only for a run
\* whose record is terminal; a late writer or a late emitter cannot follow it.
NothingAfterTerminal ==
    /\ journal.state.terminal # 0 =>
         /\ run.status = "success"
         /\ journal.state.latest = journal.state.terminal
    /\ \A r \in journal.rows : r.final <=> r.seq = journal.state.terminal

\* journal_complete is honest: while it holds, every sequence up to the latest has been
\* committed and the retained rows are exactly those past the dropped boundary.
CompleteMeansNoHole ==
    journal.state.complete =>
        /\ Seqs(journal.rows) = (journal.state.dropped + 1)..journal.state.latest
        /\ 1..journal.state.latest \subseteq stored

\* The monitor is never held up by the journal: once the worker ended it gets through
\* flush, record and terminal event even if the store never answers.
MonitorEnds == (monitor.pc = "flush_slot") ~> (monitor.pc \in {"end", "dead"})

\* Every client is told the end: its stream closes after the run became terminal.
ClientsClose ==
    \A c \in Clients : (run.status \in {"success", "abandoned"}) ~> (client[c].pc = "closed")
===============================================================================
