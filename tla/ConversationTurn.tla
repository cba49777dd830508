-------------------------- MODULE ConversationTurn --------------------------
(***************************************************************************)
(* One persistent HTTP conversation on a shared PostgreSQL store.          *)
(*                                                                         *)
(* Replicas keep a live handle of the conversation as a cache.  A message  *)
(* is one POST /messages request with an Idempotency-Key: its replica      *)
(* reads the conversation, takes its local lifecycle gate, claims the key  *)
(* and the conversation's exclusive scope in the ledger, runs a turn on a  *)
(* private copy of the transcript under a heartbeat, and commits the       *)
(* transcript and the ledger row in one transaction.  /start and DELETE    *)
(* create and delete the conversation under the same gate.  Every store    *)
(* operation is one transaction under the conversation's advisory lock.    *)
(*                                                                         *)
(* A message stands for its attempt id and, through Req, its key (which    *)
(* determines its principal), its body, its replica, and the key it names  *)
(* as Idempotency-Recovery-Key.  The transcript is the sequence of turns,  *)
(* below the history limit; the flow's definition never changes.           *)
(***************************************************************************)
EXTENDS Naturals, Sequences

CONSTANTS
    Instance,    \* replicas
    Key,         \* idempotency key hashes
    NoKey,       \* no recovery key
    Body,        \* message contents
    Msg,         \* message requests
    NoMsg,       \* the owner of no row
    Req,         \* Msg -> [key, body, inst, recovers]
    LeaseTTL,    \* run_lease_ttl, in clock ticks
    Retention,   \* ttl_seconds of a terminal ledger row, in clock ticks
    Horizon,     \* bound: the last instant a request or heartbeat is sent
    MaxTime,     \* bound: the last instant of the clock
    MaxInc,      \* bound: incarnations minted by session builds
    Opens,       \* bound: the replicas that receive /start
    Deletes,     \* bound: the replicas that receive DELETE
    Crashable,   \* bound: the replicas that may die
    Stoppable    \* bound: the replicas that may shut down

ASSUME ConversationAssumption ==
    /\ NoMsg \notin Msg /\ NoKey \notin Key
    /\ Req \in [Msg -> [key : Key, body : Body, inst : Instance, recovers : Key \cup {NoKey}]]
    /\ \A m \in Msg : Req[m].recovers # Req[m].key
    /\ LeaseTTL \in Nat \ {0} /\ Retention \in Nat \ {0}
    /\ Horizon \in Nat /\ MaxTime \in Nat /\ MaxInc \in Nat
    /\ Opens \subseteq Instance /\ Deletes \subseteq Instance
    /\ Crashable \subseteq Instance /\ Stoppable \subseteq Instance

VARIABLES
    now,        \* PostgreSQL's clock; process clocks advance at its rate
    phase,      \* phase[i]: the lifecycle phase of replica i
    conv,       \* the durable conversation record
    ledger,     \* ledger[k]: the idempotency row of key k
    cache,      \* cache[i]: the live handle of replica i
    sess,       \* sess[i]: the /start or DELETE under way on replica i
    pc,         \* pc[m]: where the handler and task of message m are
    mem,        \* mem[m]: process memory of message m (see NoMem)
    minted,     \* incarnation ids drawn so far
    past,       \* history: the turns committed
    said,       \* history: the 200 answers given
    ran,        \* history: ran[m], the incarnation message m ran a turn in
    recovered,  \* history: messages whose hazard a recovery key consumed
    freed       \* history: messages whose row left by retention expiry

store == <<conv, ledger>>
ghost == <<past, said, ran, recovered, freed>>
vars == <<now, phase, conv, ledger, cache, sess, pc, mem, minted, past, said, ran, recovered, freed>>

KeyOf(m) == Req[m].key
InstOf(m) == Req[m].inst
Row(m) == ledger[KeyOf(m)]

\* A conversation: its incarnation, revision and transcript.  NoConv also
\* stands for a handle that is not there.
NoConv == [inc |-> 0, rev |-> 0, log |-> <<>>]
NoRow == [st |-> "absent", msg |-> NoMsg, inc |-> 0, base |-> 0, scoped |-> FALSE,
          lease |-> 0, done |-> 0, exp |-> 0, body |-> FALSE]
\* The record read, the handle's transcript, the local lease deadline with the
\* loss published on it, the handle's shutdown signal, the heartbeat in flight,
\* and the ledger row to be replayed.
NoMem == [inc |-> 0, rev |-> 0, log |-> <<>>, deadline |-> 0, lost |-> FALSE,
          halt |-> FALSE, beat |-> FALSE, sent |-> 0, replay |-> NoRow]
NoSess == [pc |-> "idle", inc |-> 0, rev |-> 0, log |-> <<>>]

Phase == {"accepting", "draining", "stopping", "down"}
SessPC == {"idle", "build", "adopt", "persist", "reload", "rebuild", "publish", "delete"}
PC == {"idle", "read", "missed", "gated", "replaying", "won", "claimed", "backing",
       "images", "turn", "prepared", "committed", "marking", "releasing", "done", "crashed"}
Conversation == [inc : Nat, rev : Nat, log : Seq(Msg)]
\* A row in flight has a lease, a settled one an instant to age out at.
LedgerRow ==
    {row \in [st : {"absent", "claimed", "completed", "indeterminate"},
              msg : Msg \cup {NoMsg}, inc : Nat, base : Nat, scoped : BOOLEAN,
              lease : Nat, done : Nat, exp : Nat, body : BOOLEAN] :
        /\ row.st = "claimed" => row.lease > 0
        /\ row.st \in {"completed", "indeterminate"} => row.exp > row.done}
TaskMemory == [inc : Nat, rev : Nat, log : Seq(Msg), deadline : Nat, lost : BOOLEAN,
               halt : BOOLEAN, beat : BOOLEAN, sent : Nat, replay : LedgerRow]
Session == [pc : SessPC, inc : Nat, rev : Nat, log : Seq(Msg)]
Turn == [msg : Msg \cup {NoMsg}, inc : Nat, at : Nat]

InFlight(row) == row.st = "claimed"
Settled(row) == row.st \in {"completed", "indeterminate"}
\* Mutant: a row in flight expires with its lease.
ExpiredByLease(row) ==
    \/ Settled(row) /\ row.exp <= now
    \/ InFlight(row) /\ row.lease <= now

Expired(row) == Settled(row) /\ row.exp <= now
Replayable(row) == row.st = "completed" /\ row.body
Linked(m) == Row(m).msg = m

\* Where a message holds its replica's lifecycle gate: from try_lock to the end
\* of the handler or, once it is spawned, of the task.
Holding == PC \ {"idle", "read", "missed", "done", "crashed"}
\* The heartbeat task lives from the claim to the end of the commit.
Beating == {"claimed", "images", "turn", "prepared"}
\* The spawned task holds the live handle.
Handling == {"images", "turn", "prepared", "committed"}

Up(i) == phase[i] # "down"
GateFree(i) ==
    /\ sess[i].pc = "idle"
    /\ \A m \in Msg : InstOf(m) = i => pc[m] \notin Holding

Goto(m, label) == pc' = [pc EXCEPT ![m] = label]
Leave(m) == Goto(m, "done") /\ mem' = [mem EXCEPT ![m] = NoMem]
Forget(i) == cache' = [cache EXCEPT ![i] = NoConv]
\* The task stops its heartbeat and goes on to label.
StopBeat(m, label) ==
    /\ Goto(m, label)
    /\ mem' = [mem EXCEPT ![m] = [@ EXCEPT !.beat = FALSE, !.sent = 0]]

Init ==
    /\ now = 0
    /\ phase = [i \in Instance |-> "accepting"]
    /\ conv = NoConv
    /\ ledger = [k \in Key |-> NoRow]
    /\ cache = [i \in Instance |-> NoConv]
    /\ sess = [i \in Instance |-> NoSess]
    /\ pc = [m \in Msg |-> "idle"]
    /\ mem = [m \in Msg |-> NoMem]
    /\ minted = 0
    /\ past = {} /\ said = {} /\ recovered = {} /\ freed = {}
    /\ ran = [m \in Msg |-> 0]

----------------------------------------------------------------------------
\* Rows and records as the store's statements write them.

\* Mutant: the fenced claim is given no expiry.
IndeterminateUndated(row) ==
    [row EXCEPT !.st = "indeterminate", !.body = FALSE, !.lease = 0, !.done = now]

Indeterminate(row) ==
    [row EXCEPT !.st = "indeterminate", !.body = FALSE, !.lease = 0,
                !.done = now, !.exp = now + Retention]

PrunedLedger == [k \in Key |-> IF Expired(ledger[k]) THEN NoRow ELSE ledger[k]]
PrunedMsgs == {ledger[k].msg : k \in {k \in Key : Settled(ledger[k]) /\ ledger[k].exp <= now}}

\* Mutant: only a live lease counts as an active operation.
ActiveByLease == \E k \in Key : InFlight(ledger[k]) /\ ledger[k].lease > now

\* save_conversation and delete_conversation refuse while any message of the
\* conversation is in flight, whatever its incarnation or lease.
ActiveOperation == \E k \in Key : InFlight(ledger[k])

----------------------------------------------------------------------------
\* post_message_inner up to the claim.

\* The durable read.  An absent conversation drops the handle, without the gate.
Read(m) ==
    /\ pc[m] = "idle" /\ now <= Horizon
    /\ phase[InstOf(m)] = "accepting"
    /\ IF conv.inc = 0
       THEN Leave(m) /\ Forget(InstOf(m))
       ELSE /\ Goto(m, "read") /\ cache' = cache
            /\ mem' = [mem EXCEPT ![m] = [@ EXCEPT !.inc = conv.inc, !.rev = conv.rev]]
    /\ UNCHANGED <<now, phase, store, sess, minted, ghost>>

\* The request fingerprint covers the body and the incarnation.
SameRequest(m, row) == Req[row.msg].body = Req[m].body /\ row.inc = mem[m].inc

\* lookup_idempotency_for_principal, read only.
Lookup(m) ==
    LET row == Row(m)
        miss == row.st = "absent" \/ (SameRequest(m, row) /\ Expired(row))
    IN  /\ pc[m] = "read"
        /\ IF miss THEN Goto(m, "missed") /\ mem' = mem
           ELSE IF SameRequest(m, row) /\ Replayable(row)
           THEN Goto(m, "replaying") /\ mem' = [mem EXCEPT ![m].replay = row]
           ELSE Leave(m)
        /\ UNCHANGED <<now, phase, store, cache, sess, minted, ghost>>

\* validated_message_replay: the row must hold this incarnation's scope, and the
\* conversation, read again, must still be in it.
Replay(m) ==
    LET row == mem[m].replay
    IN  /\ pc[m] = "replaying"
        /\ IF ~row.scoped \/ row.inc # mem[m].inc THEN UNCHANGED <<said, cache>>
           ELSE IF conv.inc = mem[m].inc
           THEN /\ said' = said \cup {[to |-> m, turn |-> [msg |-> row.msg, inc |-> row.inc,
                                                           at |-> row.base]]}
                /\ cache' = cache
           ELSE said' = said /\ Forget(InstOf(m))
        /\ Leave(m)
        /\ UNCHANGED <<now, phase, store, sess, minted, past, ran, recovered, freed>>

\* The gate: try_lock, then the phase again.  The lease window starts here.
TakeGate(m) ==
    /\ pc[m] = "missed" /\ now <= Horizon
    /\ IF GateFree(InstOf(m)) /\ phase[InstOf(m)] = "accepting"
       THEN Goto(m, "gated") /\ mem' = [mem EXCEPT ![m].deadline = now + LeaseTTL]
       ELSE Leave(m)
    /\ UNCHANGED <<now, phase, store, cache, sess, minted, ghost>>

----------------------------------------------------------------------------
\* claim_idempotency_record for a message.

\* Rows of other keys in the scope of m's conversation.
ScopeRows(m, S) ==
    {k \in Key \ {KeyOf(m)} : PrunedLedger[k].scoped /\ PrunedLedger[k].inc = mem[m].inc
                              /\ PrunedLedger[k].st \in S}
Occupants(m) == ScopeRows(m, {"claimed"})
\* Mutant: only hazards of the same key are looked for.
NoHazards(m) == {}

Hazards(m) == ScopeRows(m, {"indeterminate"})

\* Mutant: a hazard is recovered as soon as it is recorded.
RecoverableAtOnce(m) == Hazards(m) = {Req[m].recovers}

\* One hazard, named by the recovery key, one lease after it was recorded.
Recoverable(m) ==
    /\ Hazards(m) = {Req[m].recovers}
    /\ PrunedLedger[Req[m].recovers].done + LeaseTTL <= now

\* Mutant: the incarnation is not compared.
CurrentRevision(m) == conv.rev = mem[m].rev

\* The conversation is the record that was read: incarnation and revision.
Current(m) == conv.inc = mem[m].inc /\ conv.rev = mem[m].rev

\* The key has a live row: replay, or refuse, fencing a claim whose lease ran
\* out.  A row of another request drops the handle.
ClaimExisting(m) ==
    LET row == PrunedLedger[KeyOf(m)]
        same == SameRequest(m, row)
    IN  /\ row.st # "absent"
        /\ ledger' = IF same /\ InFlight(row) /\ row.lease <= now
                     THEN [PrunedLedger EXCEPT ![KeyOf(m)] = Indeterminate(row)]
                     ELSE PrunedLedger
        /\ IF same /\ Replayable(row)
           THEN Goto(m, "replaying") /\ mem' = [mem EXCEPT ![m].replay = row]
           ELSE Leave(m)
        /\ IF same THEN cache' = cache ELSE Forget(InstOf(m))
        /\ UNCHANGED recovered

\* The conversation moved on since it was read.
ClaimStale(m) ==
    /\ PrunedLedger[KeyOf(m)].st = "absent" /\ ~Current(m)
    /\ ledger' = PrunedLedger
    /\ Leave(m) /\ Forget(InstOf(m))
    /\ UNCHANGED recovered

\* Another key holds the scope, or the quota is used up.  An occupant whose
\* lease ran out becomes a hazard; the sweep commits as well.
ClaimRefused(m) ==
    /\ PrunedLedger[KeyOf(m)].st = "absent" /\ Current(m)
    /\ ledger' = [k \in Key |-> IF k \in Occupants(m) /\ PrunedLedger[k].lease <= now
                                THEN Indeterminate(PrunedLedger[k]) ELSE PrunedLedger[k]]
    /\ Leave(m)
    /\ UNCHANGED <<cache, recovered>>

\* Mutant: the recovered hazard keeps its scope.
KeepScope(row) == row

\* The recovered hazard gives up its exclusive scope.
ClearScope(row) == [row EXCEPT !.scoped = FALSE]

ClaimNew(m) ==
    /\ PrunedLedger[KeyOf(m)].st = "absent" /\ Current(m)
    /\ Occupants(m) = {} /\ (Hazards(m) = {} \/ Recoverable(m))
    /\ ledger' = [k \in Key |->
                    IF k = KeyOf(m)
                    THEN [NoRow EXCEPT !.st = "claimed", !.msg = m, !.inc = mem[m].inc,
                                       !.base = mem[m].rev, !.scoped = TRUE,
                                       !.lease = now + LeaseTTL]
                    ELSE IF k \in Hazards(m) THEN ClearScope(PrunedLedger[k])
                    ELSE PrunedLedger[k]]
    /\ recovered' = recovered \cup {PrunedLedger[k].msg : k \in Hazards(m)}
    /\ \/ Goto(m, "won") /\ mem' = mem
       \/ Leave(m)                       \* the answer is lost after the commit
    /\ UNCHANGED cache

Claim(m) ==
    /\ pc[m] = "gated"
    /\ ClaimExisting(m) \/ ClaimStale(m) \/ ClaimRefused(m) \/ ClaimNew(m)
    /\ freed' = freed \cup PrunedMsgs
    /\ UNCHANGED <<now, phase, conv, sess, minted, past, said, ran>>

\* The heartbeat starts, unless the claim consumed its own lease window.
StartHeartbeat(m) ==
    /\ pc[m] = "won"
    /\ Goto(m, IF now < mem[m].deadline THEN "claimed" ELSE "releasing")
    /\ UNCHANGED <<now, phase, store, cache, sess, mem, minted, ghost>>

----------------------------------------------------------------------------
\* LeaseHeartbeat.

SendHeartbeat(m) ==
    /\ pc[m] \in Beating /\ ~mem[m].lost /\ ~mem[m].beat
    /\ now < mem[m].deadline /\ now <= Horizon
    /\ mem' = [mem EXCEPT ![m] = [@ EXCEPT !.beat = TRUE, !.sent = now]]
    /\ UNCHANGED <<now, phase, store, cache, sess, pc, minted, ghost>>

\* heartbeat_idempotency_record.
Owned(m) == Linked(m) /\ Row(m).st \in {"claimed", "completed"}
RenewedLedger(m) ==
    IF Linked(m) /\ InFlight(Row(m)) THEN [ledger EXCEPT ![KeyOf(m)].lease = now + LeaseTTL]
                                     ELSE ledger

RenewedDeadline(m) == mem[m].sent + LeaseTTL

\* The transaction and its answer; an answer after the deadline is a loss.
Heartbeat(m) ==
    /\ pc[m] \in Beating /\ mem[m].beat /\ ~mem[m].lost
    /\ ledger' = RenewedLedger(m)
    /\ mem' = [mem EXCEPT ![m] =
                 IF Owned(m) /\ now < mem[m].deadline
                 THEN [@ EXCEPT !.beat = FALSE, !.sent = 0, !.deadline = RenewedDeadline(m)]
                 ELSE [@ EXCEPT !.beat = FALSE, !.sent = 0, !.lost = TRUE]]
    /\ UNCHANGED <<now, phase, conv, cache, sess, pc, minted, ghost>>

\* The store fails, before or after the transaction committed.
HeartbeatFails(m) ==
    /\ pc[m] \in Beating /\ mem[m].beat /\ ~mem[m].lost
    /\ ledger' \in {ledger, RenewedLedger(m)}
    /\ mem' = [mem EXCEPT ![m] = [@ EXCEPT !.beat = FALSE, !.sent = 0,
                                          !.lost = now >= mem[m].deadline]]
    /\ UNCHANGED <<now, phase, conv, cache, sess, pc, minted, ghost>>

LeaseExpires(m) ==
    /\ pc[m] \in Beating /\ ~mem[m].lost /\ now >= mem[m].deadline
    /\ mem' = [mem EXCEPT ![m] = [@ EXCEPT !.beat = FALSE, !.sent = 0, !.lost = TRUE]]
    /\ UNCHANGED <<now, phase, store, cache, sess, pc, minted, ghost>>

----------------------------------------------------------------------------
\* The live handle, the turn and its commit.

\* message_handle: the cached handle if it is the record that was read, or one
\* rebuilt from the store, which must be that record too.  Then the phase again,
\* and the task is spawned.
UseHandle(m) ==
    LET i == InstOf(m)
        hit == cache[i].inc = mem[m].inc /\ cache[i].rev = mem[m].rev
    IN  /\ pc[m] = "claimed" /\ ~mem[m].lost /\ phase[i] = "accepting"
        /\ hit \/ Current(m)
        /\ cache' = [cache EXCEPT ![i] = IF hit THEN @ ELSE conv]
        /\ mem' = [mem EXCEPT ![m].log = cache'[i].log]
        /\ Goto(m, "images")
        /\ UNCHANGED <<now, phase, store, sess, minted, ghost>>

\* finish_claim_after_preparation_failure: no permit, a flow that does not
\* build, a message over the limits, shutdown, or the claim lost.
BackOut(m) ==
    /\ pc[m] = "claimed"
    /\ StopBeat(m, "backing") /\ Forget(InstOf(m))
    /\ UNCHANGED <<now, phase, store, sess, minted, ghost>>

\* Image loading, before any provider work: it fails, or shutdown stops it.
ImagesFail(m) ==
    /\ pc[m] = "images" /\ (mem[m].halt \/ ~mem[m].lost)
    /\ StopBeat(m, "releasing")
    /\ UNCHANGED <<now, phase, store, cache, sess, minted, ghost>>

BeginTurn(m) ==
    /\ pc[m] = "images" /\ ~mem[m].lost /\ ~mem[m].halt
    /\ Goto(m, "turn")
    /\ ran' = [ran EXCEPT ![m] = mem[m].inc]
    /\ UNCHANGED <<now, phase, store, cache, sess, mem, minted, past, said, recovered, freed>>

\* The turn fails, times out, is too large to store, or shutdown stops it.
TurnFails(m) ==
    /\ pc[m] = "turn" /\ (mem[m].halt \/ ~mem[m].lost)
    /\ StopBeat(m, "marking")
    /\ UNCHANGED <<now, phase, store, cache, sess, minted, ghost>>

EndTurn(m) ==
    /\ pc[m] = "turn" /\ ~mem[m].lost /\ ~mem[m].halt
    /\ Goto(m, "prepared")
    /\ UNCHANGED <<now, phase, store, cache, sess, mem, minted, ghost>>

\* Whatever the task is doing, a published loss ends it and drops the handle;
\* before the commit the shutdown signal is looked at first.
ClaimLost(m) ==
    /\ pc[m] \in {"images", "turn", "prepared"} /\ mem[m].lost
    /\ mem[m].halt => pc[m] = "prepared"
    /\ StopBeat(m, "marking") /\ Forget(InstOf(m))
    /\ UNCHANGED <<now, phase, store, sess, minted, ghost>>

\* A row that says the commit was made, by an attempt whose answer was lost.
AlreadyCommitted(row) == row.st = "completed"

CommitVerdict(m) ==
    IF Row(m).st = "absent" THEN "retry"
    ELSE IF ~Linked(m) \/ Row(m).base # mem[m].rev THEN "conflict"
    ELSE IF AlreadyCommitted(Row(m)) THEN "already"
    ELSE IF Row(m).st = "indeterminate" \/ ~Current(m) THEN "conflict" ELSE "commit"

\* The record the task prepared from the handle's transcript.
PreparedLog(m) == Append(mem[m].log, m)

\* commit_conversation_idempotency_record: transcript and ledger row together.
\* The response body is kept if the byte budgets allow it; when the answer is
\* lost the task tries again.
CommitTurn(m) ==
    /\ pc[m] = "prepared" /\ CommitVerdict(m) = "commit"
    /\ conv' = [inc |-> conv.inc, rev |-> conv.rev + 1, log |-> PreparedLog(m)]
    /\ \E fits \in BOOLEAN :
         ledger' = [ledger EXCEPT ![KeyOf(m)] =
                      [@ EXCEPT !.st = "completed", !.body = fits, !.lease = 0,
                                !.done = now, !.exp = now + Retention]]
    /\ past' = past \cup {[msg |-> m, inc |-> conv.inc, at |-> Len(conv.log) + 1]}
    /\ \/ StopBeat(m, "committed")
       \/ UNCHANGED <<pc, mem>>
    /\ UNCHANGED <<now, phase, cache, sess, minted, said, ran, recovered, freed>>

\* The answer to m: revision mem[m].rev + 1, the turn at position mem[m].rev.
Respond(m) ==
    said' = said \cup {[to |-> m, turn |-> [msg |-> m, inc |-> mem[m].inc, at |-> mem[m].rev]]}

\* An earlier try reached the store: answer, but never publish the snapshot.
CommitAgain(m) ==
    /\ pc[m] = "prepared" /\ CommitVerdict(m) = "already"
    /\ Respond(m) /\ Leave(m) /\ Forget(InstOf(m))
    /\ UNCHANGED <<now, phase, store, sess, minted, past, ran, recovered, freed>>

CommitConflict(m) ==
    /\ pc[m] = "prepared" /\ CommitVerdict(m) = "conflict"
    /\ StopBeat(m, "marking") /\ Forget(InstOf(m))
    /\ UNCHANGED <<now, phase, store, sess, minted, ghost>>

\* Mutant: the handle takes the new revision but keeps its old transcript.
RevisionOnly(m) == [inc |-> mem[m].inc, rev |-> mem[m].rev + 1, log |-> mem[m].log]

PublishedHandle(m) == [inc |-> mem[m].inc, rev |-> mem[m].rev + 1, log |-> PreparedLog(m)]

\* publish_prepared_turn on the task's handle, which the map may have dropped.
Publish(m) ==
    /\ pc[m] = "committed"
    /\ cache' = [cache EXCEPT ![InstOf(m)] = IF @.inc = 0 THEN @ ELSE PublishedHandle(m)]
    /\ Respond(m) /\ Leave(m)
    /\ UNCHANGED <<now, phase, store, sess, minted, past, ran, recovered, freed>>

\* mark_message_indeterminate, retried until the store answers.
Mark(m) ==
    /\ pc[m] \in {"backing", "marking"}
    /\ ledger' = IF Linked(m) /\ InFlight(Row(m))
                 THEN [ledger EXCEPT ![KeyOf(m)] = Indeterminate(@)] ELSE ledger
    /\ Leave(m)
    /\ UNCHANGED <<now, phase, conv, cache, sess, minted, ghost>>

\* release_message_claim, best effort: a store error leaves the row.
Release(m) ==
    /\ pc[m] = "releasing"
    /\ \/ ledger' = ledger
       \/ Linked(m) /\ InFlight(Row(m)) /\ ledger' = [ledger EXCEPT ![KeyOf(m)] = NoRow]
    /\ Leave(m)
    /\ UNCHANGED <<now, phase, conv, cache, sess, minted, ghost>>

\* The client disconnects and the server drops the handler's future; only the
\* spawned task survives it.
Disconnect(m) ==
    /\ pc[m] \in {"read", "missed", "gated", "replaying", "won", "claimed", "backing"}
    /\ Leave(m)
    /\ UNCHANGED <<now, phase, store, cache, sess, minted, ghost>>

----------------------------------------------------------------------------
\* /start, DELETE and eviction, under the lifecycle gate.

SetSess(i, label, c) ==
    sess' = [sess EXCEPT ![i] = [pc |-> label, inc |-> c.inc, rev |-> c.rev, log |-> c.log]]
EndSess(i) == sess' = [sess EXCEPT ![i] = NoSess]

\* The gate and the durable read.  A handle that is not the stored record is
\* dropped; one that is, is the answer.
OpenSession(i) ==
    /\ i \in Opens /\ phase[i] = "accepting" /\ GateFree(i) /\ now <= Horizon
    /\ ~ (cache[i].inc = conv.inc /\ cache[i].rev = conv.rev /\ conv.inc # 0)
    /\ Forget(i)
    /\ SetSess(i, "build", conv)
    /\ UNCHANGED <<now, phase, store, pc, mem, minted, ghost>>

\* new_or_resume: the stored conversation, or one under a new incarnation id
\* that is not stored yet.
BuiltHandle ==
    IF conv.inc # 0 THEN conv ELSE [inc |-> minted + 1, rev |-> 0, log |-> <<>>]
Mint == IF conv.inc # 0 THEN minted' = minted ELSE minted < MaxInc /\ minted' = minted + 1

\* build_session reads the store on its own.  A resume must still be the record
\* that was read; a fresh start either persists its candidate or adopts a winner.
BuildSession(i) ==
    /\ sess[i].pc = "build"
    /\ Mint
    /\ LET c == BuiltHandle
           same == c.inc = sess[i].inc /\ c.rev = sess[i].rev
       IN  IF sess[i].inc # 0
           THEN IF same THEN SetSess(i, "publish", c) ELSE EndSess(i)
           ELSE SetSess(i, IF c.rev = 0 THEN "persist" ELSE "adopt", c)
    /\ UNCHANGED <<now, phase, store, cache, pc, mem, ghost>>

AdoptWinner(i) ==
    /\ sess[i].pc = "adopt"
    /\ IF conv.inc = sess[i].inc /\ conv.rev = sess[i].rev
       THEN sess' = [sess EXCEPT ![i].pc = "publish"] ELSE EndSess(i)
    /\ UNCHANGED <<now, phase, store, cache, pc, mem, minted, ghost>>

\* save_conversation_record of a fresh candidate (expected revision 0).  On a
\* conflict the candidate is dropped and the winner is read.
PersistSession(i) ==
    /\ sess[i].pc = "persist"
    /\ IF conv.inc = 0 /\ ~ActiveOperation
       THEN LET c == [inc |-> sess[i].inc, rev |-> 1, log |-> sess[i].log]
            IN  conv' = c /\ SetSess(i, "publish", c)
       ELSE conv' = conv /\ SetSess(i, "reload", NoConv)
    /\ UNCHANGED <<now, phase, ledger, cache, pc, mem, minted, ghost>>

ReloadWinner(i) ==
    /\ sess[i].pc = "reload"
    /\ IF conv.inc = 0 THEN EndSess(i) ELSE SetSess(i, "rebuild", NoConv)
    /\ UNCHANGED <<now, phase, store, cache, pc, mem, minted, ghost>>

\* The second build is not compared with the winner that was read.
RebuildSession(i) ==
    /\ sess[i].pc = "rebuild"
    /\ Mint
    /\ SetSess(i, "publish", BuiltHandle)
    /\ UNCHANGED <<now, phase, store, cache, pc, mem, ghost>>

\* Publication under the map lock, which rechecks the phase.
PublishSession(i) ==
    /\ sess[i].pc = "publish"
    /\ cache' = [cache EXCEPT ![i] =
                   IF phase[i] = "accepting" /\ @.inc = 0
                   THEN [inc |-> sess[i].inc, rev |-> sess[i].rev, log |-> sess[i].log] ELSE @]
    /\ EndSess(i)
    /\ UNCHANGED <<now, phase, store, pc, mem, minted, ghost>>

\* A build fails, a permit is missing, the store fails or the client goes away.
\* The save may have committed all the same.
AbortSession(i) ==
    /\ sess[i].pc # "idle"
    /\ EndSess(i)
    /\ UNCHANGED <<now, phase, store, cache, pc, mem, minted, ghost>>

\* DELETE takes the gate and drops the handle, then deletes the record.
OpenDelete(i) ==
    /\ i \in Deletes /\ Up(i) /\ GateFree(i) /\ now <= Horizon
    /\ Forget(i)
    /\ SetSess(i, "delete", NoConv)
    /\ UNCHANGED <<now, phase, store, pc, mem, minted, ghost>>

DeleteConversation(i) ==
    /\ sess[i].pc = "delete"
    /\ conv' = IF ActiveOperation THEN conv ELSE NoConv
    /\ EndSess(i)
    /\ UNCHANGED <<now, phase, ledger, cache, pc, mem, minted, ghost>>

\* The idle loop drops a handle under the gate and saves nothing.
Evict(i) ==
    /\ cache[i].inc # 0 /\ GateFree(i)
    /\ Forget(i)
    /\ UNCHANGED <<now, phase, store, sess, pc, mem, minted, ghost>>

----------------------------------------------------------------------------
\* Maintenance, lifecycle and time.

Overdue(row) == InFlight(row) /\ row.lease <= now

\* reconcile_expired_conversation_batch, its limit above the number of keys.
Reconcile ==
    /\ \E i \in Instance : Up(i)
    /\ \E k \in Key : Overdue(ledger[k])
    /\ ledger' = [k \in Key |-> IF Overdue(ledger[k]) THEN Indeterminate(ledger[k]) ELSE ledger[k]]
    /\ UNCHANGED <<now, phase, conv, cache, sess, pc, mem, minted, ghost>>

Prune ==
    /\ \E i \in Instance : Up(i)
    /\ \E k \in Key : Expired(ledger[k])
    /\ ledger' = PrunedLedger
    /\ freed' = freed \cup PrunedMsgs
    /\ UNCHANGED <<now, phase, conv, cache, sess, pc, mem, minted, past, said, ran, recovered>>

\* Shutdown: mutations are refused, then the handles are drained from the map
\* and signalled.
Drain(i) ==
    /\ i \in Stoppable /\ phase[i] = "accepting"
    /\ phase' = [phase EXCEPT ![i] = "draining"]
    /\ UNCHANGED <<now, store, cache, sess, pc, mem, minted, ghost>>

Teardown(i) ==
    /\ phase[i] = "draining"
    /\ phase' = [phase EXCEPT ![i] = "stopping"]
    /\ Forget(i)
    /\ mem' = [m \in Msg |-> IF InstOf(m) = i /\ pc[m] \in Handling /\ cache[i].inc # 0
                             THEN [mem[m] EXCEPT !.halt = TRUE] ELSE mem[m]]
    /\ UNCHANGED <<now, store, sess, pc, minted, ghost>>

Crash(i) ==
    /\ i \in Crashable /\ Up(i)
    /\ phase' = [phase EXCEPT ![i] = "down"]
    /\ Forget(i) /\ EndSess(i)
    /\ pc' = [m \in Msg |-> IF InstOf(m) = i /\ pc[m] # "done" THEN "crashed" ELSE pc[m]]
    /\ mem' = [m \in Msg |-> IF InstOf(m) = i THEN NoMem ELSE mem[m]]
    /\ UNCHANGED <<now, store, minted, ghost>>

Tick ==
    /\ now < MaxTime
    /\ now' = now + 1
    /\ UNCHANGED <<phase, store, cache, sess, pc, mem, minted, ghost>>

----------------------------------------------------------------------------
\* The steps a message makes by itself once its request is in.
Advance(m) ==
    \/ Lookup(m) \/ Replay(m) \/ TakeGate(m) \/ Claim(m) \/ StartHeartbeat(m)
    \/ UseHandle(m) \/ BackOut(m) \/ BeginTurn(m) \/ ImagesFail(m) \/ EndTurn(m)
    \/ TurnFails(m) \/ CommitTurn(m) \/ CommitAgain(m) \/ CommitConflict(m)
    \/ ClaimLost(m) \/ Publish(m) \/ Mark(m) \/ Release(m)

Beat(m) == SendHeartbeat(m) \/ Heartbeat(m) \/ HeartbeatFails(m) \/ LeaseExpires(m)

SessionStep(i) ==
    \/ OpenSession(i) \/ BuildSession(i) \/ AdoptWinner(i) \/ PersistSession(i)
    \/ ReloadWinner(i) \/ RebuildSession(i) \/ PublishSession(i) \/ AbortSession(i)
    \/ OpenDelete(i) \/ DeleteConversation(i) \/ Evict(i)

Next ==
    \/ \E m \in Msg : Read(m) \/ Advance(m) \/ Beat(m) \/ Disconnect(m)
    \/ \E i \in Instance : SessionStep(i) \/ Drain(i) \/ Teardown(i) \/ Crash(i)
    \/ Reconcile \/ Prune \/ Tick

Spec == Init /\ [][Next]_vars

----------------------------------------------------------------------------
\* Properties.

\* The type invariant of the conversation, the ledger, the handles and the tasks:
\* whichever path settles a row, it gives it an expiry, without which the key would
\* be kept for good or be free at once.
TypeOK ==
    /\ now \in Nat /\ minted \in Nat
    /\ phase \in [Instance -> Phase]
    /\ conv \in Conversation
    /\ ledger \in [Key -> LedgerRow]
    /\ cache \in [Instance -> Conversation]
    /\ sess \in [Instance -> Session]
    /\ pc \in [Msg -> PC]
    /\ mem \in [Msg -> TaskMemory]
    /\ past \subseteq Turn
    /\ said \subseteq [to : Msg, turn : Turn]
    /\ ran \in [Msg -> Nat]
    /\ recovered \subseteq Msg /\ freed \subseteq Msg

\* A message in flight pins the conversation: as long as its row is claimed the
\* conversation exists, in the incarnation and at the revision it was claimed at,
\* so neither /start, DELETE nor another turn got between claim and commit.
ClaimPinsConversation ==
    \A k \in Key : InFlight(ledger[k]) =>
        conv.inc = ledger[k].inc /\ conv.rev = ledger[k].base

\* At most one row holds the exclusive scope of an incarnation, in flight or as
\* a hazard: with two hazards no recovery key could ever free the conversation
\* (resolve_exclusive_scope_claim gives up when it finds two).
ScopeHeldByOneRow ==
    \A j, k \in Key :
        /\ ledger[j].scoped /\ ledger[j].st \in {"claimed", "indeterminate"}
        /\ ledger[k].scoped /\ ledger[k].st \in {"claimed", "indeterminate"}
        /\ ledger[j].inc = ledger[k].inc
        => j = k

\* Of two turns that ran in one incarnation, one was committed, or was given up
\* by a client with its recovery key, or its row aged out: a turn with unknown
\* effects is never followed silently by another, on whatever replica.
UnsettledTurnBlocks ==
    \A m, n \in Msg :
        m # n /\ ran[m] # 0 /\ ran[n] = ran[m]
        => {m, n} \cap ({t.msg : t \in past} \cup recovered \cup freed) # {}

\* Retries of one key run one turn, until the key's row ages out.
OneTurnPerKey ==
    \A m, n \in Msg :
        m # n /\ ran[m] # 0 /\ ran[n] # 0 /\ KeyOf(m) = KeyOf(n) => {m, n} \cap freed # {}

\* A worker whose hazard was recovered has been past its local lease deadline for
\* a whole lease: the grace in which the code expects it to have stopped.
RecoveryGrace ==
    \A m \in recovered : pc[m] \in Beating => now >= mem[m].deadline + LeaseTTL

\* A handle at the durable incarnation and revision has the durable transcript,
\* so that the next turn may be built on it without reading the store.
CacheAgrees ==
    \A i \in Instance :
        cache[i].inc = conv.inc /\ cache[i].rev = conv.rev => cache[i].log = conv.log

\* The replicas, caches and ledger together implement one linear transcript,
\* and every 200 answer, replayed or not, names the turn it stands for.
Linear == INSTANCE Transcript
    WITH inc <- conv.inc, log <- conv.log, past <- past, said <- said,
         Ask <- [m \in Msg |-> [key |-> Req[m].key, body |-> Req[m].body]]
LinearTranscript == Linear!Spec

\* An in-flight row does not stay: it is committed, released or becomes a hazard
\* (unless its lease reaches beyond the bounded clock).
ClaimsSettle ==
    \A k \in Key : InFlight(ledger[k]) ~> (~InFlight(ledger[k]) \/ ledger[k].lease > MaxTime)

\* A message that holds the lifecycle gate gives it back, whatever fails: the
\* conversation does not stay busy on its replica.
GateIsReturned ==
    \A m \in Msg : pc[m] \in Holding ~> pc[m] \in {"done", "crashed"}

=============================================================================
