------------------------------ MODULE KeyedRun ------------------------------
(***************************************************************************)
(* Idempotency-keyed HTTP runs of IronCrew on a shared PostgreSQL store.   *)
(*                                                                         *)
(* An attempt is one POST /flows/{flow}/run that carries an                *)
(* Idempotency-Key.  The replica that receives it draws a fresh run id and *)
(* a fresh attempt id, claims the key in the ledger, opens a fence kept    *)
(* alive by a heartbeat, starts a gated worker and, when the worker stops, *)
(* finalises the run record and the ledger row.  Every store operation is  *)
(* one PostgreSQL transaction (advisory locks and FOR UPDATE rows), hence  *)
(* one action; the process code between two transactions is another.       *)
(*                                                                         *)
(* An attempt stands for its run id, its attempt id and, through Req, its  *)
(* key, its principal with the request fingerprint, and its replica.       *)
(***************************************************************************)
EXTENDS Naturals

CONSTANTS
    Instance,    \* replicas: each is one process life with its instance id
    Key,         \* idempotency key hashes
    Ident,       \* principal and request fingerprint pairs
    Attempt,     \* keyed run requests
    NoAttempt,   \* the owner of no row
    Req,         \* Attempt -> [key, ident, inst]
    LeaseTTL,    \* run_lease_ttl, in clock ticks
    Retention,   \* ttl_seconds of a terminal ledger row, in clock ticks
    Horizon,     \* bound: the last instant a request or a heartbeat is sent
    MaxTime,     \* bound: the last instant of the clock
    Crashable,   \* bound: the replicas that may die
    Drainable,   \* bound: the replicas that may be told to drain or stop
    Controlled   \* bound: the attempts whose run a client cancels or deletes

ASSUME KeyedRunAssumption ==
    /\ NoAttempt \notin Attempt
    /\ Req \in [Attempt -> [key : Key, ident : Ident, inst : Instance]]
    /\ LeaseTTL \in Nat \ {0}
    /\ Retention \in Nat \ {0}
    /\ Horizon \in Nat
    /\ MaxTime \in Nat
    /\ Crashable \subseteq Instance /\ Drainable \subseteq Instance
    /\ Controlled \subseteq Attempt

VARIABLES
    now,      \* PostgreSQL's clock; process clocks advance at its rate
    phase,    \* phase[i]: the lifecycle phase of replica i
    ledger,   \* ledger[k]: the idempotency row of key k
    runs,     \* runs[a]: the run record of attempt a
    pc,       \* pc[a]: where the handler and monitor of attempt a are
    mem,      \* mem[a]: process memory of attempt a (see NoMem)
    acked,    \* acked[a]: the run ids a 200 answer to attempt a named
    ran,      \* history: the attempts whose worker gate was opened
    freed,    \* history: the attempts whose row left by retention expiry
    deleted   \* history: the runs whose record a client deleted

store == <<ledger, runs>>
ghost == <<ran, freed, deleted>>
vars == <<now, phase, ledger, runs, pc, mem, acked, ran, freed, deleted>>

Phase == {"accepting", "fencing", "draining", "stopping", "down"}
LedgerState == {"absent", "claimed", "running", "completed", "indeterminate"}
\* "success" stands for success and partial_failure, "running" for running and
\* waiting_for_input: no statement of this protocol tells them apart.
Terminal == {"success", "failed", "aborted", "timed_out", "abandoned"}
RunState == {"absent", "running"} \cup Terminal
Outcome == {"none", "cancel", "terminal", "lost"}

PC == {"idle", "claiming", "claimed", "fenced", "registered", "executing",
       "intended", "accepted", "ended", "stopped", "fallback", "recorded",
       "releasing", "done", "crashed"}

NoRow == [st |-> "absent", att |-> NoAttempt, lease |-> 0, exp |-> 0,
          body |-> FALSE, cancel |-> FALSE, drain |-> FALSE]
NoRun == [st |-> "absent", lease |-> 0]

\* What the handler, heartbeat and monitor tasks of an attempt keep: the local
\* fence deadline and the outcome published on it, the heartbeat in flight (when
\* it was sent, what it was answered), and the status the monitor persists, with
\* the flag that closes the ledger row as indeterminate.
NoMem == [deadline |-> 0, outcome |-> "none", beat |-> "idle", sent |-> 0,
          answer |-> "none", status |-> "none", mark |-> FALSE]

LedgerRow == [st : LedgerState, att : Attempt \cup {NoAttempt}, lease : Nat, exp : Nat,
              body : BOOLEAN, cancel : BOOLEAN, drain : BOOLEAN]
RunRecord == [st : RunState, lease : Nat]
TaskMemory == [deadline : Nat, outcome : Outcome, beat : {"idle", "sent", "answered"},
               sent : Nat, answer : Outcome \cup {"owned"},
               status : Terminal \cup {"none"}, mark : BOOLEAN]

KeyOf(a) == Req[a].key
IdentOf(a) == Req[a].ident
InstOf(a) == Req[a].inst
Row(a) == ledger[KeyOf(a)]

InFlight(row) == row.st \in {"claimed", "running"}
Settled(row) == row.st \in {"completed", "indeterminate"}
\* Mutant: a settled row leaves before its retention.
ExpiredWhenSettled(row) == Settled(row)

Expired(row) == Settled(row) /\ row.exp <= now
\* Mutant: a row counts as replayable before its run intent is saved.
ReplayableEarly(row) == row.st \in {"claimed", "running", "completed"} /\ row.body

Replayable(row) == row.st \in {"running", "completed"} /\ row.body
Linked(a) == Row(a).st # "absent" /\ Row(a).att = a

Up(i) == phase[i] # "down"
\* The worker task of the attempt exists and has not been joined.
Working == {"registered", "executing", "intended", "accepted"}
\* The heartbeat task lives from the established fence to the close.
Beating == {"fenced", "ended", "stopped", "fallback", "recorded"} \cup Working

Goto(a, label) == pc' = [pc EXCEPT ![a] = label]
\* The handler returns, or the monitor ends: the tasks' memory is gone.
Leave(a) == Goto(a, "done") /\ mem' = [mem EXCEPT ![a] = NoMem]

Init ==
    /\ now = 0
    /\ phase = [i \in Instance |-> "accepting"]
    /\ ledger = [k \in Key |-> NoRow]
    /\ runs = [a \in Attempt |-> NoRun]
    /\ pc = [a \in Attempt |-> "idle"]
    /\ mem = [a \in Attempt |-> NoMem]
    /\ acked = [a \in Attempt |-> {}]
    /\ ran = {}
    /\ freed = {}
    /\ deleted = {}

----------------------------------------------------------------------------
\* Rows as the store's statements write them.

Indeterminate(row) ==
    [row EXCEPT !.st = "indeterminate", !.lease = 0, !.body = FALSE,
                !.exp = now + Retention]

\* Mutant: the settling statement forgets rows that are still claimed.
SettleRowUnclaimed(row) ==
    IF row.st \in {"running", "indeterminate"}
    THEN [row EXCEPT !.st = "completed", !.lease = 0, !.exp = now + Retention]
    ELSE row

\* finish_run and the reconciler settle the ledger row of a terminal run and
\* leave its response body alone.
SettleRow(row) ==
    IF InFlight(row) \/ row.st = "indeterminate"
    THEN [row EXCEPT !.st = "completed", !.lease = 0, !.exp = now + Retention]
    ELSE row

SettleRows(S) ==
    [k \in Key |-> IF ledger[k].att \in S THEN SettleRow(ledger[k]) ELSE ledger[k]]

\* The retention sweep, with the batch limit above the number of keys.
PrunedLedger == [k \in Key |-> IF Expired(ledger[k]) THEN NoRow ELSE ledger[k]]
\* The attempts it frees: their operation is over and so is their retention.
PrunedAttempts == {ledger[k].att : k \in {k \in Key : Settled(ledger[k]) /\ ledger[k].exp <= now}}

----------------------------------------------------------------------------
\* run_flow: the request handler, up to the registered worker.

Lookup(a) ==
    LET row == Row(a)
    IN  IF row.st = "absent" THEN "miss"
        ELSE IF IdentOf(row.att) # IdentOf(a) THEN "conflict"
        ELSE IF Expired(row) THEN "miss"
        ELSE IF Replayable(row) THEN "replay" ELSE "unsettled"

\* The lifecycle middleware's snapshot, then the read-only ledger lookup.  A
\* miss notes the instant from which the local deadline is counted.
Request(a) ==
    /\ pc[a] = "idle" /\ now <= Horizon
    /\ phase[InstOf(a)] = "accepting"
    /\ IF Lookup(a) = "miss"
       THEN /\ Goto(a, "claiming")
            /\ mem' = [mem EXCEPT ![a].deadline = now + LeaseTTL]
            /\ acked' = acked
       ELSE /\ Leave(a)
            /\ acked' = [acked EXCEPT ![a] = IF Lookup(a) = "replay" THEN {Row(a).att} ELSE {}]
    /\ UNCHANGED <<now, phase, store, ghost>>

\* claim_idempotency_record when the key has no live row.  The response body
\* is kept if the byte budgets allow it; the answer may be lost after commit.
ClaimNew(a) ==
    /\ PrunedLedger[KeyOf(a)].st = "absent"
    /\ \E fits \in BOOLEAN :
         ledger' = [PrunedLedger EXCEPT ![KeyOf(a)] =
                      [NoRow EXCEPT !.st = "claimed", !.att = a,
                                    !.lease = now + LeaseTTL, !.body = fits]]
    /\ \/ Goto(a, "claimed") /\ mem' = mem
       \/ Leave(a)
    /\ acked' = acked

\* ... and when it has one: replay, or refuse, fencing a claim whose lease ran
\* out.  The replayable test comes before the lease test.
ClaimExisting(a) ==
    LET row == PrunedLedger[KeyOf(a)]
        same == IdentOf(row.att) = IdentOf(a)
        dead == same /\ ~Replayable(row) /\ InFlight(row) /\ row.lease <= now
    IN  /\ row.st # "absent"
        /\ ledger' = IF dead THEN [PrunedLedger EXCEPT ![KeyOf(a)] = Indeterminate(row)]
                             ELSE PrunedLedger
        /\ acked' = [acked EXCEPT ![a] = IF same /\ Replayable(row) THEN {row.att} ELSE {}]
        /\ Leave(a)

\* The quota decision refuses a new row; the sweep before it commits.
ClaimOverQuota(a) ==
    /\ PrunedLedger[KeyOf(a)].st = "absent"
    /\ ledger' = PrunedLedger
    /\ Leave(a)
    /\ acked' = acked

Claim(a) ==
    /\ pc[a] = "claiming"
    /\ ClaimNew(a) \/ ClaimExisting(a) \/ ClaimOverQuota(a)
    /\ freed' = freed \cup PrunedAttempts
    /\ UNCHANGED <<now, phase, runs, ran, deleted>>

\* The claim consumed its own lease window before execution could start.
ClaimTooLate(a) ==
    /\ pc[a] = "claimed" /\ mem[a].beat = "idle" /\ now >= mem[a].deadline
    /\ Goto(a, "releasing")
    /\ UNCHANGED <<now, phase, store, mem, acked, ghost>>

\* Mutant: registration does not recheck the phase.
MayAlwaysRegister(a) == TRUE

\* Registration under the active_runs write lock, which rechecks the phase.
MayRegister(a) == phase[InstOf(a)] = "accepting"

Register(a) ==
    /\ pc[a] = "fenced" /\ MayRegister(a)
    /\ Goto(a, "registered")
    /\ UNCHANGED <<now, phase, store, mem, acked, ghost>>

\* The phase moved on, or the registry is full: the handler gives the claim
\* back and drops the heartbeat task.
RefuseRegistration(a) ==
    /\ pc[a] = "fenced"
    /\ Goto(a, "releasing")
    /\ mem' = [mem EXCEPT ![a] = NoMem]
    /\ UNCHANGED <<now, phase, store, acked, ghost>>

\* release_idempotency_record, best effort: a store error leaves the row.
ReleasedLedger(a) ==
    IF Linked(a) /\ InFlight(Row(a)) THEN [ledger EXCEPT ![KeyOf(a)] = NoRow] ELSE ledger

Release(a) ==
    /\ pc[a] = "releasing"
    /\ ledger' \in {ReleasedLedger(a), ledger}
    /\ Leave(a)
    /\ UNCHANGED <<now, phase, runs, acked, ghost>>

----------------------------------------------------------------------------
\* The run fence: RunLeaseHeartbeat and RunFenceCoordinator.

NoBeat(m) == [m EXCEPT !.beat = "idle", !.sent = 0, !.answer = "none"]
SetBeatless(a, m) == mem' = [mem EXCEPT ![a] = NoBeat(m)]
\* publish_locked: the first outcome is the only one.
Published(m, outcome) == IF m.outcome = "none" THEN [m EXCEPT !.outcome = outcome] ELSE m

SendHeartbeat(a) ==
    /\ pc[a] \in Beating \cup {"claimed"}
    /\ mem[a].beat = "idle" /\ mem[a].outcome = "none"
    /\ now < mem[a].deadline /\ now <= Horizon
    /\ mem' = [mem EXCEPT ![a] = [@ EXCEPT !.beat = "sent", !.sent = now]]
    /\ UNCHANGED <<now, phase, store, pc, acked, ghost>>

\* heartbeat_idempotent_run_record's verdict on the ledger row and the run.
Verdict(a) ==
    LET live == IF runs[a].st = "absent" THEN "claimed" ELSE "running"
    IN  IF ~Linked(a) THEN "lost"
        ELSE IF runs[a].st \in Terminal THEN "terminal"
        ELSE IF Row(a).st # live THEN "lost"
        ELSE IF Row(a).cancel THEN "cancel" ELSE "owned"

HeartbeatTx(a) ==
    /\ mem[a].beat = "sent"
    /\ mem' = [mem EXCEPT ![a] = [@ EXCEPT !.beat = "answered", !.answer = Verdict(a)]]
    /\ IF Verdict(a) = "owned"
       THEN /\ ledger' = [ledger EXCEPT ![KeyOf(a)].lease = now + LeaseTTL]
            /\ runs' = IF runs[a].st = "running"
                       THEN [runs EXCEPT ![a].lease = now + LeaseTTL] ELSE runs
       ELSE UNCHANGED store
    /\ UNCHANGED <<now, phase, pc, acked, ghost>>

\* Mutant: the local deadline counts from the answer.
RenewedFromAnswer(a) == now + LeaseTTL

\* conservative_lease_deadline counts from the instant the request was sent.
RenewedDeadline(a) == mem[a].sent + LeaseTTL

\* The initial heartbeat establishes the fence only if it was answered
\* "owned" within the claim's own window.
EstablishFence(a) ==
    /\ pc[a] = "claimed" /\ mem[a].beat = "answered"
    /\ IF mem[a].answer = "owned" /\ now < mem[a].deadline
       THEN Goto(a, "fenced") /\ SetBeatless(a, [mem[a] EXCEPT !.deadline = RenewedDeadline(a)])
       ELSE Goto(a, "releasing") /\ SetBeatless(a, mem[a])
    /\ UNCHANGED <<now, phase, store, acked, ghost>>

\* The loop renews a live fence, or publishes what the store said; an answer
\* after the deadline is a loss whatever it says.
FenceAfterAnswer(a) ==
    IF now >= mem[a].deadline THEN Published(mem[a], "lost")
    ELSE IF mem[a].answer # "owned" THEN Published(mem[a], mem[a].answer)
    ELSE IF now >= RenewedDeadline(a) THEN Published(mem[a], "lost")
    ELSE [mem[a] EXCEPT !.deadline = RenewedDeadline(a)]

ReceiveHeartbeat(a) ==
    /\ pc[a] \in Beating /\ mem[a].beat = "answered" /\ mem[a].outcome = "none"
    /\ SetBeatless(a, FenceAfterAnswer(a))
    /\ UNCHANGED <<now, phase, store, pc, acked, ghost>>

\* A store error, before or after the transaction committed.
HeartbeatFails(a) ==
    /\ pc[a] \in Beating \cup {"claimed"} /\ mem[a].beat \in {"sent", "answered"}
    /\ SetBeatless(a, mem[a])
    /\ pc' = IF pc[a] = "claimed" THEN [pc EXCEPT ![a] = "releasing"] ELSE pc
    /\ UNCHANGED <<now, phase, store, acked, ghost>>

\* lose_if_expired; the request still in flight is dropped with its future.
FenceExpires(a) ==
    /\ pc[a] \in Beating /\ mem[a].outcome = "none" /\ now >= mem[a].deadline
    /\ SetBeatless(a, Published(mem[a], "lost"))
    /\ UNCHANGED <<now, phase, store, pc, acked, ghost>>

----------------------------------------------------------------------------
\* The worker: the gate, the provisional intent, and crew:run()'s intent.

\* admit_execution opens the worker gate under the fence's mutex.
Admit(a) ==
    /\ pc[a] = "registered" /\ mem[a].outcome = "none"
    /\ IF now < mem[a].deadline
       THEN Goto(a, "executing") /\ ran' = ran \cup {a} /\ mem' = mem
       ELSE mem' = [mem EXCEPT ![a] = Published(@, "lost")] /\ UNCHANGED <<pc, ran>>
    /\ UNCHANGED <<now, phase, store, acked, freed, deleted>>

\* insert_run_intent: the run row is inserted, or hydrated when the run is
\* already accepted; a claimed ledger row becomes running with it.
Hydrates(a) ==
    /\ runs[a].st = "running" /\ Linked(a)
    /\ Row(a).st \in {"running", "completed"} /\ ~Row(a).drain
\* Mutant: the mapping statement ignores the drain mark.
MapsDraining(a) ==
    /\ Linked(a) /\ Row(a).st = "claimed" /\ ~Row(a).cancel /\ Row(a).lease > now

Maps(a) ==
    /\ Linked(a) /\ Row(a).st = "claimed"
    /\ ~Row(a).cancel /\ ~Row(a).drain /\ Row(a).lease > now

IntentVerdict(a) ==
    LET fresh == runs[a].st = "absent"
    IN  IF ~fresh /\ ~Hydrates(a)
        THEN IF Linked(a) /\ Row(a).drain THEN "draining" ELSE "conflict"
        ELSE IF ~Maps(a) /\ Linked(a) /\ Row(a).drain THEN "draining"
        ELSE IF ~Maps(a) /\ Linked(a) /\ fresh THEN "conflict" ELSE "saved"

SaveIntent(a) ==
    IF IntentVerdict(a) = "saved"
    THEN /\ runs' = [runs EXCEPT ![a] = [st |-> "running", lease |-> now + LeaseTTL]]
         /\ ledger' = IF Maps(a)
                      THEN [ledger EXCEPT ![KeyOf(a)].st = "running",
                                          ![KeyOf(a)].lease = now + LeaseTTL]
                      ELSE ledger
    ELSE UNCHANGED store

\* Mutant: the worker's status is not kept.
EndWorkerSilently(a, status) == Goto(a, "ended") /\ mem' = mem

EndWorker(a, status) == Goto(a, "ended") /\ mem' = [mem EXCEPT ![a].status = status]

\* The provisional intent, written before any Lua of a keyed run.
ProvisionalIntent(a) ==
    /\ pc[a] = "executing"
    /\ SaveIntent(a)
    /\ IF IntentVerdict(a) = "saved" THEN Goto(a, "intended") /\ mem' = mem
                                     ELSE EndWorker(a, "failed")
    /\ UNCHANGED <<now, phase, acked, ghost>>

\* The worker reads its row back before the client is told.
ConfirmIntent(a) ==
    /\ pc[a] = "intended"
    /\ IF Linked(a) /\ Row(a).st = "running" /\ Lookup(a) = "replay"
       THEN Goto(a, "accepted") /\ mem' = mem /\ acked' = [acked EXCEPT ![a] = {a}]
       ELSE EndWorker(a, "failed") /\ acked' = acked
    /\ UNCHANGED <<now, phase, store, ghost>>

\* crew:run() saves its own intent on the same run id.
CrewIntent(a) ==
    /\ pc[a] = "accepted"
    /\ SaveIntent(a)
    /\ IF IntentVerdict(a) = "saved" THEN UNCHANGED <<pc, mem>> ELSE EndWorker(a, "failed")
    /\ UNCHANGED <<now, phase, acked, ghost>>

\* The flow returns, or any step of the worker fails.
WorkerReturns(a) ==
    /\ pc[a] \in Working \ {"registered"}
    /\ \/ EndWorker(a, "failed")
       \/ pc[a] = "accepted" /\ EndWorker(a, "success")
    /\ UNCHANGED <<now, phase, store, acked, ghost>>

\* DELETE on the owner while it accepts mutations, or the stopping teardown.
AbortWorker(a) ==
    /\ pc[a] \in Working
    /\ phase[InstOf(a)] = "accepting" => a \in Controlled
    /\ phase[InstOf(a)] \in {"accepting", "stopping"}
    /\ EndWorker(a, "aborted")
    /\ UNCHANGED <<now, phase, store, acked, ghost>>

----------------------------------------------------------------------------
\* The monitor: one finaliser per attempt.  Whatever stopped the worker, a usage
\* snapshot that cannot be taken turns the status it persists into failed.

StatusOfFence(a) ==
    CASE mem[a].outcome = "cancel" -> {"aborted", "failed"}
      [] mem[a].outcome = "lost" -> {"abandoned", "failed"}
      [] OTHER -> IF runs[a].st \in Terminal THEN {runs[a].st} ELSE Terminal

\* The biased select: a published fence outcome wins over a joined worker.
StopByFence(a) ==
    /\ pc[a] \in Working \cup {"ended"} /\ mem[a].outcome # "none"
    /\ Goto(a, "stopped")
    /\ \E status \in StatusOfFence(a) :
         mem' = [mem EXCEPT ![a] = [@ EXCEPT !.status = status, !.mark = mem[a].outcome = "lost"]]
    /\ UNCHANGED <<now, phase, store, acked, ghost>>

JoinWorker(a) ==
    /\ pc[a] = "ended" /\ mem[a].outcome = "none"
    /\ Goto(a, "stopped")
    /\ \E status \in {mem[a].status, "failed"} : mem' = [mem EXCEPT ![a].status = status]
    /\ UNCHANGED <<now, phase, store, acked, ghost>>

\* The worker outlives max_run_lifetime.
TimeOutWorker(a) ==
    /\ pc[a] \in Working \ {"registered"} /\ mem[a].outcome = "none"
    /\ Goto(a, "stopped")
    /\ \E status \in {"timed_out", "failed"} : mem' = [mem EXCEPT ![a].status = status]
    /\ UNCHANGED <<now, phase, store, acked, ghost>>

\* Mutant: the terminal write is not a compare-and-set.
OverwrittenRun(a) == [st |-> mem[a].status, lease |-> 0]

\* finish_run: a compare-and-set on an in-flight run; either way the ledger row
\* of a terminal run is settled.  A missing record sends the monitor to the
\* fallback intent.
FinishedRun(a) ==
    IF runs[a].st = "running" THEN [st |-> mem[a].status, lease |-> 0] ELSE runs[a]

FinishRun(a) ==
    /\ pc[a] = "stopped"
    /\ IF runs[a].st = "absent"
       THEN Goto(a, "fallback") /\ UNCHANGED store
       ELSE /\ Goto(a, "recorded")
            /\ runs' = [runs EXCEPT ![a] = FinishedRun(a)]
            /\ ledger' = SettleRows({a})
    /\ UNCHANGED <<now, phase, mem, acked, ghost>>

\* persist_terminal_outcome's second half.  A refusal other than the drain
\* fence sends the monitor round its retry loop.
FallbackIntent(a) ==
    /\ pc[a] = "fallback"
    /\ SaveIntent(a)
    /\ IF IntentVerdict(a) = "draining"
       THEN Goto(a, "recorded") /\ mem' = [mem EXCEPT ![a].mark = TRUE]
       ELSE Goto(a, "stopped") /\ mem' = mem
    /\ UNCHANGED <<now, phase, acked, ghost>>

\* mark_idempotency_indeterminate_record for a lost fence or a drain-refused
\* intent, complete_idempotency_record otherwise; then the heartbeat is dropped.
\* Completion of a row that is gone is an error the monitor retries, for ever.
ClosedRow(a, fits) ==
    IF mem[a].mark THEN Indeterminate(Row(a))
    ELSE [Row(a) EXCEPT !.st = "completed", !.lease = 0, !.body = fits,
                        !.exp = now + Retention]

\* Mutant: the finaliser releases the row instead of keeping it as a tombstone.
CloseByRelease(a) ==
    /\ pc[a] = "recorded"
    /\ ledger' = IF Linked(a) THEN [ledger EXCEPT ![KeyOf(a)] = NoRow] ELSE ledger
    /\ Leave(a)
    /\ UNCHANGED <<now, phase, runs, acked, ghost>>

CloseLedger(a) ==
    /\ pc[a] = "recorded"
    /\ mem[a].mark \/ Row(a).st # "absent"
    /\ \E fits \in BOOLEAN :
         ledger' = IF Linked(a) /\ InFlight(Row(a))
                   THEN [ledger EXCEPT ![KeyOf(a)] = ClosedRow(a, fits)] ELSE ledger
    /\ Leave(a)
    /\ UNCHANGED <<now, phase, runs, acked, ghost>>

----------------------------------------------------------------------------
\* Peers and maintenance: any live replica may take these steps.

SomeoneUp == \E i \in Instance : Up(i)

\* reconcile_abandoned_runs_maintenance, with its batch above the model's size:
\* an expired claim without a run gets an abandoned tombstone, an expired run
\* becomes abandoned, and both settle their ledger rows.
DeadClaims == {a \in Attempt : /\ Linked(a) /\ Row(a).st = "claimed" /\ Row(a).lease <= now
                               /\ runs[a].st = "absent"}
\* Mutant: only legacy rows without a lease are reconciled.
UnleasedRuns == {a \in Attempt : runs[a].st = "running" /\ runs[a].lease = 0}

DeadRuns == {a \in Attempt : runs[a].st = "running" /\ runs[a].lease <= now}

Reconcile ==
    LET dead == DeadClaims \cup DeadRuns
    IN  /\ SomeoneUp /\ dead # {}
        /\ runs' = [a \in Attempt |-> IF a \in dead THEN [st |-> "abandoned", lease |-> 0]
                                      ELSE runs[a]]
        /\ ledger' = SettleRows(dead)
        /\ UNCHANGED <<now, phase, pc, mem, acked, ghost>>

\* prune_idempotency_records.
Prune ==
    /\ SomeoneUp /\ PrunedAttempts # {}
    /\ ledger' = PrunedLedger
    /\ freed' = freed \cup PrunedAttempts
    /\ UNCHANGED <<now, phase, runs, pc, mem, acked, ran, deleted>>

\* request_run_cancellation from another replica than the owner.
Cancel(a) ==
    /\ a \in Controlled
    /\ \E i \in Instance \ {InstOf(a)} : phase[i] = "accepting"
    /\ runs[a].st = "running" /\ Linked(a) /\ InFlight(Row(a))
    /\ ~Row(a).drain /\ ~Row(a).cancel
    /\ ledger' = [ledger EXCEPT ![KeyOf(a)].cancel = TRUE]
    /\ UNCHANGED <<now, phase, runs, pc, mem, acked, ghost>>

\* delete_run: refused while the record is in flight, or, on the owner, while
\* the run is registered and not terminal.
DeleteRun(a) ==
    /\ a \in Controlled
    /\ \E i \in Instance :
         /\ phase[i] = "accepting"
         /\ i = InstOf(a) => pc[a] \in {"done", "crashed"}
    /\ runs[a].st \in Terminal
    /\ runs' = [runs EXCEPT ![a] = NoRun]
    /\ deleted' = deleted \cup {a}
    /\ UNCHANGED <<now, phase, ledger, pc, mem, acked, ran, freed>>

BeginFencing(i) ==
    /\ i \in Drainable /\ phase[i] = "accepting"
    /\ phase' = [phase EXCEPT ![i] = "fencing"]
    /\ UNCHANGED <<now, store, pc, mem, acked, ghost>>

\* begin_owner_drain_maintenance marks every in-flight row the replica owns;
\* the phase advances only if the answer arrives before the watchdog.
DrainedLedger(i) ==
    [k \in Key |-> IF InFlight(ledger[k]) /\ InstOf(ledger[k].att) = i
                   THEN [ledger[k] EXCEPT !.drain = TRUE] ELSE ledger[k]]

FenceOwner(i) ==
    /\ phase[i] = "fencing"
    /\ ledger' = DrainedLedger(i)
    /\ \E answered \in BOOLEAN :
         phase' = IF answered THEN [phase EXCEPT ![i] = "draining"] ELSE phase
    /\ UNCHANGED <<now, runs, pc, mem, acked, ghost>>

MarkStopping(i) ==
    /\ phase[i] = "draining"
    /\ phase' = [phase EXCEPT ![i] = "stopping"]
    /\ UNCHANGED <<now, store, pc, mem, acked, ghost>>

\* The process dies, or exits after its teardown: every handler, worker,
\* monitor and heartbeat task of the replica is gone.
Crash(i) ==
    /\ i \in Crashable /\ Up(i)
    /\ phase' = [phase EXCEPT ![i] = "down"]
    /\ pc' = [a \in Attempt |-> IF InstOf(a) = i /\ pc[a] # "done" THEN "crashed" ELSE pc[a]]
    /\ mem' = [a \in Attempt |-> IF InstOf(a) = i THEN NoMem ELSE mem[a]]
    /\ UNCHANGED <<now, store, acked, ghost>>

Tick ==
    /\ now < MaxTime
    /\ now' = now + 1
    /\ UNCHANGED <<phase, store, pc, mem, acked, ghost>>

----------------------------------------------------------------------------
\* One attempt's own steps: its handler, its heartbeat, its worker, its monitor.
HandlerStep(a) ==
    Claim(a) \/ ClaimTooLate(a) \/ Register(a) \/ RefuseRegistration(a) \/ Release(a)
HeartbeatStep(a) ==
    \/ SendHeartbeat(a) \/ HeartbeatTx(a) \/ EstablishFence(a) \/ ReceiveHeartbeat(a)
    \/ HeartbeatFails(a) \/ FenceExpires(a)
WorkerStep(a) ==
    \/ Admit(a) \/ ProvisionalIntent(a) \/ ConfirmIntent(a) \/ CrewIntent(a)
    \/ WorkerReturns(a) \/ AbortWorker(a)
MonitorStep(a) ==
    \/ StopByFence(a) \/ JoinWorker(a) \/ TimeOutWorker(a)
    \/ FinishRun(a) \/ FallbackIntent(a) \/ CloseLedger(a)
PeerStep ==
    \/ Reconcile \/ Prune
    \/ \E a \in Attempt : Cancel(a) \/ DeleteRun(a)
LifecycleStep(i) == BeginFencing(i) \/ FenceOwner(i) \/ MarkStopping(i) \/ Crash(i)

Next ==
    \/ \E a \in Attempt : \/ Request(a) \/ HandlerStep(a) \/ HeartbeatStep(a)
                          \/ WorkerStep(a) \/ MonitorStep(a)
    \/ \E i \in Instance : LifecycleStep(i)
    \/ PeerStep
    \/ Tick

Spec == Init /\ [][Next]_vars

----------------------------------------------------------------------------
\* Properties.

\* The variables have the shapes the store's columns and the process's tasks
\* give them; a finaliser never persists a status its worker did not leave.
TypeOK ==
    /\ now \in Nat
    /\ phase \in [Instance -> Phase]
    /\ ledger \in [Key -> LedgerRow]
    /\ runs \in [Attempt -> RunRecord]
    /\ pc \in [Attempt -> PC]
    /\ mem \in [Attempt -> TaskMemory]
    /\ \A a \in Attempt : pc[a] \in {"ended", "stopped", "fallback", "recorded"} =>
                            mem[a].status # "none"
    /\ acked \in [Attempt -> SUBSET Attempt]
    /\ ran \subseteq Attempt /\ freed \subseteq Attempt /\ deleted \subseteq Attempt

\* Two attempts on one key never both open a worker gate, unless the ledger row
\* of one of them outlived its retention: a retry never executes the flow twice,
\* whichever replicas, crashes, expired leases and lost answers intervene.
OneExecutionPerKey ==
    \A a, b \in ran : a # b /\ KeyOf(a) = KeyOf(b) => a \in freed \/ b \in freed

\* Every 200 answer for a key names the same run while its row is retained.
RepliesConverge ==
    \A a, b \in Attempt : KeyOf(a) = KeyOf(b) =>
        \A r \in acked[a], s \in acked[b] : r = s \/ r \in freed \/ s \in freed

\* "Neither the initial 200 nor a replay can ever reference a run that is still
\* only process-local" (execute_crew_from_path_with_events): an acknowledged run
\* has a durable record until a client deletes it.
AckedRunIsDurable ==
    \A a \in Attempt : \A r \in acked[a] : runs[r].st # "absent" \/ r \in deleted

\* While the local fence of a run is live, no peer has taken its row: it is not
\* settled, not handed to another attempt, and its run is not abandoned.
LiveFenceExcludesPeers ==
    \A a \in Attempt :
        /\ pc[a] \in Working \cup {"fenced", "ended", "stopped", "fallback"}
        /\ mem[a].outcome = "none" /\ now < mem[a].deadline
        => Linked(a) /\ InFlight(Row(a)) /\ runs[a].st \notin Terminal

\* The ledger row follows its run: a terminal run has a settled row, and a run
\* in flight a running one, or one a peer fenced as indeterminate.
LedgerMatchesRun ==
    \A a \in Attempt : Linked(a) =>
        /\ runs[a].st \in Terminal => Settled(Row(a))
        /\ runs[a].st = "running" => Row(a).st \in {"running", "indeterminate"}

\* A terminal status is never rewritten: not by the owner finishing late, not by
\* the reconciler, not by a fallback intent.
TerminalIsFinal ==
    [][\A a \in Attempt : runs[a].st \in Terminal => runs'[a].st \in {runs[a].st, "absent"}]_vars

\* A replica that reports draining has marked every registered run of its own
\* whose row is in flight, the ones admitted just before the fence included.
DrainFenceComplete ==
    \A a \in Attempt :
        /\ phase[InstOf(a)] \in {"draining", "stopping"}
        /\ pc[a] \in Working \cup {"ended", "stopped", "fallback"}
        /\ Linked(a) /\ InFlight(Row(a))
        => Row(a).drain

\* Once the owner drains, a peer's cancellation is no longer accepted for its
\* runs and none of its claims becomes a run.
DrainedOwnerTakesNoControl ==
    [][\A a \in Attempt :
         phase[InstOf(a)] \in {"draining", "stopping"} /\ Linked(a) =>
            /\ ~Row(a).cancel => ~Row(a)'.cancel
            /\ Row(a).st = "claimed" => Row(a)'.st # "running"]_vars

\* A run whose lease can expire within the modelled time does not stay in flight,
\* whether its owner lives or dies.
RunsSettle ==
    \A a \in Attempt : runs[a].st = "running" ~> runs[a].st # "running" \/ runs[a].lease > MaxTime

(***************************************************************************)
(* The inductive invariants behind these properties, which KeyedRunProofs  *)
(* proves for every instance.                                              *)
(***************************************************************************)

\* A row that exists is owned by an attempt on its key; an absent one by none.
RowsNamed ==
    \A k \in Key : IF ledger[k].st = "absent" THEN ledger[k].att = NoAttempt
                   ELSE ledger[k].att \in Attempt /\ KeyOf(ledger[k].att) = k

TypeInv == TypeOK /\ RowsNamed

\* Before the worker gate opens, and after the handler gave up.
PreRun == {"idle", "claiming", "claimed", "fenced", "registered", "releasing"}

\* An attempt that has not asked for its claim owns nothing.
Unclaimed ==
    \A a \in Attempt : pc[a] \in {"idle", "claiming"} => ~Linked(a) /\ runs[a].st = "absent"

\* An attempt past its claim, or that ever ran, still owns its row unless the
\* row outlived its retention.
ClaimHeld ==
    \A a \in Attempt : pc[a] \in Beating \cup {"claimed"} \/ a \in ran => Linked(a) \/ a \in freed

GateClosed == \A a \in Attempt : pc[a] \in PreRun => a \notin ran

\* The row of an attempt follows its run; a running row has a finaliser ahead.
RowFollowsRun ==
    \A a \in Attempt : Linked(a) =>
        /\ Row(a).st = "claimed" => runs[a].st = "absent"
        /\ Row(a).st = "running" => /\ runs[a].st = "running"
                                    /\ pc[a] \notin PreRun \cup {"done", "recorded"}
        /\ Row(a).st = "completed" =>
             /\ runs[a].st # "running"
             /\ Row(a).body => runs[a].st # "absent" \/ a \in deleted

\* The monitor reaches the fallback, and the close, with the run out of flight.
MonitorKnows ==
    \A a \in Attempt :
        /\ pc[a] \in {"fallback", "recorded"} => runs[a].st # "running"
        /\ pc[a] = "recorded" => mem[a].mark \/ runs[a].st # "absent" \/ a \in deleted

\* An acknowledged run keeps its record and its row.
AckedKept ==
    \A a \in Attempt : \A r \in acked[a] :
        /\ KeyOf(r) = KeyOf(a)
        /\ r \in freed \/ (Linked(r) /\ Row(r).st # "claimed")
        /\ runs[r].st # "absent" \/ r \in deleted

OwnershipInv ==
    TypeInv /\ Unclaimed /\ ClaimHeld /\ GateClosed /\ RowFollowsRun /\ MonitorKnows /\ AckedKept

----------------------------------------------------------------------------
\* The fence of an attempt is live: its local deadline has not passed.
Fenced == Working \cup {"claimed", "fenced", "ended", "stopped", "fallback"}
LiveFence(a) == pc[a] \in Fenced /\ mem[a].outcome = "none" /\ now < mem[a].deadline

\* The instant d is covered by the leases the store holds for the attempt.
Covered(a, d) == d <= Row(a).lease /\ (runs[a].st = "running" => d <= runs[a].lease)

\* Nothing local runs ahead of the clock.
Punctual ==
    \A a \in Attempt : mem[a].sent <= now /\ mem[a].deadline <= now + LeaseTTL

\* A live fence is covered by the store's leases, and so is the one that an
\* answer still on its way would install.
FenceCovered ==
    \A a \in Attempt : LiveFence(a) =>
        /\ Linked(a) /\ InFlight(Row(a)) /\ runs[a].st \notin Terminal
        /\ Covered(a, mem[a].deadline)
        /\ mem[a].beat = "answered" /\ mem[a].answer = "owned" =>
             Covered(a, mem[a].sent + LeaseTTL)

FenceInv == OwnershipInv /\ Punctual /\ FenceCovered

\* The tasks of a dead process are gone with it.
CrashedDown == \A a \in Attempt : pc[a] = "crashed" => phase[InstOf(a)] = "down"

DrainInv == OwnershipInv /\ CrashedDown /\ DrainFenceComplete

=============================================================================
