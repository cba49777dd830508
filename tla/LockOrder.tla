------------------------------ MODULE LockOrder ------------------------------
(***************************************************************************)
(* The locks the PostgreSQL transactions take, in the order they take them *)
(* (engine/postgres_store).  A transaction is a sequence of stages, one    *)
(* per statement: an advisory lock, a row read FOR UPDATE or FOR SHARE, or *)
(* the set of rows a statement writes, which PostgreSQL locks in an order  *)
(* of its own.  Locks are released together, when the transaction ends.    *)
(* PostgreSQL grants a lock when no other transaction holds it in a        *)
(* conflicting mode; its wait queue only delays a grant further.           *)
(***************************************************************************)
EXTENDS Naturals, Sequences, FiniteSets

CONSTANTS Slots,      \* pool connections, each running one transaction
          Runs, Chats, Principals,
          Keys,       \* idempotency keys
          Resource,   \* the run or conversation a key's claim is for
          Caller,     \* the principal a key belongs to
          Kinds,      \* the kinds of transaction that are started
          None

ResourceAssumption == Resource \in [Keys -> Runs \cup Chats] /\ Runs \cap Chats = {}
CallerAssumption == Caller \in [Keys -> Principals]

VARIABLES prog,   \* prog[t]: the transaction t runs: its kind and its stages
          at,     \* at[t]: the stage being executed
          held,   \* held[t]: the locks it holds, with their mode
          want    \* want[t]: {lock} when it is blocked on a lock

vars == <<prog, at, held, want>>

(***************************************************************************)
(* Locks.  A row of the ledger is locked as live (claimed or running) or   *)
(* as ended (completed or indeterminate): a statement that asks for rows   *)
(* in one state does not wait for a row whose last committed version is in *)
(* the other.                                                              *)
(***************************************************************************)
Lock(class, of) == [class |-> class, of |-> of]
Quota == Lock("quota", None)
Fence == Lock("run-fence", None)
Usage == Lock("event-usage", None)
Resourced(r) == Lock("resource", r)
Phases == {"live", "ended"}
KeysOf(r) == {k \in Keys : Resource[k] = r}
RunKeys == {k \in Keys : Resource[k] \in Runs}
ChatKeys == {k \in Keys : Resource[k] \in Chats}
Unkeyed == {r \in Runs : KeysOf(r) = {}}

\* One statement: it must take every lock of the set ("all"), takes the rows it
\* happens to match ("some"), the free ones among them ("skip"), or exactly the
\* rows of the set, chosen because they are free ("pick").
Stage(locks, mode, how) == [locks |-> locks, mode |-> mode, how |-> how]

lock_advisory(lock) == Stage({lock}, "X", "all")
lock_run_fence(shared) == Stage({Fence}, IF shared THEN "S" ELSE "X", "all")
lock_resource(r) == lock_advisory(Resourced(r))
lock_principal(k) == lock_advisory(Lock("principal", Caller[k]))
lock_scope(c) == lock_advisory(Lock("scope", c))
lock_idempotency_key(k) == lock_advisory(Lock("key", k))

\* A row the transaction cannot go on without, and rows that may not be there.
Row(class, of) == Stage({Lock(class, of)}, "X", "all")
Rows(class, S) == Stage({Lock(class, x) : x \in S}, "X", "some")
\* Rows selected FOR UPDATE SKIP LOCKED.
Free(class, S) == Stage({Lock(class, x) : x \in S}, "X", "skip")

\* Rows of the ledger in either state.
IdemRows(K, how) == Stage({Lock(p, k) : p \in Phases, k \in K}, "X", how)

\* The accounting trigger of the ledger: the global row and the principals'.
AccountingTrigger(K) == Rows("accounting", {None} \cup {Caller[k] : k \in K})

(***************************************************************************)
(* The transactions of the idempotency ledger.  p is the state in which a  *)
(* statement on one key finds its row.                                     *)
(***************************************************************************)
ClaimRun(k) ==
    << lock_advisory(Quota), lock_principal(k), lock_run_fence(TRUE), lock_resource(Resource[k]),
       lock_idempotency_key(k),
       Rows("ended", Keys), AccountingTrigger(Keys),          \* pruning
       IdemRows({k}, "some"), AccountingTrigger({k}) >>

ClaimConversation(k) ==
    << lock_advisory(Quota), lock_principal(k), lock_resource(Resource[k]), lock_scope(Resource[k]),
       lock_idempotency_key(k),
       Rows("ended", Keys), AccountingTrigger(Keys),          \* pruning
       IdemRows({k}, "some"), Rows("conversation", {Resource[k]}),
       IdemRows(KeysOf(Resource[k]), "some"),                 \* holders of the scope
       AccountingTrigger({k}) >>

claim_idempotency_record == {ClaimRun(k) : k \in RunKeys} \cup {ClaimConversation(k) : k \in ChatKeys}

mark_idempotency_indeterminate_record(k, p) ==
    << lock_advisory(Quota), lock_principal(k), lock_idempotency_key(k), Rows(p, {k}),
       AccountingTrigger({k}) >>

release_idempotency_record(k, p) ==
    << lock_advisory(Quota), lock_principal(k), lock_idempotency_key(k), Rows(p, {k}),
       AccountingTrigger({k}) >>

complete_idempotency_record(k, p) ==
    << lock_advisory(Quota), lock_principal(k), lock_idempotency_key(k), Rows(p, {k}),
       AccountingTrigger({k}) >>

commit_conversation_idempotency_record(k, p) ==
    << lock_advisory(Quota), lock_principal(k), lock_resource(Resource[k]), lock_idempotency_key(k),
       Rows(p, {k}), Rows("conversation", {Resource[k]}), AccountingTrigger({k}) >>

prune_idempotency_records ==
    << lock_advisory(Quota), Rows("ended", Keys), AccountingTrigger(Keys) >>

heartbeat_idempotency_record(k, p) == << lock_idempotency_key(k), Rows(p, {k}) >>

lookup_idempotency_for_principal_record(k, p) == << lock_idempotency_key(k), Rows(p, {k}) >>

\* Of a terminal run it deletes the questions.
heartbeat_idempotent_run_record(k, p) ==
    << lock_run_fence(TRUE), lock_resource(Resource[k]), lock_idempotency_key(k), Rows(p, {k}),
       Rows("run", {Resource[k]}), Rows("human", {Resource[k]}) >>

(***************************************************************************)
(* The transactions on a run, with the one key that claimed it or none.    *)
(***************************************************************************)
IntentKeyed(k, p) ==
    << lock_run_fence(TRUE), lock_resource(Resource[k]), Row("run", Resource[k]), Rows(p, {k}) >>
IntentUnkeyed(r) == << lock_run_fence(TRUE), lock_resource(r), Row("run", r) >>
insert_run_intent ==
    {IntentKeyed(k, p) : k \in RunKeys, p \in Phases} \cup {IntentUnkeyed(r) : r \in Unkeyed}

FinishKeyed(k, p) ==
    << lock_advisory(Quota), lock_run_fence(TRUE), lock_resource(Resource[k]),
       Rows("run", {Resource[k]}), Rows(p, {k}), AccountingTrigger({k}),
       Rows("human", {Resource[k]}) >>
FinishUnkeyed(r) ==
    << lock_advisory(Quota), lock_run_fence(TRUE), lock_resource(r), Rows("run", {r}),
       Rows("human", {r}) >>
finish_run == {FinishKeyed(k, p) : k \in RunKeys, p \in Phases} \cup {FinishUnkeyed(r) : r \in Unkeyed}

set_run_status(r) == << Rows("run", {r}) >>

\* A cancellation that does not take the run's resource lock: it holds the run
\* row while it waits for the key, a run heartbeat the key while it waits for
\* the run row.
CancelWithoutResource(k, p) ==
    << lock_run_fence(TRUE), Row("run", Resource[k]), lock_idempotency_key(k), Rows(p, {k}),
       Rows("human", {Resource[k]}) >>

\* The key is found without a lock: its row may have ended when it is locked.
request_run_cancellation_maintenance(k, p) ==
    << lock_run_fence(TRUE), lock_resource(Resource[k]), Row("run", Resource[k]),
       lock_idempotency_key(k), Rows(p, {k}), Rows("human", {Resource[k]}) >>

\* The cancellation of a run that is already terminal.
CancelTerminal(r) ==
    << lock_run_fence(TRUE), lock_resource(r), Row("run", r), Rows("human", {r}) >>

\* The question is locked first, as it names the key; it is updated or deleted last.
answer_human_input_record(k) ==
    << lock_run_fence(TRUE), lock_resource(Resource[k]), Row("human", Resource[k]),
       lock_idempotency_key(k), Rows("live", {k}) >>

\* A question that is registered already, and a new one, whose foreign key shares
\* the run row.
RegisterAgain(k) ==
    << lock_run_fence(TRUE), lock_resource(Resource[k]), lock_idempotency_key(k), Rows("live", {k}),
       Rows("human", {Resource[k]}) >>
RegisterNew(k) ==
    << lock_run_fence(TRUE), lock_resource(Resource[k]), lock_idempotency_key(k), Rows("live", {k}),
       Stage({Lock("run", Resource[k])}, "S", "all") >>
register_human_input_record == UNION {{RegisterAgain(k), RegisterNew(k)} : k \in RunKeys}

close_human_input_record(r) == << lock_run_fence(TRUE), lock_resource(r), Rows("human", {r}) >>

\* The instance's runs that no key claims.
heartbeat_owned_runs_maintenance == << lock_run_fence(TRUE), Rows("run", Unkeyed) >>

\* R is the set of runs the reconciler finds expired and unlocked, and inserts for
\* claims that never published one; what follows is limited to those.
reconcile_abandoned_runs_maintenance(R) ==
    LET K == UNION {KeysOf(r) : r \in R}
    IN  << lock_advisory(Quota), lock_run_fence(FALSE),
           IdemRows(K, "skip"),
           Stage({Lock("run", r) : r \in R}, "X", "pick"),
           Rows("event-state", R), IdemRows(K, "some"), AccountingTrigger(Keys), Rows("human", R),
           IdemRows(ChatKeys, "skip"), AccountingTrigger(Keys),
           Free("human", Runs) >>

begin_owner_drain_maintenance == << lock_run_fence(FALSE), Rows("live", RunKeys) >>

(***************************************************************************)
(* The event journal and the conversations.                                *)
(***************************************************************************)

\* Retention and eviction update the state rows of the runs whose events they
\* delete: a batch in the order of the run ids, and as many batches as it takes.
delete_run_event_candidates == Rows("event-state", Runs)

append_run_event_journal(r) ==
    << lock_advisory(Usage), Row("run", r), delete_run_event_candidates, Rows("event-state", {r}),
       delete_run_event_candidates >>

read_run_events_journal(r) ==
    << Stage({Lock("run", r)}, "S", "all"), Stage({Lock("event-state", r)}, "S", "some") >>

remove_run(r) ==
    << lock_advisory(Usage), Row("run", r), Rows("event-state", {r}), Rows("human", {r}) >>

prune_expired_run_events_best_effort ==
    << Free("event-maintenance", {None}), lock_advisory(Usage), delete_run_event_candidates >>

save_conversation_record(c) == << lock_resource(c), Rows("conversation", {c}) >>

delete_conversation_record(c) == << lock_resource(c), Rows("conversation", {c}) >>

Transaction(kind, programs) == {[kind |-> kind, stages |-> p] : p \in programs}

\* Every transaction, over the keys, runs and conversations.
Programs == UNION
    { Transaction("claim", claim_idempotency_record),
      Transaction("mark", {mark_idempotency_indeterminate_record(k, p) : k \in Keys, p \in Phases}
                          \cup {release_idempotency_record(k, p) : k \in Keys, p \in Phases}
                          \cup {complete_idempotency_record(k, p) : k \in Keys, p \in Phases}),
      Transaction("commit", {commit_conversation_idempotency_record(k, p)
                                : k \in ChatKeys, p \in Phases}),
      Transaction("prune", {prune_idempotency_records}),
      Transaction("beat", {heartbeat_idempotency_record(k, p) : k \in Keys, p \in Phases}
                          \cup {lookup_idempotency_for_principal_record(k, p)
                                    : k \in Keys, p \in Phases}),
      Transaction("runbeat", {heartbeat_idempotent_run_record(k, p) : k \in RunKeys, p \in Phases}),
      Transaction("intent", insert_run_intent),
      Transaction("finish", finish_run),
      Transaction("status", {set_run_status(r) : r \in Runs}),
      Transaction("cancel", {request_run_cancellation_maintenance(k, p)
                                : k \in RunKeys, p \in Phases}
                            \cup {CancelTerminal(r) : r \in Runs}),
      Transaction("register", register_human_input_record),
      Transaction("answer", {answer_human_input_record(k) : k \in RunKeys}),
      Transaction("close", {close_human_input_record(r) : r \in Runs}),
      Transaction("ownbeat", {heartbeat_owned_runs_maintenance}),
      Transaction("reconcile", {reconcile_abandoned_runs_maintenance(R) : R \in SUBSET Runs}),
      Transaction("drain", {begin_owner_drain_maintenance}),
      Transaction("append", {append_run_event_journal(r) : r \in Runs}),
      Transaction("read", {read_run_events_journal(r) : r \in Runs}),
      Transaction("remove", {remove_run(r) : r \in Runs}),
      Transaction("retain", {prune_expired_run_events_best_effort}),
      Transaction("save", {save_conversation_record(c) : c \in Chats}
                          \cup {delete_conversation_record(c) : c \in Chats}) }

(***************************************************************************)
(* Execution.                                                              *)
(***************************************************************************)
Idle == [kind |-> "idle", stages |-> <<>>]
Running(t) == prog[t].kind # "idle"
Now(t) == prog[t].stages[at[t]]
LocksOf(t) == {h[1] : h \in held[t]}

\* The transactions that hold lock in a mode that conflicts with mode.
Blockers(t, lock, mode) ==
    {u \in Slots \ {t} : \E m \in {"S", "X"} : <<lock, m>> \in held[u] /\ "X" \in {m, mode}}

Init == /\ prog = [t \in Slots |-> Idle]
        /\ at = [t \in Slots |-> 1]
        /\ held = [t \in Slots |-> {}]
        /\ want = [t \in Slots |-> {}]

\* An instance has one maintenance loop, and its run heartbeat only reaches its
\* own runs: two of them never compete.
Begin(t, p) ==
    /\ ~Running(t)
    /\ p.kind \in Kinds
    /\ p.kind = "ownbeat" => \A u \in Slots : prog[u].kind # "ownbeat"
    /\ prog' = [prog EXCEPT ![t] = p]
    /\ UNCHANGED <<at, held, want>>

\* The transaction's current statement takes a lock that is free.
Take(t, lock) ==
    /\ Running(t) /\ want[t] = {}
    /\ lock \in Now(t).locks \ LocksOf(t)
    /\ Blockers(t, lock, Now(t).mode) = {}
    /\ held' = [held EXCEPT ![t] = @ \cup {<<lock, Now(t).mode>>}]
    /\ UNCHANGED <<prog, at, want>>

\* It waits for a lock another transaction holds, unless it skips locked rows.
Block(t, lock) ==
    /\ Running(t) /\ want[t] = {}
    /\ Now(t).how \in {"all", "some"}
    /\ lock \in Now(t).locks \ LocksOf(t)
    /\ Blockers(t, lock, Now(t).mode) # {}
    /\ want' = [want EXCEPT ![t] = {lock}]
    /\ UNCHANGED <<prog, at, held>>

\* The transaction t waits for, if any, holding the lock in its way.
WaitsFor(t) == UNION {Blockers(t, lock, Now(t).mode) : lock \in want[t]}

Wake(t) ==
    /\ want[t] # {} /\ WaitsFor(t) = {}
    /\ held' = [held EXCEPT ![t] = @ \cup {<<lock, Now(t).mode>> : lock \in want[t]}]
    /\ want' = [want EXCEPT ![t] = {}]
    /\ UNCHANGED <<prog, at>>

StageDone(t) == Running(t) /\ want[t] = {}
                /\ (Now(t).how \in {"all", "pick"} => Now(t).locks \subseteq LocksOf(t))

Advance(t) ==
    /\ StageDone(t) /\ at[t] < Len(prog[t].stages)
    /\ at' = [at EXCEPT ![t] = @ + 1]
    /\ UNCHANGED <<prog, held, want>>

\* Commit, or an early return or an error after any statement.
Finish(t) ==
    /\ StageDone(t) \/ (Running(t) /\ Now(t).how = "pick")
    /\ prog' = [prog EXCEPT ![t] = Idle]
    /\ at' = [at EXCEPT ![t] = 1]
    /\ held' = [held EXCEPT ![t] = {}]
    /\ UNCHANGED want

\* The 100 ms lock timeout of the best-effort journal maintenance, which is
\* shorter than PostgreSQL's deadlock timeout: it is rolled back.
GiveUp(t) ==
    /\ want[t] # {} /\ prog[t].kind = "retain"
    /\ prog' = [prog EXCEPT ![t] = Idle]
    /\ at' = [at EXCEPT ![t] = 1]
    /\ held' = [held EXCEPT ![t] = {}]
    /\ want' = [want EXCEPT ![t] = {}]

Step(t) == \/ (Running(t) /\ \E lock \in Now(t).locks : Take(t, lock) \/ Block(t, lock))
           \/ Wake(t) \/ Advance(t) \/ Finish(t) \/ GiveUp(t)

NextOf(programs) == \E t \in Slots : (\E p \in programs : Begin(t, p)) \/ Step(t)
Next == NextOf(Programs)

Spec == Init /\ [][Next]_vars

(***************************************************************************)
(* Properties.                                                             *)
(***************************************************************************)

TypeOK == /\ \A t \in Slots : at[t] \in 1..(Len(prog[t].stages) + 1)
          /\ \A t \in Slots : \A h \in held[t] : h[2] \in {"S", "X"}
          /\ \A t, u \in Slots : \A h \in held[t] : \A g \in held[u] :
                (t # u /\ h[1] = g[1]) => (h[2] = "S" /\ g[2] = "S")

\* A set of transactions each waiting for another of the set, none of which the
\* maintenance timeout takes out of it.
Cycle(D) == D # {} /\ \A t \in D : prog[t].kind # "retain" /\ WaitsFor(t) \cap D # {}

\* No set of concurrent transactions ends up waiting on itself.  The code does not
\* keep this: see OnlyTheJournal.
NoWaitCycle == ~\E D \in SUBSET Slots : Cycle(D)

\* The reconciler updates the state rows of the runs it ends in an order of its own
\* and without the usage lock, while an append that evicts locks such rows too.
\* Every set of transactions that waits on itself is one in which a reconciler waits
\* for an append.  A cancellation takes run row then key and a run heartbeat key then
\* run row, an answer question then key and a deletion run row then questions, and
\* pruning and draining lock rows in any order, but nothing else closes a cycle
\* (claim_idempotency_record's comment on one order, remove_run's on the usage row).
OnlyTheJournal ==
    \A D \in SUBSET Slots :
        Cycle(D) => \E t, u \in D :
                        /\ prog[t].kind = "reconcile" /\ prog[u].kind = "append"
                        /\ \A l \in want[t] : l.class = "event-state"
                        /\ u \in WaitsFor(t)

\* The ledger's counters are only ever changed by the holder of the quota lock,
\* whichever of the transactions' triggers changes them.
QuotaGuardsAccounting ==
    \A t \in Slots :
        (\E l \in LocksOf(t) : l.class = "accounting") => <<Quota, "X">> \in held[t]

\* What the store's transactions keep whichever of them run together.
LockOrderSound == TypeOK /\ OnlyTheJournal /\ QuotaGuardsAccounting

=============================================================================
