----------------------------- MODULE SqliteStore -----------------------------
(***************************************************************************)
(* The SQLite state store: the idempotency ledger, the run records and one *)
(* conversation, as engine/sqlite_store.rs keeps them. Every method is one  *)
(* IMMEDIATE transaction in spawn_blocking, so every action is atomic and   *)
(* goes through although the caller has stopped waiting for it. Callers are *)
(* the attempts of HTTP requests on processes that may die and start again  *)
(* under the same instance id, in any order and with any delay.             *)
(*                                                                         *)
(* A time stamp is kept as the time left until it: Tick moves the clock.   *)
(***************************************************************************)
EXTENDS Integers, FiniteSets, FiniteSetsExt

CONSTANTS
    Attempt, Nobody, \* requests; an attempt's run has the attempt's own id
    Key, NoKey,     \* idempotency keys; NoKey is a request without one
    KeyOf,          \* [Attempt -> Key \cup {NoKey}]
    OpOf,           \* [Attempt -> {"run", "message"}]
    PrincipalOf,    \* [Attempt -> principals]
    BodyOf,         \* [Attempt -> fingerprints]: what the request asks for
    InstOf,         \* [Attempt -> instance ids]
    Acks,           \* [Attempt -> Key \cup {NoKey}]: Idempotency-Recovery-Key
    TTL,            \* ticks of a lease, and of the recovery grace
    Retention,      \* ticks a settled row is kept
    MaxRecords, MaxPerPrincipal, MaxInFlight, MaxBodies, MaxBodiesPer,
    PruneBatch,
    MaxRevision     \* bound on the conversation's revisions and incarnations

SqliteBounds ==
    /\ IsFiniteSet(Key) /\ NoKey \notin Key /\ Nobody \notin Attempt
    /\ \A a \in Attempt : KeyOf[a] \in Key \cup {NoKey} /\ OpOf[a] \in {"run", "message"}
    /\ TTL \in Nat \ {0} /\ Retention \in Nat \ {0}
    /\ {MaxRecords, MaxPerPrincipal, MaxInFlight, MaxBodies, MaxBodiesPer} \subseteq Nat
    /\ PruneBatch \in Nat /\ MaxRevision \in Nat
    /\ \A a \in Attempt : Acks[a] # NoKey => OpOf[a] = "message" /\ Acks[a] # KeyOf[a]

VARIABLES
    ledger,         \* [Key -> Row]
    run,            \* [Attempt -> run record]
    conv,           \* the conversation: last incarnation, revision, whether it is there
    pc,             \* [Attempt -> where its request stands]
    base,           \* [Attempt -> the incarnation and revision it read]
    committed,      \* attempts whose turn is in the transcript
    superseded      \* attempts whose hazard a recovery key has consumed

vars == <<ledger, run, conv, pc, base, committed, superseded>>

Principal == {PrincipalOf[a] : a \in Attempt}
Instance == {InstOf[a] : a \in Attempt}

NoRow == [st |-> "none", att |-> Nobody, lease |-> 0, grace |-> 0, exp |-> 0,
          body |-> FALSE, scope |-> 0]
NoRun == [st |-> "none", lease |-> 0]

Live(row) == row.st \in {"claimed", "running"}
Settled(row) == row.st \in {"completed", "indeterminate"}
InFlight(r) == run[r].st = "running"
Terminal(r) == run[r].st \in {"finished", "abandoned"}

Init ==
    /\ ledger = [k \in Key |-> NoRow]
    /\ run = [a \in Attempt |-> NoRun]
    /\ conv = [inc |-> 0, rev |-> 0, here |-> FALSE]
    /\ pc = [a \in Attempt |-> "idle"]
    /\ base = [a \in Attempt |-> conv]
    /\ committed = {}
    /\ superseded = {}

Goto(a, where) == pc' = [pc EXCEPT ![a] = where]

-----------------------------------------------------------------------------
(* Rows. *)

Indeterminate(row) == [row EXCEPT !.st = "indeterminate", !.body = FALSE,
                           !.lease = 0, !.grace = TTL, !.exp = Retention]

\* sqlite_complete_run_idempotency: the row of the run, wherever it stands.
Completed(row) == [row EXCEPT !.st = "completed", !.lease = 0, !.grace = 0,
                       !.exp = Retention]

SettleRuns(l, runs) ==
    [k \in Key |-> IF /\ l[k].st \in {"claimed", "running", "indeterminate"}
                      /\ l[k].att \in runs /\ OpOf[l[k].att] = "run"
                   THEN Completed(l[k]) ELSE l[k]]

Rows(l) == {k \in Key : l[k].st # "none"}
RowsOf(l, p) == {k \in Rows(l) : PrincipalOf[l[k].att] = p}
LiveOf(l, p) == {k \in RowsOf(l, p) : Live(l[k])}
Bodies(l) == {k \in Rows(l) : l[k].body}

\* The body is dropped when it does not fit; the row is kept without it.
BodyFits(l, k, p) ==
    /\ Cardinality(Bodies(l) \ {k}) < MaxBodies
    /\ Cardinality((Bodies(l) \ {k}) \cap RowsOf(l, p)) < MaxBodiesPer

\* sqlite_prune_idempotency: the oldest PruneBatch of the expired settled rows.
Stale(l) == {k \in Key : Settled(l[k]) /\ l[k].exp = 0}
Pruned(l) ==
    LET n == Min({PruneBatch, Cardinality(Stale(l))}) IN
    {[k \in Key |-> IF k \in S THEN NoRow ELSE l[k]] : S \in kSubset(n, Stale(l))}

Prune ==
    /\ Stale(ledger) # {}
    /\ ledger' \in Pruned(ledger)
    /\ UNCHANGED <<run, conv, pc, base, committed, superseded>>

-----------------------------------------------------------------------------
(* claim_idempotency_with_limits. *)

\* The incarnation a message's exclusive scope names; a run has no scope.
ScopeOf(a) == IF OpOf[a] = "message" THEN base[a].inc ELSE 0

\* Reading the record before the claim fixes the base of a message.
ReadConversation(a) ==
    /\ pc[a] = "idle" /\ OpOf[a] = "message" /\ conv.here
    /\ base' = [base EXCEPT ![a] = conv]
    /\ Goto(a, "read")
    /\ UNCHANGED <<ledger, run, conv, committed, superseded>>

\* A row of the key that is not an expired settled one answers the claim; an
\* expired lease turns it indeterminate on the way.
AnswerExisting(a, l, k) ==
    /\ l[k].st # "none" /\ k \notin Stale(l)
    /\ ledger' =
         IF /\ PrincipalOf[l[k].att] = PrincipalOf[a] /\ BodyOf[l[k].att] = BodyOf[a]
            /\ Live(l[k]) /\ l[k].lease = 0 /\ ~(l[k].st = "running" /\ l[k].body)
         THEN [l EXCEPT ![k] = Indeterminate(l[k])] ELSE l
    /\ Goto(a, "answered")
    /\ UNCHANGED <<conv, committed, superseded>>

ActiveIn(l, s) == {k \in Key : Live(l[k]) /\ l[k].scope = s}
HazardsIn(l, s) == {k \in Key : l[k].st = "indeterminate" /\ l[k].scope = s}

\* The one hazard of the scope is named by its principal, after the grace.
Acknowledged(a, l, h) ==
    /\ PrincipalOf[l[h].att] = PrincipalOf[a]
    /\ Acks[a] = h
    /\ l[h].grace = 0

ScopeFree(a, l) ==
    ScopeOf(a) # 0 =>
        /\ ActiveIn(l, ScopeOf(a)) = {}
        /\ \/ HazardsIn(l, ScopeOf(a)) = {}
           \/ \E h \in HazardsIn(l, ScopeOf(a)) :
                 HazardsIn(l, ScopeOf(a)) = {h} /\ Acknowledged(a, l, h)

\* Busy; an expired holder of the scope is marked, and the retry meets a hazard.
RefuseBusy(a, l) ==
    /\ ~ScopeFree(a, l)
    /\ ledger' = [k \in Key |-> IF k \in ActiveIn(l, ScopeOf(a)) /\ l[k].lease = 0
                                THEN Indeterminate(l[k]) ELSE l[k]]
    /\ Goto(a, "refused")
    /\ UNCHANGED <<conv, committed, superseded>>

BaseCurrent(a) == OpOf[a] = "message" => base[a] = conv

QuotaFree(a, l) ==
    /\ Cardinality(Rows(l)) < MaxRecords
    /\ Cardinality(RowsOf(l, PrincipalOf[a])) < MaxPerPrincipal
    /\ Cardinality(LiveOf(l, PrincipalOf[a])) < MaxInFlight

RefuseClaim(a, l) ==
    /\ ScopeFree(a, l)
    /\ ~BaseCurrent(a) \/ ~QuotaFree(a, l)
    /\ ledger' = l
    /\ Goto(a, "refused")
    /\ UNCHANGED <<conv, committed, superseded>>

InsertClaim(a, l, k) ==
    LET hazards == IF ScopeOf(a) = 0 THEN {} ELSE HazardsIn(l, ScopeOf(a)) IN
    /\ ScopeFree(a, l) /\ BaseCurrent(a) /\ QuotaFree(a, l)
    /\ ledger' = [[h \in Key |-> IF h \in hazards THEN [l[h] EXCEPT !.scope = 0] ELSE l[h]]
                    EXCEPT ![k] = [NoRow EXCEPT !.st = "claimed", !.att = a, !.lease = TTL,
                                       !.scope = ScopeOf(a),
                                       !.body = OpOf[a] = "run" /\ BodyFits(l, k, PrincipalOf[a])]]
    /\ superseded' = superseded \cup {l[h].att : h \in hazards}
    /\ Goto(a, "claimed")
    /\ UNCHANGED <<conv, committed>>

Claim(a) ==
    /\ pc[a] = IF OpOf[a] = "message" THEN "read" ELSE "idle"
    /\ KeyOf[a] # NoKey
    /\ \E l \in Pruned(ledger) :
        LET k == KeyOf[a]
            fresh == [l EXCEPT ![k] = IF k \in Stale(l) THEN NoRow ELSE l[k]]
        IN  \/ AnswerExisting(a, l, k)
            \/ /\ fresh[k].st = "none"
               /\ RefuseBusy(a, fresh) \/ RefuseClaim(a, fresh) \/ InsertClaim(a, fresh, k)
    /\ UNCHANGED <<run, base>>

-----------------------------------------------------------------------------
(* The attempt's other calls; Mine is the check of the attempt id. *)

Mine(a) == KeyOf[a] # NoKey /\ ledger[KeyOf[a]].att = a

Working(a) == pc[a] \in {"claimed", "running"}

\* heartbeat_idempotency: a row in flight is renewed, expired or not.
HeartbeatIdempotency(a) ==
    /\ Working(a) /\ OpOf[a] = "message"
    /\ \/ /\ Mine(a) /\ Live(ledger[KeyOf[a]])
          /\ ledger' = [ledger EXCEPT ![KeyOf[a]].lease = TTL]
          /\ UNCHANGED pc
       \/ /\ ~(Mine(a) /\ Live(ledger[KeyOf[a]]))
          /\ Goto(a, "fenced")
          /\ UNCHANGED ledger
    /\ UNCHANGED <<run, conv, base, committed, superseded>>

\* heartbeat_idempotent_run: both leases or none.
HeartbeatRun(a) ==
    /\ Working(a) /\ OpOf[a] = "run" /\ KeyOf[a] # NoKey
    /\ LET row == ledger[KeyOf[a]] IN
       \/ /\ Mine(a) /\ run[a] = NoRun /\ row.st = "claimed"
          /\ ledger' = [ledger EXCEPT ![KeyOf[a]].lease = TTL]
          /\ UNCHANGED <<run, pc>>
       \/ /\ Mine(a) /\ InFlight(a) /\ row.st = "running"
          /\ ledger' = [ledger EXCEPT ![KeyOf[a]].lease = TTL]
          /\ run' = [run EXCEPT ![a].lease = TTL]
          /\ UNCHANGED pc
       \/ /\ ~(/\ Mine(a)
               /\ \/ run[a] = NoRun /\ row.st = "claimed"
                  \/ InFlight(a) /\ row.st = "running")
          /\ Goto(a, "fenced")
          /\ UNCHANGED <<ledger, run>>
    /\ UNCHANGED <<conv, base, committed, superseded>>

\* save_run_intent: a new record takes the claim of its owner to running; the
\* crew's own call finds the record and hydrates it.
SaveRunIntent(a) ==
    /\ OpOf[a] = "run"
    /\ pc[a] = IF KeyOf[a] = NoKey THEN "idle" ELSE "claimed"
    /\ \/ /\ run[a] = NoRun
          /\ run' = [run EXCEPT ![a] = [st |-> "running", lease |-> TTL]]
          /\ ledger' = [k \in Key |-> IF ledger[k].att = a /\ ledger[k].st = "claimed"
                                      THEN [ledger[k] EXCEPT !.st = "running", !.lease = TTL]
                                      ELSE ledger[k]]
          /\ Goto(a, "running")
       \/ /\ run[a] # NoRun
          /\ Goto(a, "refused")
          /\ UNCHANGED <<run, ledger>>
    /\ UNCHANGED <<conv, base, committed, superseded>>

HydrateIntent(a) ==
    /\ pc[a] = "running" /\ KeyOf[a] # NoKey
    /\ InFlight(a) /\ Mine(a) /\ ledger[KeyOf[a]].st \in {"running", "completed"}
    /\ run' = [run EXCEPT ![a].lease = TTL]
    /\ ledger' = [ledger EXCEPT ![KeyOf[a]].lease = IF @ = 0 /\ Settled(ledger[KeyOf[a]]) THEN 0 ELSE TTL]
    /\ UNCHANGED <<conv, pc, base, committed, superseded>>

\* update_run_completion: first terminal writer wins, the ledger follows.
UpdateRunCompletion(a) ==
    /\ pc[a] = "running"
    /\ \/ /\ run[a] # NoRun
          /\ run' = IF InFlight(a) THEN [run EXCEPT ![a] = [st |-> "finished", lease |-> 0]] ELSE run
          /\ ledger' = SettleRuns(ledger, {a})
          /\ Goto(a, "done")
       \/ /\ run[a] = NoRun
          /\ Goto(a, "done")
          /\ UNCHANGED <<run, ledger>>
    /\ UNCHANGED <<conv, base, committed, superseded>>

\* Mutant of Committable: the state of the row is not looked at.
CommittableInAnyState(a) ==
    /\ Mine(a)
    /\ base[a] = conv

\* The claim is still in flight and the record is the one it was bound to.
Committable(a) ==
    /\ Mine(a) /\ Live(ledger[KeyOf[a]])
    /\ ledger[KeyOf[a]].scope = base[a].inc
    /\ base[a] = conv

\* commit_conversation_idempotency_with_limits: transcript and row together.
CommitConversation(a) ==
    /\ pc[a] = "claimed" /\ OpOf[a] = "message"
    /\ \/ /\ Committable(a)
          /\ conv.rev < MaxRevision
          /\ conv' = [conv EXCEPT !.rev = @ + 1]
          /\ ledger' = [ledger EXCEPT ![KeyOf[a]] = [Completed(@) EXCEPT
                            !.body = BodyFits(ledger, KeyOf[a], PrincipalOf[a])]]
          /\ committed' = committed \cup {a}
       \/ /\ ~Committable(a)
          /\ UNCHANGED <<conv, ledger, committed>>
    /\ Goto(a, "done")
    /\ UNCHANGED <<run, base, superseded>>

MarkIndeterminate(a) ==
    /\ Working(a) /\ KeyOf[a] # NoKey
    /\ ledger' = IF Mine(a) /\ Live(ledger[KeyOf[a]])
                 THEN [ledger EXCEPT ![KeyOf[a]] = Indeterminate(@)] ELSE ledger
    /\ Goto(a, "done")
    /\ UNCHANGED <<run, conv, base, committed, superseded>>

\* release_idempotency: before anything has been done with the claim.
Release(a) ==
    /\ pc[a] = "claimed"
    /\ ledger' = IF Mine(a) /\ Live(ledger[KeyOf[a]])
                 THEN [ledger EXCEPT ![KeyOf[a]] = NoRow] ELSE ledger
    /\ Goto(a, "done")
    /\ UNCHANGED <<run, conv, base, committed, superseded>>

-----------------------------------------------------------------------------
(* Conversations outside the ledger. *)

Busy == \E k \in Key : Live(ledger[k]) /\ OpOf[ledger[k].att] = "message"

\* save_conversation of a handle that is current ...
SaveConversation ==
    /\ conv.here /\ conv.rev < MaxRevision /\ ~Busy
    /\ conv' = [conv EXCEPT !.rev = @ + 1]
    /\ UNCHANGED <<ledger, run, pc, base, committed, superseded>>

\* ... and of a new one, whose identity is a fresh incarnation.
StartConversation ==
    /\ ~conv.here /\ conv.inc < MaxRevision /\ ~Busy
    /\ conv' = [inc |-> conv.inc + 1, rev |-> 1, here |-> TRUE]
    /\ UNCHANGED <<ledger, run, pc, base, committed, superseded>>

DeleteConversation ==
    /\ conv.here /\ ~Busy
    /\ conv' = [conv EXCEPT !.here = FALSE]
    /\ UNCHANGED <<ledger, run, pc, base, committed, superseded>>

-----------------------------------------------------------------------------
(* Maintenance, faults and the clock. *)

\* Expired claims of runs without a record ...
Orphans == {a \in Attempt : /\ Mine(a) /\ OpOf[a] = "run" /\ run[a] = NoRun
                            /\ ledger[KeyOf[a]].st = "claimed"
                            /\ ledger[KeyOf[a]].lease = 0}

\* ... and records in flight whose lease is over.
Lapsed == {r \in Attempt : InFlight(r) /\ run[r].lease = 0}

\* Turns whose lease is over are marked.
MarkExpiredTurns(l) ==
    [k \in Key |-> IF Live(l[k]) /\ OpOf[l[k].att] = "message" /\ l[k].lease = 0
                   THEN Indeterminate(l[k]) ELSE l[k]]

\* reconcile_abandoned_runs.
Reconcile ==
    LET over == {r \in Attempt : Terminal(r)} \cup Orphans \cup Lapsed IN
    /\ run' = [r \in Attempt |-> IF r \in Orphans \cup Lapsed
                                 THEN [st |-> "abandoned", lease |-> 0] ELSE run[r]]
    /\ ledger' = MarkExpiredTurns(SettleRuns(ledger, over))
    /\ UNCHANGED <<conv, pc, base, committed, superseded>>

\* A run with a ledger row is not the bulk heartbeat's to renew.
Linked(r) == \E k \in Key : ledger[k].att = r

\* heartbeat_owned_runs of a process under instance id i, whoever started the run.
HeartbeatOwned(i) ==
    /\ run' = [r \in Attempt |-> IF InFlight(r) /\ InstOf[r] = i /\ ~Linked(r)
                                 THEN [run[r] EXCEPT !.lease = TTL] ELSE run[r]]
    /\ UNCHANGED <<ledger, conv, pc, base, committed, superseded>>

\* DELETE of a run over HTTP.
DeleteRun(r) ==
    /\ Terminal(r)
    /\ run' = [run EXCEPT ![r] = NoRun]
    /\ UNCHANGED <<ledger, conv, pc, base, committed, superseded>>

\* The process of instance id i dies and another starts under the same id.
Restart(i) ==
    /\ \E a \in Attempt : InstOf[a] = i /\ pc[a] \in {"read", "claimed", "running"}
    /\ pc' = [a \in Attempt |-> IF InstOf[a] = i /\ pc[a] \in {"read", "claimed", "running"}
                                THEN "dead" ELSE pc[a]]
    /\ UNCHANGED <<ledger, run, conv, base, committed, superseded>>

Less(n) == IF n = 0 THEN 0 ELSE n - 1

Tick ==
    /\ ledger' = [k \in Key |-> [ledger[k] EXCEPT !.lease = Less(@), !.grace = Less(@), !.exp = Less(@)]]
    /\ run' = [r \in Attempt |-> [run[r] EXCEPT !.lease = Less(@)]]
    /\ UNCHANGED <<conv, pc, base, committed, superseded>>

Step(a) ==
    \/ ReadConversation(a) \/ Claim(a) \/ HeartbeatIdempotency(a) \/ HeartbeatRun(a)
    \/ HydrateIntent(a) \/ UpdateRunCompletion(a)
    \/ CommitConversation(a) \/ MarkIndeterminate(a) \/ Release(a)

Store ==
    \/ \E a \in Attempt : Step(a) \/ DeleteRun(a)
    \/ \E i \in Instance : HeartbeatOwned(i) \/ Restart(i)
    \/ Prune \/ SaveConversation \/ StartConversation \/ DeleteConversation \/ Reconcile

Next == Store \/ Tick \/ \E a \in Attempt : SaveRunIntent(a)

Spec == Init /\ [][Next]_vars

\* The maintenance loop runs every third of a lease: it is never a tick late.
TimelyTick == Orphans = {} /\ Lapsed = {} /\ Tick

\* A worker's own fence stops it no later than its lease ends.
TimelyIntent(a) ==
    /\ KeyOf[a] # NoKey => Mine(a) /\ ledger[KeyOf[a]].lease > 0
    /\ SaveRunIntent(a)

Timely == Store \/ TimelyTick \/ \E a \in Attempt : TimelyIntent(a)

-----------------------------------------------------------------------------
(* Properties. *)

\* A terminal run has a completed row, whichever of the owner, a retry and the
\* reconciler moved the two and whatever the row was marked before.
LedgerFollowsRun ==
    \A a \in Attempt : Mine(a) /\ Terminal(a) => ledger[KeyOf[a]].st = "completed"

\* While a turn's claim is in flight nothing moves the conversation under it: no
\* save, delete or other turn, so what the turn was bound to is what it commits on.
ClaimPinsConversation ==
    \A a \in Attempt :
        OpOf[a] = "message" /\ Mine(a) /\ Live(ledger[KeyOf[a]]) => base[a] = conv

\* A turn whose hazard was consumed by a recovery key never lands afterwards,
\* although its process may still be running and may be late.
SupersededNeverCommits ==
    \A a \in superseded : a \in committed' => a \in committed

\* The limits hold whatever settles, releases, marks or prunes rows in between;
\* response bodies are charged at a run's claim and at a turn's commit.
QuotasHold ==
    /\ Cardinality(Rows(ledger)) <= MaxRecords
    /\ Cardinality(Bodies(ledger)) <= MaxBodies
    /\ \A p \in Principal :
        /\ Cardinality(RowsOf(ledger, p)) <= MaxPerPrincipal
        /\ Cardinality(LiveOf(ledger, p)) <= MaxInFlight
        /\ Cardinality(Bodies(ledger) \cap RowsOf(ledger, p)) <= MaxBodiesPer

\* What the store promises together, whatever order its transactions land in.
SqliteStoreSound ==
    /\ [](ClaimPinsConversation /\ QuotasHold /\ LedgerFollowsRun)
    /\ [][SupersededNeverCommits]_vars

\* A keyed run whose process died ends, also when the next process has its
\* instance id: the bulk heartbeat does not keep it alive.
KeyedOrphanEnds ==
    \A a \in Attempt : (KeyOf[a] # NoKey /\ pc[a] = "dead" /\ InFlight(a)) ~> ~InFlight(a)

\* The row of a dead attempt leaves its in-flight state, and its quota.
DeadClaimSettles ==
    \A a \in Attempt : (pc[a] = "dead" /\ Mine(a) /\ Live(ledger[KeyOf[a]]))
                          ~> ~(Mine(a) /\ Live(ledger[KeyOf[a]]))

=============================================================================
