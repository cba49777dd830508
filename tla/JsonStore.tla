------------------------------ MODULE JsonStore ------------------------------
(***************************************************************************)
(* The JSON file store of engine/run_history.rs: one file per ledger row,  *)
(* run and conversation. One file is replaced atomically (a temporary file  *)
(* and a rename), an operation is a sequence of such writes under a lock of *)
(* the process, and the process may die, or a write fail, between any two   *)
(* of them. Attempts are HTTP requests; what a request wants is a constant. *)
(*                                                                         *)
(* An operation takes the lock, reads its files and fixes its writes        *)
(* (a plan); Write performs them one by one. A time stamp is kept as the    *)
(* time left until it.                                                      *)
(***************************************************************************)
EXTENDS Integers, Sequences, FiniteSets, SequencesExt

CONSTANTS
    Attempt, Nobody,
    Key, NoKey,       \* NoKey: a run without an idempotency key
    KeyOf, OpOf,      \* [Attempt -> Key \cup {NoKey}], [Attempt -> {"run", "message"}]
    Acks,             \* [Attempt -> Key \cup {NoKey}]: Idempotency-Recovery-Key
    TTL, Retention,   \* ticks of a lease and of the grace; of a settled row
    MaxRecords, MaxInFlight, MaxBodies, PruneBatch,
    MaxRevision, MaxIncarnation,
    MaxCrash, MaxFail,\* bounds on crashes and failed writes
    SameId            \* a restarted process has the instance id of the last one

JsonBounds ==
    /\ TTL \in Nat \ {0} /\ Retention \in Nat \ {0}
    /\ {MaxRecords, MaxInFlight, MaxBodies, PruneBatch, MaxRevision, MaxIncarnation, MaxCrash, MaxFail} \subseteq Nat
    /\ SameId \in BOOLEAN

Maintenance == "maintenance"
Worker == Attempt \cup {Maintenance}

VARIABLES
    ledger,     \* [Key -> row file]
    run,        \* [Attempt -> run file]
    conv,       \* the conversation file
    plan,       \* [Worker -> the writes of the operation it is in]
    pc, base,   \* [Attempt -> ...]: where its request stands, the record it read
    forgotten,  \* keys one of whose settled rows retention removed
    deleted,    \* runs deleted by a caller
    crashes, fails

vars == <<ledger, run, conv, plan, pc, base, forgotten, deleted, crashes, fails>>

NoRow == [st |-> "none", att |-> Nobody, lease |-> 0, grace |-> 0, exp |-> 0,
          body |-> FALSE, scope |-> 0]
NoRun == [st |-> "none", lease |-> 0]
NoConv == [inc |-> 0, rev |-> 0, here |-> FALSE, turns |-> {}]
NoPlan == [writes |-> <<>>, undo |-> <<>>, ok |-> "", err |-> ""]

Init ==
    /\ ledger = [k \in Key |-> NoRow]
    /\ run = [a \in Attempt |-> NoRun]
    /\ conv = NoConv
    /\ plan = [w \in Worker |-> NoPlan]
    /\ pc = [a \in Attempt |-> "idle"]
    /\ base = [a \in Attempt |-> NoConv]
    /\ forgotten = {} /\ deleted = {}
    /\ crashes = 0 /\ fails = 0

Live(row) == row.st \in {"claimed", "running"}
Settled(row) == row.st \in {"completed", "indeterminate"}
InFlight(r) == run[r].st = "running"
Terminal(r) == run[r].st \in {"finished", "abandoned"}
Replayable(row) == row.st \in {"running", "completed"} /\ row.body

-----------------------------------------------------------------------------
(* Files, and operations as sequences of writes. *)

Row(k, val) == [file |-> "row", at |-> k, val |-> val]
RunFile(a, val) == [file |-> "run", at |-> a, val |-> val]
ConvFile(val) == [file |-> "conv", at |-> Nobody, val |-> val]

\* The file takes the new contents at once, or is removed.
Put(w) ==
    /\ ledger' = IF w.file = "row" THEN [ledger EXCEPT ![w.at] = w.val] ELSE ledger
    /\ run' = IF w.file = "run" THEN [run EXCEPT ![w.at] = w.val] ELSE run
    /\ conv' = IF w.file = "conv" THEN w.val ELSE conv
    /\ forgotten' = IF w.file = "row" /\ w.val = NoRow /\ Settled(ledger[w.at])
                    THEN forgotten \cup {w.at} ELSE forgotten

\* shared_json_run_lock: one lock for every handle of the process.
LockFree(w) == \A v \in Worker : plan[v] = NoPlan

Goto(w, where) == pc' = IF w \in Attempt THEN [pc EXCEPT ![w] = where] ELSE pc

\* The operation of w: its writes, what takes the others back when the last one
\* fails, and where the request stands after success and after an error.
Operation(w, writes, undo, ok, err) ==
    /\ LockFree(w)
    /\ IF writes = <<>>
       THEN Goto(w, ok) /\ UNCHANGED plan
       ELSE /\ plan' = [plan EXCEPT ![w] = [writes |-> writes, undo |-> undo,
                                            ok |-> ok, err |-> err]]
            /\ UNCHANGED pc
    /\ UNCHANGED <<ledger, run, conv, forgotten, deleted, crashes, fails>>

Write(w) ==
    /\ plan[w] # NoPlan
    /\ Put(Head(plan[w].writes))
    /\ IF Len(plan[w].writes) = 1
       THEN plan' = [plan EXCEPT ![w] = NoPlan] /\ Goto(w, plan[w].ok)
       ELSE plan' = [plan EXCEPT ![w].writes = Tail(@)] /\ UNCHANGED pc
    /\ UNCHANGED <<base, deleted, crashes, fails>>

\* An I/O error ends the operation, before the file's contents are replaced or, when
\* the directory cannot be synced, after; a failed last write is undone where the
\* code does so, and the undo may fail in turn.
WriteFails(w) ==
    /\ plan[w] # NoPlan /\ fails < MaxFail
    /\ fails' = fails + 1
    /\ \/ Put(Head(plan[w].writes))
       \/ UNCHANGED <<ledger, run, conv, forgotten>>
    /\ LET undo == IF Len(plan[w].writes) = 1 THEN plan[w].undo ELSE <<>> IN
       IF undo = <<>>
       THEN plan' = [plan EXCEPT ![w] = NoPlan] /\ Goto(w, plan[w].err)
       ELSE /\ plan' = [plan EXCEPT ![w] = [writes |-> undo, undo |-> <<>>,
                                            ok |-> plan[w].err, err |-> plan[w].err]]
            /\ UNCHANGED pc
    /\ UNCHANGED <<base, deleted, crashes>>

-----------------------------------------------------------------------------
(* claim_idempotency_with_limits. *)

Indeterminate(row) == [row EXCEPT !.st = "indeterminate", !.body = FALSE,
                           !.lease = 0, !.grace = TTL, !.exp = Retention]
Completed(row) == [row EXCEPT !.st = "completed", !.lease = 0, !.grace = 0,
                       !.exp = Retention]

Rows == {k \in Key : ledger[k].st # "none"}
BodyFits(k) == Cardinality({j \in Rows \ {k} : ledger[j].body}) < MaxBodies

\* prune_json_idempotency_locked.
Stale == {k \in Key : Settled(ledger[k]) /\ ledger[k].exp = 0}
PruneSets == {S \in SUBSET Stale : Cardinality(S) =
                 IF Cardinality(Stale) < PruneBatch THEN Cardinality(Stale) ELSE PruneBatch}
Unlink(S) == SetToSeq({Row(k, NoRow) : k \in S})

ScopeOf(a) == IF OpOf[a] = "message" THEN base[a].inc ELSE 0

ActiveIn(s) == {k \in Key : s # 0 /\ Live(ledger[k]) /\ ledger[k].scope = s}

HazardsIn(s, gone) == {k \in Key \ gone : /\ s # 0 /\ ledger[k].st = "indeterminate"
                                          /\ ledger[k].scope = s}

Acknowledged(a, hazards) ==
    hazards # {} => \E h \in hazards : hazards = {h} /\ Acks[a] = h /\ ledger[h].grace = 0

\* A row of the key answers the claim; an expired one is marked first.
AnswerExisting(a, gone) ==
    LET k == KeyOf[a] IN
    /\ k \in Rows \ gone
    /\ Operation(a, Unlink(gone) \o
                    (IF ~Replayable(ledger[k]) /\ Live(ledger[k]) /\ ledger[k].lease = 0
                     THEN <<Row(k, Indeterminate(ledger[k]))>> ELSE <<>>),
                 <<>>, "answered", "answered")

\* Busy: a turn of the scope is in flight, or a hazard is not acknowledged.
RefuseBusy(a, gone) ==
    LET s == ScopeOf(a)
        expired == {k \in ActiveIn(s) : ledger[k].lease = 0}
    IN
    /\ KeyOf[a] \notin Rows \ gone
    /\ ActiveIn(s) # {} \/ ~Acknowledged(a, HazardsIn(s, gone))
    /\ Operation(a, Unlink(gone) \o SetToSeq({Row(k, Indeterminate(ledger[k])) : k \in expired}),
                 <<>>, "refused", "refused")

BaseCurrent(a) ==
    OpOf[a] = "message" => conv.here /\ conv.inc = base[a].inc /\ conv.rev = base[a].rev

QuotaFree(kept) ==
    /\ Cardinality(kept) < MaxRecords
    /\ Cardinality({k \in kept : Live(ledger[k])}) < MaxInFlight

\* The new row, then the hazard it consumes gives up the scope.
InsertClaim(a, gone) ==
    LET k == KeyOf[a]
        kept == Rows \ gone
        hazards == HazardsIn(ScopeOf(a), gone)
        row == [NoRow EXCEPT !.st = "claimed", !.att = a, !.lease = TTL, !.scope = ScopeOf(a),
                             !.body = OpOf[a] = "run" /\ BodyFits(k)]
        before == Unlink(gone)
    IN
    /\ k \notin kept
    /\ ActiveIn(ScopeOf(a)) = {} /\ Acknowledged(a, hazards)
    /\ IF BaseCurrent(a) /\ QuotaFree(kept)
       THEN IF hazards = {}
            THEN Operation(a, Append(before, Row(k, row)), <<>>, "claimed", "refused")
            ELSE LET h == CHOOSE h \in hazards : TRUE IN
                 Operation(a, before \o <<Row(k, row), Row(h, [ledger[h] EXCEPT !.scope = 0])>>,
                           <<Row(k, NoRow), Row(h, ledger[h])>>, "claimed", "refused")
       ELSE Operation(a, before, <<>>, "refused", "refused")

Claim(a) ==
    /\ pc[a] = IF OpOf[a] = "message" THEN "read" ELSE "idle"
    /\ KeyOf[a] # NoKey
    /\ \E S \in PruneSets :
        LET gone == S \cup (Stale \cap {KeyOf[a]}) IN
        AnswerExisting(a, gone) \/ RefuseBusy(a, gone) \/ InsertClaim(a, gone)
    /\ UNCHANGED base

-----------------------------------------------------------------------------
(* The other calls of a request. *)

Mine(a) == KeyOf[a] # NoKey /\ ledger[KeyOf[a]].att = a

ReadConversation(a) ==
    /\ pc[a] = "idle" /\ OpOf[a] = "message" /\ conv.here
    /\ base' = [base EXCEPT ![a] = conv]
    /\ Goto(a, "read")
    /\ UNCHANGED <<ledger, run, conv, plan, forgotten, deleted, crashes, fails>>

\* The provider call begins: from here on the claim is not released.
BeginTurn(a) ==
    /\ pc[a] = "claimed" /\ OpOf[a] = "message"
    /\ Goto(a, "working")
    /\ UNCHANGED <<ledger, run, conv, plan, base, forgotten, deleted, crashes, fails>>

\* save_run_intent: the run, then its claim; a refused transition takes the run back.
SaveRunIntent(a) ==
    /\ OpOf[a] = "run" /\ run[a] = NoRun
    /\ pc[a] = IF KeyOf[a] = NoKey THEN "idle" ELSE "claimed"
    /\ LET record == RunFile(a, [st |-> "running", lease |-> TTL])
           linked == Mine(a) /\ ledger[KeyOf[a]].st = "claimed"
       IN  Operation(a,
               IF linked
               THEN <<record, Row(KeyOf[a], [ledger[KeyOf[a]] EXCEPT !.st = "running", !.lease = TTL])>>
               ELSE <<record>>,
               IF linked THEN <<RunFile(a, NoRun)>> ELSE <<>>, "running", "refused")
    /\ UNCHANGED base

\* The id exists already: reconciliation was there first.
IntentRefused(a) ==
    /\ OpOf[a] = "run" /\ pc[a] = "claimed" /\ Terminal(a)
    /\ Operation(a, <<>>, <<>>, "refused", "refused")
    /\ UNCHANGED base

\* The crew's own save of the same id: leases to the later of the two.
HydrateIntent(a) ==
    /\ pc[a] = "running" /\ InFlight(a) /\ Mine(a)
    /\ LET row == ledger[KeyOf[a]]
           record == <<RunFile(a, [run[a] EXCEPT !.lease = TTL])>>
       IN  /\ row.st \in {"running", "completed"}
           /\ Operation(a, IF row.st = "running"
                           THEN <<Row(KeyOf[a], [row EXCEPT !.lease = TTL])>> \o record ELSE record,
                        <<>>, "running", "running")
    /\ UNCHANGED base

\* The rows of the runs in S that are not completed yet.
SettleRows(S) ==
    SetToSeq({Row(k, Completed(ledger[k])) :
                 k \in {j \in Rows : /\ ledger[j].st # "completed" /\ ledger[j].att \in S
                                     /\ OpOf[ledger[j].att] = "run"}})

\* The first terminal status stays; the ledger follows in any case.
CompletionWrites(a) ==
    (IF InFlight(a) THEN <<RunFile(a, [st |-> "finished", lease |-> 0])>> ELSE <<>>)
    \o SettleRows({a})

UpdateRunCompletion(a) ==
    /\ pc[a] = "running"
    /\ Operation(a, IF run[a] = NoRun THEN <<>> ELSE CompletionWrites(a), <<>>, "done", "running")
    /\ UNCHANGED base

\* heartbeat_idempotency.
HeartbeatIdempotency(a) ==
    /\ pc[a] \in {"claimed", "working"} /\ OpOf[a] = "message" /\ Mine(a)
    /\ Live(ledger[KeyOf[a]])
    /\ Operation(a, <<Row(KeyOf[a], [ledger[KeyOf[a]] EXCEPT !.lease = TTL])>>, <<>>, pc[a], pc[a])
    /\ UNCHANGED base

\* heartbeat_idempotent_run: the run's lease, then the ledger's, or neither.
HeartbeatRun(a) ==
    /\ pc[a] \in {"claimed", "running"} /\ OpOf[a] = "run" /\ Mine(a)
    /\ LET row == ledger[KeyOf[a]]
           renewed == Row(KeyOf[a], [row EXCEPT !.lease = TTL])
       IN  \/ /\ run[a] = NoRun /\ row.st = "claimed"
              /\ Operation(a, <<renewed>>, <<>>, pc[a], pc[a])
           \/ /\ InFlight(a) /\ row.st = "running"
              /\ Operation(a, <<RunFile(a, [run[a] EXCEPT !.lease = TTL]), renewed>>,
                           <<RunFile(a, run[a])>>, pc[a], pc[a])
    /\ UNCHANGED base

\* A fence that is not there any more ends the request.
Fenced(a) ==
    /\ pc[a] \in {"claimed", "working", "running"} /\ KeyOf[a] # NoKey
    /\ LET row == ledger[KeyOf[a]] IN
       ~Mine(a) \/ IF OpOf[a] = "message" THEN ~Live(row)
                   ELSE ~((run[a] = NoRun /\ row.st = "claimed") \/ (InFlight(a) /\ row.st = "running"))
    /\ Operation(a, <<>>, <<>>, "fenced", "fenced")
    /\ UNCHANGED base

Committable(a) ==
    /\ Mine(a) /\ Live(ledger[KeyOf[a]])
    /\ ledger[KeyOf[a]].scope = base[a].inc
    /\ BaseCurrent(a)

\* Mutant of CommitWrites: the row says completed before the transcript holds it.
RowFirst(a) ==
    <<Row(KeyOf[a], [Completed(ledger[KeyOf[a]]) EXCEPT !.body = BodyFits(KeyOf[a])]),
      ConvFile([conv EXCEPT !.rev = @ + 1, !.turns = @ \cup {a}])>>

\* The transcript with the turn, then the row.
CommitWrites(a) ==
    <<ConvFile([conv EXCEPT !.rev = @ + 1, !.turns = @ \cup {a}]),
      Row(KeyOf[a], [Completed(ledger[KeyOf[a]]) EXCEPT !.body = BodyFits(KeyOf[a])])>>

\* commit_conversation_idempotency_with_limits; an error is tried again.
CommitConversation(a) ==
    /\ pc[a] = "working"
    /\ \/ /\ Committable(a) /\ conv.rev < MaxRevision
          /\ Operation(a, CommitWrites(a), <<>>, "done", "working")
       \/ /\ Mine(a) /\ ledger[KeyOf[a]].st = "completed"
          /\ Operation(a, <<>>, <<>>, "done", "done")
    /\ UNCHANGED base

\* mark_idempotency_indeterminate, of a live row only.
MarkIndeterminate(a) ==
    /\ pc[a] = IF OpOf[a] = "message" THEN "working" ELSE "claimed"
    /\ Operation(a, IF Mine(a) /\ Live(ledger[KeyOf[a]])
                    THEN <<Row(KeyOf[a], Indeterminate(ledger[KeyOf[a]]))>> ELSE <<>>,
                 <<>>, "done", "done")
    /\ UNCHANGED base

\* Only a claim nothing has been done with is given back.
Releasable(a) == pc[a] = "claimed"

\* release_idempotency.
Release(a) ==
    /\ Releasable(a)
    /\ Operation(a, IF Mine(a) /\ Live(ledger[KeyOf[a]]) THEN <<Row(KeyOf[a], NoRow)>> ELSE <<>>,
                 <<>>, "done", "done")
    /\ UNCHANGED base

-----------------------------------------------------------------------------
(* Conversations without a key. *)

Busy == \E k \in Key : Live(ledger[k]) /\ OpOf[ledger[k].att] = "message"

\* save_conversation of a current handle, and of a new one.
SaveConversation ==
    /\ ~Busy
    /\ \/ /\ conv.here /\ conv.rev < MaxRevision
          /\ Operation(Maintenance, <<ConvFile([conv EXCEPT !.rev = @ + 1])>>, <<>>, "", "")
       \/ /\ ~conv.here /\ conv.inc < MaxIncarnation
          /\ Operation(Maintenance, <<ConvFile([inc |-> conv.inc + 1, rev |-> 1, here |-> TRUE,
                                                turns |-> {}])>>, <<>>, "", "")
    /\ UNCHANGED base

DeleteConversation ==
    /\ conv.here /\ ~Busy
    /\ Operation(Maintenance, <<ConvFile([conv EXCEPT !.here = FALSE])>>, <<>>, "", "")
    /\ UNCHANGED base

-----------------------------------------------------------------------------
(* Maintenance. *)

Orphans == {a \in Attempt : /\ Mine(a) /\ OpOf[a] = "run" /\ run[a] = NoRun
                            /\ ledger[KeyOf[a]].st = "claimed" /\ ledger[KeyOf[a]].lease = 0}
Lapsed == {a \in Attempt : InFlight(a) /\ run[a].lease = 0}
ExpiredTurns == {k \in Rows : /\ Live(ledger[k]) /\ OpOf[ledger[k].att] = "message"
                              /\ ledger[k].lease = 0}

\* reconcile_abandoned_runs: fallback runs and expired turns, lapsed runs, rows.
Reconcile ==
    LET abandoned == [st |-> "abandoned", lease |-> 0]
        first == {RunFile(a, abandoned) : a \in Orphans}
                    \cup {Row(k, Indeterminate(ledger[k])) : k \in ExpiredTurns}
        over == Orphans \cup Lapsed \cup {a \in Attempt : Terminal(a)}
    IN
    /\ Operation(Maintenance,
           SetToSeq(first) \o SetToSeq({RunFile(a, abandoned) : a \in Lapsed}) \o SettleRows(over),
           <<>>, "", "")
    /\ UNCHANGED base

Prune ==
    /\ Stale # {}
    /\ \E S \in PruneSets : Operation(Maintenance, Unlink(S), <<>>, "", "")
    /\ UNCHANGED base

\* heartbeat_owned_runs: runs of this instance without a ledger row.
HeartbeatOwned ==
    LET owned == {a \in Attempt : /\ InFlight(a) /\ (pc[a] # "dead" \/ SameId)
                                  /\ ~\E k \in Key : ledger[k].att = a}
    IN
    /\ owned # {}
    /\ Operation(Maintenance, SetToSeq({RunFile(a, [run[a] EXCEPT !.lease = TTL]) : a \in owned}),
                 <<>>, "", "")
    /\ UNCHANGED base

\* DELETE of a settled run takes no lock.
DeleteRun(a) ==
    /\ Terminal(a)
    /\ run' = [run EXCEPT ![a] = NoRun]
    /\ deleted' = deleted \cup {a}
    /\ UNCHANGED <<ledger, conv, plan, pc, base, forgotten, crashes, fails>>

\* The process dies and another one starts: plans and requests are gone.
Crash ==
    /\ crashes < MaxCrash
    /\ crashes' = crashes + 1
    /\ plan' = [w \in Worker |-> NoPlan]
    /\ pc' = [a \in Attempt |-> IF pc[a] = "idle" THEN "idle" ELSE "dead"]
    /\ UNCHANGED <<ledger, run, conv, base, forgotten, deleted, fails>>

Less(n) == IF n = 0 THEN 0 ELSE n - 1

OlderRow(row) == [row EXCEPT !.lease = Less(@), !.grace = Less(@), !.exp = Less(@)]
OlderRun(r) == [r EXCEPT !.lease = Less(@)]
Older(writes) ==
    [i \in DOMAIN writes |->
        [writes[i] EXCEPT !.val = IF writes[i].file = "row" THEN OlderRow(@)
                                  ELSE IF writes[i].file = "run" THEN OlderRun(@) ELSE @]]

\* Stamps are absolute: the ones a plan has fixed grow old as well.
Tick ==
    /\ ledger' = [k \in Key |-> OlderRow(ledger[k])]
    /\ run' = [a \in Attempt |-> OlderRun(run[a])]
    /\ plan' = [w \in Worker |-> [plan[w] EXCEPT !.writes = Older(@), !.undo = Older(@)]]
    /\ <<ledger', run', plan'>> # <<ledger, run, plan>>
    /\ UNCHANGED <<conv, pc, base, forgotten, deleted, crashes, fails>>

Step(a) ==
    \/ ReadConversation(a) \/ Claim(a) \/ BeginTurn(a) \/ SaveRunIntent(a) \/ IntentRefused(a)
    \/ HydrateIntent(a) \/ UpdateRunCompletion(a) \/ HeartbeatIdempotency(a) \/ HeartbeatRun(a)
    \/ Fenced(a) \/ CommitConversation(a) \/ MarkIndeterminate(a) \/ Release(a)

Next ==
    \/ \E a \in Attempt : Step(a) \/ DeleteRun(a)
    \/ \E w \in Worker : Write(w) \/ WriteFails(w)
    \/ SaveConversation \/ DeleteConversation \/ Reconcile \/ Prune \/ HeartbeatOwned
    \/ Crash \/ Tick

Spec == Init /\ [][Next]_vars

-----------------------------------------------------------------------------
(* Properties. *)

TypeOK ==
    /\ \A k \in Key :
        /\ ledger[k].st \in {"none", "claimed", "running", "completed", "indeterminate"}
        /\ ledger[k].lease \in 0..TTL /\ ledger[k].exp \in 0..Retention
        /\ ledger[k].st # "none" => KeyOf[ledger[k].att] = k
        /\ ledger[k].st = "indeterminate" => ~ledger[k].body
    /\ \A a \in Attempt : run[a].st \in {"none", "running", "finished", "abandoned"}
    /\ \A w \in Worker : Len(plan[w].writes) \in Nat /\ (plan[w] # NoPlan => plan[w].writes # <<>>)
    /\ conv.turns \subseteq Attempt

\* A row that says a message was completed stands for a turn the transcript of
\* its conversation holds: the two files are written in that order, so a crash
\* between them never promises a turn that is lost.
CompletedTurnIsStored ==
    \A k \in Key :
        ledger[k].st = "completed" /\ OpOf[ledger[k].att] = "message" =>
            \/ ledger[k].att \in conv.turns
            \/ ~conv.here \/ conv.inc # ledger[k].scope

\* Crashes, failed writes and repeated requests with one key put its turn into
\* the transcript once, as long as retention has not removed the key's row.
TurnOnce ==
    \A a, b \in conv.turns : a # b /\ KeyOf[a] = KeyOf[b] => KeyOf[a] \in forgotten

\* The row of key k names a run that can be looked up, unless a caller deleted it,
\* and a completed row one that is over.
NamesRun(k) ==
    LET a == ledger[k].att IN
    (ledger[k].st \in {"running", "completed"} /\ OpOf[a] = "run" /\ a \notin deleted) =>
        /\ run[a] # NoRun
        /\ ledger[k].st = "completed" => Terminal(a)

\* A repeated run request is answered with a run that exists: what the comment in
\* reconcile_abandoned_runs is after.  A directory sync that fails after the row's
\* rename makes save_run_intent take the run back and leave the row.
AnsweredRunExists == \A k \in Key : NamesRun(k)

\* Nothing else breaks it: whatever crashes and failing writes, a row without its run
\* is one whose own intent was refused after a failed write.
OnlyRefusedIntentsLack ==
    \A k \in Key : NamesRun(k) \/ /\ ledger[k].st = "running" /\ fails > 0
                                   /\ pc[ledger[k].att] \in {"refused", "dead"}

\* One conversation never has two turns in flight.
OneTurnInFlight ==
    \A j, k \in Key :
        (/\ Live(ledger[j]) /\ Live(ledger[k])
         /\ ledger[j].scope # 0 /\ ledger[j].scope = ledger[k].scope) => j = k

\* No handle brings a run back that another handle has brought to an end.
TerminalStays == \A a \in Attempt : Terminal(a) => run'[a].st \in {run[a].st, "none"}

=============================================================================
