-------------------------- MODULE LocalConversation --------------------------
(***************************************************************************)
(* Lua conversations on a process-local store (lua/conversation.rs): the   *)
(* flow's crew:conversation handles over one id, each with a private copy  *)
(* of the transcript, its turns, conv:save, conv:reset and conv:delete.    *)
(* A turn may be cancelled at every await; a SQLite write that was handed  *)
(* to its blocking worker commits whether or not anyone still waits.       *)
(***************************************************************************)
EXTENDS Naturals, Sequences, SequencesExt, FiniteSets

CONSTANTS Handles,
          Autosave,              \* the handles with autosave = true
          MaxTurns, MaxRecords,  \* bounds: turns and incarnations
          MaxRevision, MaxCancels \* bounds: conv:save calls and lost callers

AutosaveAssumption == Autosave \subseteq Handles

VARIABLES record,   \* the stored record, or NoRecord
          pc,       \* pc[h]: what holds the handle's turn_execution_lock
          log,      \* log[h]: messages, as the sequence of its turns
          rev,      \* rev[h]: the revision the next save expects
          inc,      \* inc[h]: execution, the incarnation it represents
          cand,     \* cand[h]: the candidate transcript of the turn
          next,     \* next[h]: the revision a finished save returned
          writes,   \* saves in the hands of a blocking worker
          turns, records, cancels,  \* history: counters
          seen,     \* history: the stored transcript h is based on
          reported, \* history: autosaved turns a caller got an answer for
          forgotten,\* history: turns somebody reset or deleted
          gone      \* history: incarnations somebody deleted

handleVars == <<pc, log, rev, inc, cand, next>>
historyVars == <<seen, reported, forgotten, gone>>
vars == <<record, handleVars, writes, turns, records, cancels, historyVars>>

Nobody == "nobody"
NoRecord == [rev |-> 0, log |-> <<>>, inc |-> 0]

Init == /\ record = NoRecord /\ writes = {}
        /\ pc = [h \in Handles |-> "closed"]
        /\ log = [h \in Handles |-> <<>>] /\ cand = [h \in Handles |-> <<>>]
        /\ rev = [h \in Handles |-> 0] /\ next = [h \in Handles |-> 0]
        /\ inc = [h \in Handles |-> 0] /\ seen = [h \in Handles |-> <<>>]
        /\ turns = 0 /\ records = 0 /\ cancels = 0
        /\ reported = {} /\ forgotten = {} /\ gone = {}

\* A stored record is resumed; without one, a new incarnation at revision zero.
new_or_resume(h) ==
    /\ pc[h] = "closed"
    /\ IF record = NoRecord
       THEN /\ records < MaxRecords /\ records' = records + 1
            /\ inc' = [inc EXCEPT ![h] = records + 1]
       ELSE inc' = [inc EXCEPT ![h] = record.inc] /\ UNCHANGED records
    /\ log' = [log EXCEPT ![h] = record.log]
    /\ rev' = [rev EXCEPT ![h] = record.rev]
    /\ seen' = [seen EXCEPT ![h] = record.log]
    /\ pc' = [pc EXCEPT ![h] = "idle"]
    /\ UNCHANGED <<record, cand, next, writes, turns, cancels, reported, forgotten, gone>>

\* prepare_turn_with_ctx takes the execution lock and works on a candidate.
prepare_turn(h) ==
    /\ pc[h] = "idle" /\ turns < MaxTurns
    /\ turns' = turns + 1
    /\ cand' = [cand EXCEPT ![h] = Append(log[h], turns + 1)]
    /\ pc' = [pc EXCEPT ![h] = "turn"]
    /\ UNCHANGED <<record, log, rev, inc, next, writes, records, cancels, historyVars>>

\* The provider fails or the budget is spent: the candidate is dropped.
TurnFails(h) ==
    /\ pc[h] = "turn"
    /\ pc' = [pc EXCEPT ![h] = "idle"]
    /\ cand' = [cand EXCEPT ![h] = <<>>]
    /\ UNCHANGED <<record, log, rev, inc, next, writes, turns, records, cancels, historyVars>>

Write(h, messages) == [by |-> h, rev |-> rev[h], inc |-> inc[h], log |-> messages, seen |-> seen[h]]

\* The tail of run_turn_with_ctx: an autosaved turn goes to the store first.
SaveTurn(h) ==
    /\ pc[h] = "turn" /\ h \in Autosave
    /\ writes' = writes \cup {Write(h, cand[h])}
    /\ pc' = [pc EXCEPT ![h] = "saving"]
    /\ UNCHANGED <<record, log, rev, inc, cand, next, turns, records, cancels, historyVars>>

\* conv:save
persist(h) ==
    /\ pc[h] = "idle" /\ rev[h] < MaxRevision
    /\ writes' = writes \cup {Write(h, log[h])}
    /\ cand' = [cand EXCEPT ![h] = log[h]]
    /\ pc' = [pc EXCEPT ![h] = "persisting"]
    /\ UNCHANGED <<record, log, rev, inc, next, turns, records, cancels, historyVars>>

\* A fence on the revision alone.
FenceByRevision(w) == record.rev = w.rev

\* save_conversation: insert at revision zero, otherwise the revision and the
\* incarnation must be the ones the writer read.
Fenced(w) == IF record = NoRecord THEN w.rev = 0 ELSE record.rev = w.rev /\ record.inc = w.inc

\* The transaction of one save; whoever still waits for it gets its outcome.
save_conversation(w) ==
    /\ w \in writes
    /\ writes' = writes \ {w}
    /\ record' = IF Fenced(w) THEN [rev |-> w.rev + 1, log |-> w.log, inc |-> w.inc] ELSE record
    /\ pc' = [h \in Handles |->
                IF h # w.by THEN pc[h]
                ELSE IF ~Fenced(w) THEN "idle"
                ELSE IF pc[h] = "saving" THEN "saved" ELSE "persisted"]
    /\ next' = [h \in Handles |-> IF h = w.by /\ Fenced(w) THEN w.rev + 1 ELSE next[h]]
    /\ UNCHANGED <<log, rev, inc, cand, turns, records, cancels, historyVars>>

\* publish_prepared_turn, after the save that autosave asks for.
publish_prepared_turn(h) ==
    /\ pc[h] = IF h \in Autosave THEN "saved" ELSE "turn"
    /\ log' = [log EXCEPT ![h] = cand[h]]
    /\ IF h \in Autosave
       THEN /\ rev' = [rev EXCEPT ![h] = next[h]] /\ seen' = [seen EXCEPT ![h] = cand[h]]
            /\ reported' = IF inc[h] \in gone THEN reported ELSE reported \cup {Last(cand[h])}
       ELSE UNCHANGED <<rev, seen, reported>>
    /\ pc' = [pc EXCEPT ![h] = "idle"]
    /\ cand' = [cand EXCEPT ![h] = <<>>]
    /\ UNCHANGED <<record, inc, next, writes, turns, records, cancels, forgotten, gone>>

\* conv:save returns: the handle stands at the revision it wrote.
Persisted(h) ==
    /\ pc[h] = "persisted"
    /\ rev' = [rev EXCEPT ![h] = next[h]] /\ seen' = [seen EXCEPT ![h] = cand[h]]
    /\ pc' = [pc EXCEPT ![h] = "idle"]
    /\ cand' = [cand EXCEPT ![h] = <<>>]
    /\ UNCHANGED <<record, log, inc, next, writes, turns, records, cancels,
                   reported, forgotten, gone>>

\* The caller goes away at an await, or the save fails after it was stored: the
\* candidate and the guard are dropped, what the worker does is not.
Cancel(h) ==
    /\ pc[h] \notin {"closed", "idle"} /\ cancels < MaxCancels
    /\ cancels' = cancels + 1
    /\ pc' = [pc EXCEPT ![h] = "idle"]
    /\ cand' = [cand EXCEPT ![h] = <<>>]
    /\ writes' = {[w EXCEPT !.by = IF @ = h THEN Nobody ELSE @] : w \in writes}
    /\ UNCHANGED <<record, log, rev, inc, next, turns, records, historyVars>>

reset_history(h) ==
    /\ pc[h] = "idle" /\ log[h] # <<>>
    /\ log' = [log EXCEPT ![h] = <<>>]
    /\ forgotten' = forgotten \cup ToSet(log[h])
    /\ UNCHANGED <<record, pc, rev, inc, cand, next, writes, turns, records, cancels,
                   seen, reported, gone>>

\* conv:delete takes no lock and changes nothing in the handle.
delete(h) ==
    /\ pc[h] # "closed" /\ record # NoRecord
    /\ record' = NoRecord
    /\ forgotten' = forgotten \cup ToSet(record.log)
    /\ gone' = gone \cup {record.inc}
    /\ UNCHANGED <<handleVars, writes, turns, records, cancels, seen, reported>>

close(h) ==
    /\ pc[h] = "idle"
    /\ pc' = [pc EXCEPT ![h] = "closed"]
    /\ log' = [log EXCEPT ![h] = <<>>] /\ rev' = [rev EXCEPT ![h] = 0]
    /\ inc' = [inc EXCEPT ![h] = 0] /\ next' = [next EXCEPT ![h] = 0]
    /\ seen' = [seen EXCEPT ![h] = <<>>]
    /\ UNCHANGED <<record, cand, writes, turns, records, cancels, reported, forgotten, gone>>

Next == \/ \E w \in writes : save_conversation(w)
        \/ \E h \in Handles :
              \/ new_or_resume(h) \/ prepare_turn(h) \/ TurnFails(h) \/ SaveTurn(h)
              \/ persist(h) \/ publish_prepared_turn(h) \/ Persisted(h) \/ Cancel(h)
              \/ reset_history(h) \/ delete(h) \/ close(h)

Spec == Init /\ [][Next]_vars

(***************************************************************************)
(* Properties.                                                             *)
(***************************************************************************)
PCs == {"closed", "idle", "turn", "saving", "saved", "persisting", "persisted"}

TypeOK == /\ pc \in [Handles -> PCs] /\ rev \in [Handles -> Nat]
          /\ inc \in [Handles -> 0..MaxRecords] /\ record.inc \in 0..MaxRecords
          /\ \A w \in writes : w.by \in Handles => pc[w.by] \in {"saving", "persisting"}
          /\ \A v, w \in writes : v.by = w.by /\ v.by # Nobody => v = w
          /\ turns \in 0..MaxTurns /\ records \in 0..MaxRecords
          /\ reported \cup forgotten \subseteq 1..turns
          /\ \A h \in Handles : pc[h] = "saved" => Len(cand[h]) > 0

\* docs/crews.md: delete and recreate assign a new incarnation, so that stale
\* responses cannot cross that boundary.  A handle whose caller went away during its
\* first save still stands at revision zero: its next save, or the late one itself,
\* brings the incarnation back that was deleted meanwhile.
DeletedStaysGone == record.inc \notin gone

\* A write replaces a record only when its handle had read exactly that record,
\* however many saves are late and whatever was deleted in between, unless the
\* record is of an incarnation that came back.
NoBlindOverwrite ==
    (record # NoRecord /\ record' # NoRecord /\ record' # record /\ record.inc \notin gone)
    => \E w \in writes : w.log = record'.log /\ w.seen = record.log

\* A turn that autosave reported to its caller is in the record until a handle
\* that knew it was reset, or somebody deleted the record; turns reported on an
\* incarnation that came back are not counted.
ReportedIsStored == reported \subseteq ToSet(record.log) \cup forgotten

\* A turn that was cancelled or failed leaves its handle's transcript as it was,
\* and the transcript of an autosaving handle only ever shows stored turns.
VisibleWasStored == \A h \in Autosave : pc[h] # "closed" => ToSet(log[h]) \subseteq ToSet(seen[h])

=============================================================================
