----------------------------- MODULE WaitStatus -----------------------------
(***************************************************************************)
(* The running / waiting_for_input status of a run while its branches wait *)
(* for a human: with_run_wait_status.  A branch counts itself as a waiter, *)
(* synchronises the stored status, waits, stops counting and synchronises  *)
(* again.  A synchronisation takes the status serializer, decides from the *)
(* waiter count and writes; a dropped branch leaves a detached one behind. *)
(* The SQLite and JSON stores write on a blocking worker, which goes on    *)
(* when the branch that asked for the write is dropped.                    *)
(***************************************************************************)
EXTENDS Naturals, FiniteSets

CONSTANTS
    Branch,  \* status-tracked suspensions of the run
    Nobody   \* the serializer is free

WaitStatusAssumption == Nobody \notin Branch \X {"own", "detached"}

VARIABLES
    status,   \* the status in the run record
    expired,  \* the input bridge was expired: the run is ending
    waiters,  \* run_status_waiters
    holder,   \* who holds run_status_updates
    pc,       \* pc[b]: where branch b is
    task,     \* task[b]: the detached synchronisation b left
    choice,   \* choice[s]: the status synchroniser s decided on
    orphan,   \* dropped branches whose write is still under way
    last      \* the last write: "kept", "failed", or "late" from a dropped branch

vars == <<status, expired, waiters, holder, pc, task, choice, orphan, last>>

Syncer == Branch \X {"own", "detached"}

Init ==
    /\ status = "running" /\ expired = FALSE /\ waiters = 0 /\ holder = Nobody
    /\ pc = [b \in Branch |-> "idle"] /\ task = [b \in Branch |-> "none"]
    /\ choice = [s \in Syncer |-> "running"]
    /\ orphan = {} /\ last = "kept"

\* The status is decided after the serializer is taken.
Decide == IF waiters > 0 THEN "waiting_for_input" ELSE "running"

Serialized == holder = Nobody

Begin(b) ==
    /\ pc[b] = "idle"
    /\ waiters' = waiters + 1
    /\ pc' = [pc EXCEPT ![b] = "entering"]
    /\ UNCHANGED <<status, expired, holder, task, choice, orphan, last>>

Lock(b) ==
    /\ pc[b] \in {"entering", "leaving"} /\ Serialized
    /\ holder' = <<b, "own">>
    /\ choice' = [choice EXCEPT ![<<b, "own">>] = Decide]
    /\ pc' = [pc EXCEPT ![b] = IF @ = "entering" THEN "write_enter" ELSE "write_leave"]
    /\ UNCHANGED <<status, expired, waiters, task, orphan, last>>

\* update_run_status changes an in-flight record only.
Updated(value) == IF status = "terminal" THEN status ELSE value

\* One synchronisation's write, which may fail; the serializer is released.
Store(s) ==
    /\ \/ status' = Updated(choice[s]) /\ last' = "kept"
       \/ status' = status /\ last' = "failed"
    /\ holder' = Nobody

Write(b) ==
    /\ pc[b] \in {"write_enter", "write_leave"}
    /\ Store(<<b, "own">>)
    /\ pc' = [pc EXCEPT ![b] = IF @ = "write_enter" THEN "parked" ELSE "done"]
    /\ UNCHANGED <<expired, waiters, task, choice, orphan>>

\* The question resolves: the branch stops counting before it synchronises.
Resolve(b) ==
    /\ pc[b] = "parked"
    /\ waiters' = waiters - 1
    /\ pc' = [pc EXCEPT ![b] = "leaving"]
    /\ UNCHANGED <<status, expired, holder, task, choice, orphan, last>>

Counted(b) == pc[b] \in {"entering", "write_enter", "parked"}
Writing(b) == pc[b] \in {"write_enter", "write_leave"}

\* The branch is dropped: it stops counting, releases the serializer, and leaves
\* a detached synchronisation; a write under way goes on without it.
Drop(b) ==
    /\ pc[b] \notin {"idle", "done"}
    /\ waiters' = IF Counted(b) THEN waiters - 1 ELSE waiters
    /\ holder' = IF Writing(b) THEN Nobody ELSE holder
    /\ orphan' = IF Writing(b) THEN orphan \cup {b} ELSE orphan
    /\ pc' = [pc EXCEPT ![b] = "done"]
    /\ task' = [task EXCEPT ![b] = "queued"]
    /\ UNCHANGED <<status, expired, choice, last>>

\* The detached synchronisation, which an expired bridge skips.
DetachedLock(b) ==
    /\ task[b] = "queued"
    /\ \/ expired /\ task' = [task EXCEPT ![b] = "none"] /\ UNCHANGED <<holder, choice>>
       \/ /\ ~expired /\ Serialized
          /\ task' = [task EXCEPT ![b] = "writing"]
          /\ holder' = <<b, "detached">>
          /\ choice' = [choice EXCEPT ![<<b, "detached">>] = Decide]
    /\ UNCHANGED <<status, expired, waiters, pc, orphan, last>>

DetachedWrite(b) ==
    /\ task[b] = "writing"
    /\ Store(<<b, "detached">>)
    /\ task' = [task EXCEPT ![b] = "none"]
    /\ UNCHANGED <<expired, waiters, pc, choice, orphan>>

\* The blocking worker of a dropped branch finishes its write, or a write that had
\* not reached the store is lost with it.
OrphanWrite ==
    \E b \in orphan :
        /\ \/ status' = Updated(choice[<<b, "own">>]) /\ last' = "late"
           \/ UNCHANGED <<status, last>>
        /\ orphan' = orphan \ {b}
        /\ UNCHANGED <<expired, waiters, holder, pc, task, choice>>

Expire ==
    /\ ~expired
    /\ expired' = TRUE
    /\ UNCHANGED <<status, waiters, holder, pc, task, choice, orphan, last>>

Terminate ==
    /\ expired /\ status # "terminal"
    /\ status' = "terminal"
    /\ UNCHANGED <<expired, waiters, holder, pc, task, choice, orphan, last>>

Next ==
    \/ \E b \in Branch : \/ Begin(b) \/ Lock(b) \/ Write(b) \/ Resolve(b)
                         \/ Drop(b) \/ DetachedLock(b) \/ DetachedWrite(b)
    \/ OrphanWrite \/ Expire \/ Terminate

Spec == Init /\ [][Next]_vars

-----------------------------------------------------------------------------
\* No synchronisation is queued or under way.
Quiet ==
    /\ \A b \in Branch : pc[b] \in {"idle", "parked", "done"} /\ task[b] = "none"
    /\ orphan = {}

\* The record says waiting_for_input exactly when some branch waits.
StatusIsTrue == status = "waiting_for_input" <=> \E b \in Branch : pc[b] = "parked"

\* When nothing is being written and no write failed, the record of a live run is
\* true, however the branches' entries, exits and drops interleaved: what
\* with_run_wait_status's comment calls race-free durable status transitions.  A
\* dropped branch's write that its blocking worker makes late breaks it.
StatusSettles == (Quiet /\ ~expired /\ last # "failed" /\ status # "terminal") => StatusIsTrue

\* It is so whenever the last write was made by a holder of the serializer, whatever
\* late writes came before it.
SerializedStatusSettles ==
    (Quiet /\ ~expired /\ last = "kept" /\ status # "terminal") => StatusIsTrue

\* The waiter count is the number of branches between their entry and their exit,
\* so checked_sub never underflows and no branch is counted out twice.
WaitersExact == waiters = Cardinality({b \in Branch : Counted(b)})

\* A synchronisation that loses the race with the terminal transition does not
\* bring the run back.
TerminalStays == status = "terminal" => status' = "terminal"
=============================================================================
