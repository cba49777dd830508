------------------------------ MODULE Readiness ------------------------------
(***************************************************************************)
(* What a process says about itself: the gauge of finalisers that retry    *)
(* their durable write (terminal_persistence_failures), the health of the  *)
(* lease maintenance loop (engine/reconciler.rs) and the readiness probe   *)
(* that reads both (api/handlers.rs), with its cached storage check.       *)
(* The finalisers are the four retry loops of the run monitor and of the   *)
(* conversation turn.  The store's answers are arbitrary; the errors it    *)
(* gives are bounded, so that an outage ends.                              *)
(***************************************************************************)
EXTENDS Naturals, FiniteSets

CONSTANTS Finalizers, Probes,
          Loops,       \* the retry loops that finalisers start with
          LeaseLoss,   \* whether a conversation claim may be lost under a commit
          Drains,      \* whether the process may be drained
          MaxErrors    \* bound on the store's errors

LoopsAssumption == Loops \subseteq {"commit", "run"}
FaultAssumption == LeaseLoss \in BOOLEAN /\ Drains \in BOOLEAN /\ MaxErrors \in Nat

VARIABLES phase,      \* lifecycle: "accepting" or "fencing" (and later)
          loop,       \* loop[f]: the retry loop a finaliser is in
          degraded,   \* degraded[f]: its persistence_degraded
          gauge,      \* terminal_persistence_failures
          errors,     \* errors the store has given
          healthy,    \* store_maintenance_healthy
          cycle,      \* the maintenance loop: "idle", or "beaten" with its result
          lastCycle,  \* history: the result of the last complete cycle
          probe,      \* probe[p]: where a readiness request is
          cache,      \* readiness_cache: "none", "ready" or "not_ready"
          holder      \* the probe that holds the cache's lock

finalizerVars == <<loop, degraded, gauge>>
maintenanceVars == <<healthy, cycle, lastCycle>>
probeVars == <<probe, cache, holder>>
vars == <<phase, errors, finalizerVars, maintenanceVars, probeVars>>

NoProbe == "none"
Retrying == {f \in Finalizers : degraded[f]}

Init == /\ phase = "accepting"
        /\ loop = [f \in Finalizers |-> "idle"]
        /\ degraded = [f \in Finalizers |-> FALSE]
        /\ gauge = 0 /\ errors = 0
        /\ healthy \in BOOLEAN /\ cycle = "idle" /\ lastCycle = healthy
        /\ probe = [p \in Probes |-> "idle"]
        /\ cache = "none" /\ holder = NoProbe

(***************************************************************************)
(* The finalisers' retry loops.                                            *)
(***************************************************************************)
Start(f, l) ==
    /\ loop[f] = "idle" /\ l \in Loops
    /\ loop' = [loop EXCEPT ![f] = l]
    /\ UNCHANGED <<phase, degraded, gauge, errors, maintenanceVars, probeVars>>

\* A store error other than a conflict: counted once, then retried.
StoreFails(f) ==
    /\ loop[f] \in {"commit", "run", "mark", "complete"}
    /\ errors < MaxErrors
    /\ errors' = errors + 1
    /\ degraded' = [degraded EXCEPT ![f] = TRUE]
    /\ gauge' = IF degraded[f] THEN gauge ELSE gauge + 1
    /\ UNCHANGED <<phase, loop, maintenanceVars, probeVars>>

\* A loop ends: it gives its place in the gauge back.
Settle(f, next) ==
    /\ loop' = [loop EXCEPT ![f] = next]
    /\ degraded' = [degraded EXCEPT ![f] = FALSE]
    /\ gauge' = IF degraded[f] THEN gauge - 1 ELSE gauge

\* Committed or already committed; or fenced, when the claim is marked.
commit_message_with_retry(f) ==
    /\ loop[f] = "commit"
    /\ Settle(f, "done") \/ Settle(f, "mark")
    /\ UNCHANGED <<phase, errors, maintenanceVars, probeVars>>

\* The select around the commit drops it, and with it persistence_degraded.
wait_for_lease_loss(f) ==
    /\ LeaseLoss /\ loop[f] = "commit"
    /\ loop' = [loop EXCEPT ![f] = "mark"]
    /\ degraded' = [degraded EXCEPT ![f] = FALSE]
    /\ UNCHANGED <<phase, gauge, errors, maintenanceVars, probeVars>>

\* mark_message_indeterminate, mark_run_idempotency_indeterminate.
mark_indeterminate(f) ==
    /\ loop[f] = "mark"
    /\ Settle(f, "done")
    /\ UNCHANGED <<phase, errors, maintenanceVars, probeVars>>

\* persist_terminal_outcome: a run with a key then completes or marks it.
persist_terminal_outcome(f) ==
    /\ loop[f] = "run"
    /\ \E next \in {"complete", "mark", "done"} : Settle(f, next)
    /\ UNCHANGED <<phase, errors, maintenanceVars, probeVars>>

\* The intent is refused by an owner drain: the arm leaves the gauge alone.
OwnerDraining(f) ==
    /\ loop[f] = "run" /\ phase # "accepting"
    /\ \E next \in {"mark", "done"} : loop' = [loop EXCEPT ![f] = next]
    /\ degraded' = [degraded EXCEPT ![f] = FALSE]
    /\ UNCHANGED <<phase, gauge, errors, maintenanceVars, probeVars>>

complete_run_idempotency(f) ==
    /\ loop[f] = "complete"
    /\ Settle(f, "done")
    /\ UNCHANGED <<phase, errors, maintenanceVars, probeVars>>

Finalize(f) == \/ commit_message_with_retry(f) \/ mark_indeterminate(f)
               \/ persist_terminal_outcome(f) \/ complete_run_idempotency(f)

begin_fencing ==
    /\ Drains /\ phase = "accepting" /\ phase' = "fencing"
    /\ UNCHANGED <<errors, finalizerVars, maintenanceVars, probeVars>>

(***************************************************************************)
(* maintain_run_leases: heartbeat, then reconciliation whatever it said.   *)
(***************************************************************************)
Heartbeat(ok) ==
    /\ cycle = "idle"
    /\ ~ok => errors < MaxErrors
    /\ errors' = IF ok THEN errors ELSE errors + 1
    /\ cycle' = IF ok THEN "beaten" ELSE "missed"
    /\ healthy' = (healthy /\ ok)
    /\ UNCHANGED <<phase, finalizerVars, lastCycle, probeVars>>

Reconcile(ok) ==
    /\ cycle # "idle"
    /\ ~ok => errors < MaxErrors
    /\ errors' = IF ok THEN errors ELSE errors + 1
    /\ healthy' = (cycle = "beaten" /\ ok)
    /\ lastCycle' = (cycle = "beaten" /\ ok)
    /\ cycle' = "idle"
    /\ UNCHANGED <<phase, finalizerVars, probeVars>>

(***************************************************************************)
(* The readiness probe.                                                    *)
(***************************************************************************)
Goto(p, where) == probe' = [probe EXCEPT ![p] = where]

\* Lifecycle, finalisers and maintenance, before it queues for the cache.
readiness(p) ==
    /\ probe[p] = "idle"
    /\ Goto(p, IF phase = "accepting" /\ gauge = 0 /\ healthy THEN "waiting" ELSE "not_ready")
    /\ UNCHANGED <<phase, errors, finalizerVars, maintenanceVars, cache, holder>>

WaitTimesOut(p) ==
    /\ probe[p] = "waiting" /\ holder # NoProbe
    /\ Goto(p, "not_ready")
    /\ UNCHANGED <<phase, errors, finalizerVars, maintenanceVars, cache, holder>>

\* With the lock it reads the lifecycle again; a snapshot young enough answers,
\* else the storage is checked with the lock held.
LockCache(p) ==
    /\ probe[p] = "waiting" /\ holder = NoProbe
    /\ \/ /\ phase # "accepting"
          /\ Goto(p, "not_ready")
          /\ UNCHANGED holder
       \/ /\ phase = "accepting" /\ cache # "none"
          /\ Goto(p, cache)
          /\ UNCHANGED holder
       \/ /\ phase = "accepting"
          /\ Goto(p, "checking")
          /\ holder' = p
    /\ UNCHANGED <<phase, errors, finalizerVars, maintenanceVars, cache>>

\* A check whose result is answered as it was found.
CheckStale(p, ok) ==
    /\ probe[p] = "checking"
    /\ cache' = IF ok THEN "ready" ELSE "not_ready"
    /\ holder' = NoProbe
    /\ Goto(p, cache')
    /\ UNCHANGED <<phase, errors, finalizerVars, maintenanceVars>>

\* The flows directory and the store are checked; the lifecycle read after them
\* decides.
Check(p, ok) ==
    /\ probe[p] = "checking"
    /\ cache' = IF ok THEN "ready" ELSE "not_ready"
    /\ holder' = NoProbe
    /\ Goto(p, IF phase = "accepting" THEN cache' ELSE "not_ready")
    /\ UNCHANGED <<phase, errors, finalizerVars, maintenanceVars>>

Answer(p) ==
    /\ probe[p] \in {"ready", "not_ready"}
    /\ Goto(p, "idle")
    /\ UNCHANGED <<phase, errors, finalizerVars, maintenanceVars, cache, holder>>

Probe(p) == \/ readiness(p) \/ LockCache(p) \/ Answer(p)
            \/ \E ok \in BOOLEAN : Check(p, ok)

Maintain == \E ok \in BOOLEAN : Heartbeat(ok) \/ Reconcile(ok)

Next == \/ begin_fencing \/ Maintain
        \/ \E f \in Finalizers :
              \/ \E l \in Loops : Start(f, l)
              \/ StoreFails(f) \/ Finalize(f)
              \/ wait_for_lease_loss(f) \/ OwnerDraining(f)
        \/ \E p \in Probes : Probe(p) \/ WaitTimesOut(p)

Spec == Init /\ [][Next]_vars

(***************************************************************************)
(* Properties.                                                             *)
(***************************************************************************)
TypeOK == /\ phase \in {"accepting", "fencing"}
          /\ loop \in [Finalizers -> {"idle", "commit", "run", "mark", "complete", "done"}]
          /\ degraded \in [Finalizers -> BOOLEAN]
          /\ gauge \in Nat /\ errors \in 0..MaxErrors
          /\ healthy \in BOOLEAN /\ lastCycle \in BOOLEAN
          /\ cycle \in {"idle", "beaten", "missed"}
          /\ probe \in [Probes -> {"idle", "waiting", "checking", "ready", "not_ready"}]
          /\ cache \in {"none", "ready", "not_ready"}
          /\ holder \in Probes \cup {NoProbe}
          /\ \A p \in Probes : (probe[p] = "checking") <=> (holder = p)

\* terminal_persistence_failures never forgets a finaliser that is retrying,
\* whatever losses and drains cut other loops short: a new probe cannot find the
\* process ready while one of them waits for the store.
GaugeCoversRetrying == gauge >= Cardinality(Retrying)

\* readiness' comments: a drain that fences the process while a probe waits for
\* the cache's lock, or checks the storage, is not answered with Ready.
DrainNeverReady ==
    \A p \in Probes : (probe'[p] = "ready" /\ probe[p] # "ready") => phase = "accepting"

\* maintain_run_leases: only a complete successful cycle restores health, and a
\* failed heartbeat drops it before the reconciliation that follows.
HealthIsEarned == healthy => lastCycle /\ cycle # "missed"

\* docs/cli.md: the gauge returns to 0 as the finalisers recover or are fenced.
GaugeReturns == (\A f \in Finalizers : loop[f] \in {"idle", "done"}) => gauge = 0

\* With no claim lost and no drain, an outage that ends lets the process become
\* ready again: the gauge goes back to 0 and maintenance to healthy.
ReadinessRecovers == <>[](gauge = 0 /\ Retrying = {}) /\ []<>healthy
=============================================================================
