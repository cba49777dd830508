---------------------------- MODULE Orchestrator ----------------------------
(***************************************************************************)
(* run_crew: src/src/engine/orchestrator.rs.  The tasks of a crew run in   *)
(* phases.  Within a phase the foreach and collaborative tasks run one     *)
(* after another, then the standard tasks concurrently as futures of the   *)
(* one task that runs the crew, under a semaphore; a completion is         *)
(* processed as soon as the futures yield it, and while the error handler  *)
(* of a failed task is awaited no other future is polled.                  *)
(*                                                                         *)
(* A result keeps how it came about, its success flag, its serialized size *)
(* and the attempts its usage snapshot accounts for.                       *)
(***************************************************************************)
EXTENDS TaskPhases, FiniteSetsExt

CONSTANTS
    Tasks,          \* the tasks of the crew
    Crews,          \* the crews a run may be given
    None,           \* no on_error
    MaxConcurrent,  \* permits of the task semaphore
    MaxAttempts,    \* attempts of one task, max_retries + 1
    Sizes,          \* serialized sizes of a result
    MaxTotalBytes   \* IRONCREW_RUN_RESULTS_MAX_BYTES

MaxConcurrentAssumption == MaxConcurrent \in Nat \ {0}
BytesAssumption == Sizes \subseteq Nat \ {0} /\ MaxTotalBytes \in Nat

VARIABLES
    crew,       \* deps, kind, onError, conditional, lost (unknown agent)
    pc,         \* where run_crew is
    phase,      \* the phase being executed
    todo,       \* eligible tasks of the phase that have not been started
    holding,    \* standard tasks that hold a permit and are executing
    cur,        \* the failed task whose error handler is awaited
    curUsage,   \* the usage snapshot of the failed task
    results,    \* the results map
    total,      \* RetainedResultBudget::total_bytes
    failed,     \* failed_tasks
    persisted,  \* persisted_to_memory
    memory,     \* what the memory store holds under "task:<name>"
    spent,      \* attempts made for each task
    ran,        \* tasks that were assigned to an agent
    events,     \* terminal task events, <<event, task>>
    handled     \* <<task, handler>> for every handler invocation

vars == <<crew, pc, phase, todo, holding, cur, curUsage, results, total,
          failed, persisted, memory, spent, ran, events, handled>>

Handlers == {crew.onError[t] : t \in Tasks} \ {None}

Phases == topological_phases(crew.deps)

Usage(n) == [n |-> n, known |-> TRUE]
Unavailable == [n |-> 0, known |-> FALSE]

Result(how, success, bytes, usage) ==
    [how |-> how, success |-> success, bytes |-> bytes, usage |-> usage]

SkipBytes == Min(Sizes)

Skipped(how, success) == Result(how, success, SkipBytes, Usage(0))

With(f, k, v) == [x \in DOMAIN f \cup {k} |-> IF x = k THEN v ELSE f[x]]

Retained(f) == MapThenSumSet(LAMBDA k : f[k].bytes, DOMAIN f)

(***************************************************************************)
(* RetainedResultBudget::insert.  What is inserted at once is a function   *)
(* from names to results; a refused insertion is an error of the run.      *)
(***************************************************************************)

\* The replaced result leaves the count.
NewTotal(new) ==
    total - Retained([k \in DOMAIN new \cap DOMAIN results |-> results[k]])
          + Retained(new)

Inserted(new) ==
    [k \in DOMAIN results \cup DOMAIN new |->
        IF k \in DOMAIN new THEN new[k] ELSE results[k]]

Fail == pc' = "error" /\ holding' = {} /\ UNCHANGED <<results, total, phase, todo, cur, curUsage>>

Insert(new) ==
    /\ NewTotal(new) <= MaxTotalBytes
    /\ results' = Inserted(new)
    /\ total' = NewTotal(new)

Init ==
    /\ crew \in Crews
    /\ pc = "start"
    /\ phase = 1
    /\ todo = {} /\ holding = {} /\ ran = {}
    /\ cur = None /\ curUsage = Unavailable
    /\ results = <<>> /\ total = 0
    /\ failed = {} /\ persisted = {}
    /\ memory = <<>>
    /\ spent = [t \in Tasks |-> 0]
    /\ events = {} /\ handled = {}

Validate ==
    /\ pc = "start"
    /\ pc' = IF Resolves(crew.deps) /\ Phases # <<>>
                /\ UNION {Phases[k] : k \in DOMAIN Phases} = Tasks
             THEN "filter" ELSE "error"
    /\ UNCHANGED <<crew, phase, todo, holding, cur, curUsage, results, total,
                   failed, persisted, memory, spent, ran, events, handled>>

(***************************************************************************)
(* filter_eligible_tasks: the handlers of the phase are passed over before *)
(* anything else is looked at, then a failed dependency skips and fails a  *)
(* task, then a condition (any Lua expression) skips it as a success.      *)
(***************************************************************************)
\* A dependency that was itself skipped does not block.
BlockedByRun(ph) ==
    {t \in ph : \E d \in Deps(crew.deps, t) :
        d \in failed /\ d \in ran}

Blocked(ph) == {t \in ph : Deps(crew.deps, t) \cap failed # {}}

\* evaluate_condition: a Lua expression over the results so far, in a fresh
\* environment, is true, false, nil or an error; the last two are false.
ConditionOff(S) == SUBSET (crew.conditional \cap S)

FilterPhase ==
    /\ pc = "filter"
    /\ phase \in DOMAIN Phases
    /\ LET ph == Phases[phase] \ Handlers
           blocked == Blocked(ph)
       IN  \E off \in ConditionOff(ph \ blocked) :
             LET new == [t \in blocked \cup off |->
                            IF t \in blocked THEN Skipped("dependency", FALSE)
                            ELSE Skipped("condition", TRUE)]
                 eligible == ph \ (blocked \cup off)
             IN  /\ failed' = failed \cup blocked
                 /\ events' = events \cup {<<"skipped", t>> : t \in blocked \cup off}
                 /\ \/ /\ Insert(new)
                       /\ todo' = eligible
                       /\ IF eligible = {}
                          THEN phase' = phase + 1 /\ UNCHANGED pc
                          ELSE pc' = "special" /\ UNCHANGED phase
                       /\ UNCHANGED <<holding, cur, curUsage>>
                    \/ NewTotal(new) > MaxTotalBytes /\ Fail
    /\ UNCHANGED <<crew, persisted, memory, spent, ran, handled>>

(***************************************************************************)
(* execute_foreach_task, as the run sees it: a limit error ends the run; an*)
(* unusable source or a loop whose every item failed fails the task; a     *)
(* partial failure keeps success = false without failing it.  A failed     *)
(* foreach does not reach its on_error handler.                            *)
(***************************************************************************)
ForeachOutcomes ==
    {[how |-> "empty", success |-> TRUE, fails |-> FALSE, ran |-> FALSE],
     [how |-> "source", success |-> FALSE, fails |-> TRUE, ran |-> FALSE],
     [how |-> "output", success |-> TRUE, fails |-> FALSE, ran |-> TRUE],
     [how |-> "partial", success |-> FALSE, fails |-> FALSE, ran |-> TRUE],
     [how |-> "wholly", success |-> FALSE, fails |-> TRUE, ran |-> TRUE]}

ForeachLimit(t) ==
    /\ pc = "special"
    /\ t \in todo /\ crew.kind[t] = "foreach" /\ t \notin crew.lost
    /\ Fail
    /\ UNCHANGED <<crew, failed, persisted, memory, spent, ran, events, handled>>

ForeachVerdict(t, o, b) ==
    failed' = IF o.fails THEN failed \cup {t} ELSE failed

\* continue: the task does not go through the normal spawn path.
Without(t) == todo \ {t}

RunForeach(t) ==
    /\ pc = "special"
    /\ t \in todo /\ crew.kind[t] = "foreach" /\ t \notin crew.lost
    /\ \E o \in ForeachOutcomes, b \in Sizes :
         LET r == Result(o.how, o.success, b, Usage(IF o.ran THEN 1 ELSE 0))
             new == [k \in {t} |-> r]
         IN  /\ ForeachVerdict(t, o, b)
             /\ spent' = [spent EXCEPT ![t] = @ + r.usage.n]
             /\ events' = events \cup {<<IF o.fails THEN "failed" ELSE "completed", t>>}
             /\ \/ memory' = IF o.ran THEN With(memory, t, r) ELSE memory
                \/ UNCHANGED memory
             /\ \/ /\ Insert(new)
                   /\ todo' = Without(t)
                   /\ UNCHANGED <<pc, phase, holding, cur, curUsage>>
                \/ NewTotal(new) > MaxTotalBytes /\ Fail
    /\ ran' = ran \cup {t}
    /\ UNCHANGED <<crew, persisted, handled>>

(***************************************************************************)
(* process_phase_result.                                                   *)
(***************************************************************************)
Completed(t, usage) ==
    /\ \E b \in Sizes :
         LET new == [k \in {t} |-> Result("output", TRUE, b, usage)]
         IN  \/ /\ Insert(new)
                /\ events' = events \cup {<<"completed", t>>}
                /\ UNCHANGED <<pc, phase, cur, curUsage>>
             \/ /\ NewTotal(new) > MaxTotalBytes
                /\ pc' = "error"
                /\ UNCHANGED <<results, total, events, phase, cur, curUsage>>
    /\ UNCHANGED <<failed, handled>>

\* handle_task_error finds no such task: the original failure path.
FailedAlone(t, usage) ==
    /\ crew.onError[t] \notin Tasks
    /\ failed' = failed \cup {t}
    /\ events' = events \cup {<<"failed", t>>}
    /\ \E b \in Sizes :
         LET new == [k \in {t} |-> Result("error", FALSE, b, usage)]
         IN  \/ Insert(new) /\ UNCHANGED <<pc, phase, cur, curUsage>>
             \/ /\ NewTotal(new) > MaxTotalBytes
                /\ pc' = "error"
                /\ UNCHANGED <<results, total, phase, cur, curUsage>>
    /\ UNCHANGED handled

\* Ends in the handler's await; the caller resumes where it was.
AwaitHandler(t, usage) ==
    /\ crew.onError[t] \in Tasks
    /\ cur' = t
    /\ curUsage' = usage
    /\ pc' = "handler"
    /\ handled' = handled \cup {<<t, crew.onError[t]>>}
    /\ UNCHANGED <<failed, events, results, total, phase>>

\* The usage of a success is always readable: an unreadable snapshot makes
\* the outcome an error.
Process(t, ok, usage) ==
    \/ ok /\ usage.known /\ Completed(t, usage)
    \/ ~ok /\ (FailedAlone(t, usage) \/ AwaitHandler(t, usage))

RunCollaborative(t) ==
    /\ pc = "special"
    /\ t \in todo /\ crew.kind[t] = "collaborative"
    /\ todo' = todo \ {t}
    /\ ran' = ran \cup {t}
    /\ spent' = [spent EXCEPT ![t] = 1]
    /\ \E ok \in BOOLEAN : Process(t, ok, Usage(1))
    /\ UNCHANGED <<crew, holding, persisted, memory>>

\* No child scope for the task, or no snapshot of one that failed: the error ends the run.
UnscopedCollaborative(t) ==
    /\ pc = "special"
    /\ t \in todo /\ crew.kind[t] = "collaborative"
    /\ ran' = ran \cup {t}
    /\ \E n \in 0 .. 1 : spent' = [spent EXCEPT ![t] = n]
    /\ Fail
    /\ UNCHANGED <<crew, failed, persisted, memory, events, handled>>

\* Building the futures: one whose agent does not exist fails the run.
LaunchStandard ==
    /\ pc = "special"
    /\ \A t \in todo : crew.kind[t] = "standard"
    /\ IF todo \cap crew.lost # {}
       THEN Fail /\ UNCHANGED ran
       ELSE /\ pc' = "running"
            /\ ran' = ran \cup todo
            /\ UNCHANGED <<phase, todo, holding, cur, curUsage, results, total>>
    /\ UNCHANGED <<crew, failed, persisted, memory, spent, events, handled>>

LostForeach(t) ==
    /\ pc = "special"
    /\ t \in todo /\ crew.kind[t] = "foreach" /\ t \in crew.lost
    /\ Fail
    /\ UNCHANGED <<crew, failed, persisted, memory, spent, ran, events, handled>>

Polled(t) ==
    /\ pc = "running"
    /\ t \in todo

Acquire(t) ==
    /\ Polled(t)
    /\ Cardinality(holding) < MaxConcurrent
    /\ holding' = holding \cup {t}
    /\ todo' = todo \ {t}
    /\ UNCHANGED <<crew, pc, phase, cur, curUsage, results, total, failed,
                   persisted, memory, spent, ran, events, handled>>

PermitDropped(t) == holding \ {t}

\* run_single_task returns after n attempts, and its permit is dropped with
\* the future before the outcome is processed.
EndStandard(t) ==
    /\ pc = "running"
    /\ t \in holding
    /\ holding' = PermitDropped(t)
    /\ \E ok \in BOOLEAN, n \in 0 .. MaxAttempts :
         /\ spent' = [spent EXCEPT ![t] = n]
         /\ ok => n > 0
         /\ \/ n > 0 /\ Process(t, ok, Usage(n))
            \/ Process(t, ok, Unavailable)
    /\ UNCHANGED <<crew, todo, persisted, memory, ran>>

(***************************************************************************)
(* handle_task_error returns.  A handler used before keeps the usage of    *)
(* its earlier invocations; a failed child scope reports none at all.      *)
(***************************************************************************)
Previous(h) ==
    IF h \in DOMAIN results THEN results[h].usage ELSE Usage(0)

HandlerUsage(h) ==
    [n |-> 1 + Previous(h).n, known |-> Previous(h).known]

Resume == IF crew.kind[cur] = "collaborative" THEN "special" ELSE "running"

Verdicts(h, ok, usage, b, c) ==
    [k \in {h, cur} |->
        IF k = cur
        THEN IF ok THEN Result("recovered", TRUE, c, curUsage)
             ELSE Result("error", FALSE, c, curUsage)
        ELSE Result(IF ok THEN "output" ELSE "error", ok, b, usage)]

HandlerReturns ==
    /\ pc = "handler"
    /\ \E ok \in BOOLEAN, scoped \in BOOLEAN, b \in Sizes, c \in Sizes :
         LET h == crew.onError[cur]
             usage == IF scoped THEN HandlerUsage(h) ELSE Unavailable
             new == Verdicts(h, ok, usage, b, c)
         IN  /\ ok => scoped
             /\ spent' = [spent EXCEPT ![h] = IF scoped THEN @ + 1 ELSE @]
             /\ failed' = IF ok THEN failed ELSE failed \cup {h, cur}
             /\ events' = IF ok \/ NewTotal([k \in {h} |-> new[h]]) > MaxTotalBytes
                          THEN events ELSE events \cup {<<"failed", cur>>}
             /\ \/ /\ Insert(new)
                   /\ pc' = Resume
                   /\ cur' = None /\ curUsage' = Unavailable
                   /\ UNCHANGED <<phase, todo, holding>>
                \/ NewTotal(new) > MaxTotalBytes /\ Fail
    /\ UNCHANGED <<crew, persisted, memory, ran, handled>>

(***************************************************************************)
(* The end of a phase: every success not yet persisted is marked, and then *)
(* written as far as the memory store takes it.                            *)
(***************************************************************************)

ToPersist == {k \in DOMAIN results : results[k].success} \ persisted

PersistPhase ==
    /\ pc = "running"
    /\ todo = {} /\ holding = {}
    /\ persisted' = persisted \cup ToPersist
    /\ \E kept \in SUBSET ToPersist :
         memory' = [k \in DOMAIN memory \cup kept |->
                       IF k \in kept THEN results[k] ELSE memory[k]]
    /\ phase' = phase + 1
    /\ pc' = "filter"
    /\ UNCHANGED <<crew, todo, holding, cur, curUsage, results, total, failed,
                   spent, ran, events, handled>>

Untriggered == Handlers \ DOMAIN results

\* Untriggered handlers are skipped, the memory store is saved and the token
\* budget is checked a last time.
Finish ==
    /\ pc = "filter"
    /\ phase \notin DOMAIN Phases
    /\ LET new == [h \in Untriggered |-> Skipped("untriggered", TRUE)]
       IN  \/ /\ Insert(new)
              /\ pc' \in {"done", "error"}
              /\ UNCHANGED <<phase, todo, holding, cur, curUsage>>
           \/ NewTotal(new) > MaxTotalBytes /\ Fail
    /\ UNCHANGED <<crew, failed, persisted, memory, spent, ran, events, handled>>

Ended == pc \in {"done", "error", "aborted"}

\* The future of the whole run is dropped (a lifetime limit, an abort): every
\* task future goes with it.
Abort ==
    /\ ~Ended
    /\ pc' = "aborted"
    /\ holding' = {}
    /\ UNCHANGED <<crew, phase, todo, cur, curUsage, results, total, failed,
                   persisted, memory, spent, ran, events, handled>>

Next ==
    \/ Validate \/ FilterPhase \/ LaunchStandard \/ HandlerReturns
    \/ PersistPhase \/ Finish \/ Abort
    \/ \E t \in Tasks :
         \/ RunForeach(t) \/ ForeachLimit(t) \/ LostForeach(t)
         \/ RunCollaborative(t) \/ UnscopedCollaborative(t)
         \/ Acquire(t) \/ EndStandard(t)

Spec == Init /\ [][Next]_vars

-----------------------------------------------------------------------------
Hows == {"condition", "dependency", "empty", "source", "output", "partial",
         "wholly", "error", "recovered", "untriggered"}

TypeOK ==
    /\ crew \in Crews
    /\ pc \in {"start", "filter", "special", "running", "handler",
               "done", "error", "aborted"}
    /\ phase \in 1 .. Cardinality(Tasks) + 1
    /\ todo \subseteq Tasks /\ holding \subseteq Tasks /\ ran \subseteq Tasks
    /\ cur \in Tasks \cup {None}
    /\ \A k \in DOMAIN results :
         /\ results[k].how \in Hows /\ results[k].success \in BOOLEAN
         /\ results[k].bytes \in Sizes /\ results[k].usage.n \in Nat
    /\ total \in 0 .. MaxTotalBytes
    /\ failed \subseteq Tasks
    /\ DOMAIN memory \subseteq DOMAIN results \cup todo
    /\ persisted \subseteq DOMAIN results

\* run_crew: a task is assigned to an agent only after each of its
\* dependencies has a result that did not fail it, error handlers apart.
StartsAfterDeps ==
    \A t \in ran : \A d \in Deps(crew.deps, t) \ Handlers :
        d \in DOMAIN results /\ d \notin failed

\* failed_tasks and the results map agree: outside the handlers, exactly the
\* unsuccessful results gate their dependents, a partly failed foreach apart.
VerdictsAgree ==
    ~Ended =>
        \A t \in DOMAIN results \ Handlers :
            t \in failed <=> ~results[t].success /\ results[t].how # "partial"

\* A run that returns results returns one for every task of the crew, and one
\* skipped for a dependency has an unsuccessful dependency or one whose error
\* handler failed in the run.
EveryTaskAnswered ==
    pc = "done" =>
        /\ Tasks \subseteq DOMAIN results
        /\ \A t \in Tasks : results[t].how = "dependency" =>
              \E d \in Deps(crew.deps, t) :
                  \/ ~results[d].success
                  \/ \E c \in Tasks : <<c, d>> \in handled /\ ~results[c].success

\* RetainedResultBudget counts exactly the bytes of the results retained,
\* replacements of a reused handler's result included.
BytesExact == total = Retained(results)

\* At most max_concurrent tasks execute at once, the error handler that runs
\* without a permit included.
ConcurrencyBound ==
    Cardinality(holding) + (IF pc = "handler" THEN 1 ELSE 0) <= MaxConcurrent

\* A result with readable usage accounts for every attempt made under its
\* name: retries, attempts of a recovered task, each call of a shared handler.
UsageExact ==
    \A t \in Tasks \cap DOMAIN results :
        results[t].usage.known => results[t].usage.n = spent[t]

\* Between phases the memory store holds, for a task that is no handler, the
\* result the run holds for it, and never a failure of a standard task.
MemoryIsCurrent ==
    pc \in {"filter", "done"} =>
        \A t \in (DOMAIN memory \cap Tasks) \ Handlers :
            /\ memory[t] = results[t]
            /\ results[t].success \/ crew.kind[t] = "foreach"

\* The result of a task that is no error handler is never replaced.
ResultsStand ==
    \A t \in DOMAIN results \ Handlers : results'[t] = results[t]

\* Every run ends, whatever fails on the way.
CrewEnds == <>Ended

=============================================================================
