----------------------------- MODULE TaskRunner -----------------------------
(***************************************************************************)
(* run_single_task and timeout_excluding_human_wait:                       *)
(* src/src/engine/task_runner.rs.  Several tasks of one run execute at     *)
(* once, each in a loop of attempts.  An attempt has a budget of time that *)
(* is billed in slices of 500 ms, each as a whole and only when no human   *)
(* question of the run is pending at its end; the input bridge that counts *)
(* the questions is shared by all tasks of the run, and their slices need  *)
(* not begin together.                                                     *)
(***************************************************************************)
EXTENDS Naturals, FiniteSets

CONSTANTS
    Tasks,          \* standard tasks that run concurrently
    Agents,         \* the agents they are assigned to
    AgentOf,        \* the agent of each task
    Messages,       \* messages waiting in the agents' inboxes
    Budget,         \* slices in timeout_secs
    SliceLen,       \* ticks of the clock in a slice
    MaxRetries,     \* max_retries
    Base, Cap,      \* retry_backoff_secs and its cap, in ticks
    MaxQuestions    \* bound: questions one task asks

BudgetAssumption == {Budget, SliceLen} \subseteq Nat \ {0} /\ MaxRetries \in Nat
BackoffAssumption == Base \in Nat \ {0} /\ Cap \in Nat \ {0}
AgentAssumption == AgentOf \in [Tasks -> Agents]

VARIABLES
    st,         \* "new", "attempt", "asking", "backoff", "ended"
    attempt,    \* the attempt counter
    remaining,  \* slices left of the attempt's budget, or ticks of the backoff
    elapsed,    \* ticks of the current slice that have passed
    inbox,      \* pending messages of each agent
    context,    \* messages_context of each task
    seen,       \* per task, the contexts its attempts were given
    outcome,    \* "none", "ok", "error", "empty", "budget", "timeout", "usage"
    asked,      \* questions asked so far
    worked,     \* history: ticks of this attempt with no question pending
    waits       \* history: periods of this attempt with some question pending

vars == <<st, attempt, remaining, elapsed, inbox, context, seen, outcome, asked, worked, waits>>

Init ==
    /\ st = [t \in Tasks |-> "new"]
    /\ attempt = [t \in Tasks |-> 0]
    /\ remaining = [t \in Tasks |-> 0]
    /\ elapsed = [t \in Tasks |-> 0]
    /\ inbox \in [Agents -> SUBSET Messages]
    /\ context = [t \in Tasks |-> {}]
    /\ seen = [t \in Tasks |-> {}]
    /\ outcome = [t \in Tasks |-> "none"]
    /\ asked = [t \in Tasks |-> 0]
    /\ worked = [t \in Tasks |-> 0]
    /\ waits = [t \in Tasks |-> 0]

Executing == {t \in Tasks : st[t] \in {"attempt", "asking"}}
Pending == {t \in Tasks : st[t] = "asking"}

\* retry_backoff: base * 2^attempt, capped.
retry_backoff(a) == IF Base * 2^a < Cap THEN Base * 2^a ELSE Cap

\* No child scope for the usage of the task: it fails before it starts.
NoScope(t) ==
    /\ st[t] = "new"
    /\ st' = [st EXCEPT ![t] = "ended"]
    /\ outcome' = [outcome EXCEPT ![t] = "usage"]
    /\ UNCHANGED <<attempt, remaining, elapsed, inbox, context, seen, asked, worked, waits>>

\* One more attempt begins, with the context collected before the loop.
Attempt(t, ctx) ==
    /\ st' = [st EXCEPT ![t] = "attempt"]
    /\ remaining' = [remaining EXCEPT ![t] = Budget]
    /\ elapsed' = [elapsed EXCEPT ![t] = 0]
    /\ seen' = [seen EXCEPT ![t] = @ \cup {ctx}]
    /\ worked' = [worked EXCEPT ![t] = 0]
    /\ waits' = [waits EXCEPT ![t] = IF Pending = {} THEN 0 ELSE 1]

\* messagebus.receive empties the inbox of the agent.
Receive(t) ==
    /\ st[t] = "new"
    /\ context' = [context EXCEPT ![t] = inbox[AgentOf[t]]]
    /\ inbox' = [inbox EXCEPT ![AgentOf[t]] = {}]
    /\ Attempt(t, inbox[AgentOf[t]])
    /\ UNCHANGED <<attempt, outcome, asked>>

AskHuman(t) ==
    /\ st[t] = "attempt"
    /\ asked[t] < MaxQuestions
    /\ asked' = [asked EXCEPT ![t] = @ + 1]
    /\ st' = [st EXCEPT ![t] = "asking"]
    /\ waits' = [u \in Tasks |-> IF Pending = {} /\ u \in Executing THEN waits[u] + 1 ELSE waits[u]]
    /\ UNCHANGED <<attempt, remaining, elapsed, inbox, context, seen, outcome, worked>>

\* An answer, or the expiry of the question itself.
Answered(t) ==
    /\ st[t] = "asking"
    /\ st' = [st EXCEPT ![t] = "attempt"]
    /\ UNCHANGED <<attempt, remaining, elapsed, inbox, context, seen, outcome, asked, worked, waits>>

\* The attempt's clock is gone.
StopClock(t) ==
    /\ elapsed' = [elapsed EXCEPT ![t] = 0]
    /\ worked' = [worked EXCEPT ![t] = 0]
    /\ waits' = [waits EXCEPT ![t] = 0]

\* The loop is left with an outcome.
End(t, out) ==
    /\ st' = [st EXCEPT ![t] = "ended"]
    /\ outcome' = [outcome EXCEPT ![t] = out]
    /\ UNCHANGED attempt

RetriesLeft(t) == attempt[t] < MaxRetries

Sleep(t) ==
    /\ st' = [st EXCEPT ![t] = "backoff"]
    /\ remaining' = [remaining EXCEPT ![t] = retry_backoff(attempt[t])]
    /\ UNCHANGED <<attempt, outcome>>

\* The snapshot of the usage may still turn the output into an error.
Succeed(t) ==
    /\ st[t] = "attempt"
    /\ \E out \in {"ok", "usage"} : End(t, out)
    /\ StopClock(t)
    /\ UNCHANGED <<remaining, inbox, context, seen, asked>>

\* allows_task_retry: an empty final response or an exhausted token budget
\* ends the task.
AllowsTaskRetry(e) == e \notin {"empty", "budget"}

AttemptFails(t) ==
    /\ st[t] = "attempt"
    /\ \E e \in {"error", "empty", "budget"} :
         IF ~AllowsTaskRetry(e) \/ ~RetriesLeft(t)
         THEN End(t, e) /\ UNCHANGED remaining
         ELSE Sleep(t)
    /\ StopClock(t)
    /\ UNCHANGED <<inbox, context, seen, asked>>

\* Mutant: only the task's own question stops its clock
NoQuestionOfItsOwn(t) == t \notin Pending

\* pending_count() of the run's bridge
NoQuestion(t) == Pending = {}

\* A slice ends without the attempt having ended.
Slice(t) ==
    /\ t \in Executing /\ elapsed[t] = SliceLen
    /\ \/ /\ ~NoQuestion(t)
          /\ elapsed' = [elapsed EXCEPT ![t] = 0]
          /\ UNCHANGED <<st, attempt, remaining, outcome, worked, waits>>
       \/ /\ NoQuestion(t) /\ remaining[t] > 1
          /\ elapsed' = [elapsed EXCEPT ![t] = 0]
          /\ remaining' = [remaining EXCEPT ![t] = @ - 1]
          /\ UNCHANGED <<st, attempt, outcome, worked, waits>>
       \/ /\ NoQuestion(t) /\ remaining[t] = 1 /\ RetriesLeft(t)
          /\ Sleep(t) /\ StopClock(t)
       \/ /\ NoQuestion(t) /\ remaining[t] = 1 /\ ~RetriesLeft(t)
          /\ End(t, "timeout") /\ StopClock(t)
          /\ UNCHANGED remaining
    /\ UNCHANGED <<inbox, context, seen, asked>>

Collected(t) == context[t]

Retry(t) ==
    /\ st[t] = "backoff"
    /\ remaining[t] = 0
    /\ attempt' = [attempt EXCEPT ![t] = @ + 1]
    /\ Attempt(t, Collected(t))
    /\ UNCHANGED <<inbox, context, outcome, asked>>

\* A tick of the clock; a timer that has run out is served before the next.
Tick ==
    /\ \E t \in Tasks : st[t] \in {"attempt", "asking", "backoff"}
    /\ \A t \in Tasks : t \in Executing => elapsed[t] < SliceLen
    /\ \A t \in Tasks : st[t] = "backoff" => remaining[t] > 0
    /\ elapsed' = [t \in Tasks |-> IF t \in Executing THEN elapsed[t] + 1 ELSE elapsed[t]]
    /\ remaining' = [t \in Tasks |-> IF st[t] = "backoff" THEN remaining[t] - 1 ELSE remaining[t]]
    /\ worked' = [t \in Tasks |-> IF t \in Executing /\ Pending = {} THEN worked[t] + 1 ELSE worked[t]]
    /\ UNCHANGED <<st, attempt, inbox, context, seen, outcome, asked, waits>>

Next ==
    \/ Tick
    \/ \E t \in Tasks :
        \/ NoScope(t) \/ Receive(t) \/ AskHuman(t) \/ Answered(t)
        \/ Succeed(t) \/ AttemptFails(t) \/ Slice(t) \/ Retry(t)

Spec == Init /\ [][Next]_vars

-----------------------------------------------------------------------------
TypeOK ==
    /\ st \in [Tasks -> {"new", "attempt", "asking", "backoff", "ended"}]
    /\ attempt \in [Tasks -> 0 .. MaxRetries]
    /\ remaining \in [Tasks -> 0 .. (Budget + Cap)]
    /\ elapsed \in [Tasks -> 0 .. SliceLen]
    /\ outcome \in [Tasks -> {"none", "ok", "error", "empty", "budget", "timeout", "usage"}]
    /\ waits \in [Tasks -> 0 .. 1 + MaxQuestions * Cardinality(Tasks)]

\* The time billed to an attempt is the time it worked: a period in which someone was
\* asked, whichever task asked and however long it lasted, costs an attempt or gives
\* it one slice at most.  So a timeout comes after the whole budget in that attempt,
\* less a slice for each wait, and not much later.  The slice is why docs/tools.md:248,
\* "human-wait time does not count against the task's timeout", does not hold to the
\* tick: a question asked and answered within a slice is billed.
TimeoutIsEarned ==
    \A t \in Executing :
        LET billed == (Budget - remaining[t]) * SliceLen
        IN  /\ billed <= worked[t] + waits[t] * SliceLen
            /\ worked[t] <= billed + elapsed[t] + waits[t] * SliceLen
            /\ elapsed[t] = SliceLen /\ NoQuestion(t)
                 => billed + SliceLen <= worked[t] + waits[t] * SliceLen

\* Every attempt of a task is given the messages collected before the first,
\* and a message reaches one task only.
RetriesKeepMessages ==
    /\ \A t \in Tasks : Cardinality(seen[t]) <= 1
    /\ \A t, u \in Tasks :
         t # u /\ AgentOf[t] = AgentOf[u] => context[t] \cap context[u] = {}

\* Every task ends, by an outcome or by its timeouts.
TasksEnd == \A t \in Tasks : <>(st[t] = "ended")

=============================================================================
