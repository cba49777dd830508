------------------------------- MODULE MCCrew -------------------------------
(*****************************************************************************)
(*  Small instances of the components that execute a crew: the order of the  *)
(*  tasks, the run loop, one task, a foreach and an agent's turn, and what   *)
(*  they use: tools, providers, usage accounting and the token budget.       *)
(*  A behaviour is of one component: part names the instance at work.  The   *)
(*  variables of the others are Off, and those of the token budget, which    *)
(*  the module extends, in an initial state.                                 *)
(*****************************************************************************)
EXTENDS TokenBudget, Sequences, TLC

CONSTANTS Off, Unregistered, Missing, Bad, c1, c2, shell, fetch, echo, x, y, q1, q2, q3, v1, v2

\* Two attempts over two tokens of budget; they are interchangeable.
Symmetry == Permutations({v1, v2})
ASSUME BudgetAssumption

\* Bound: a root's address is 1 or 2, a child's 3 or 4.  The fourth scope is there for
\* the locks: the children then link the two roots, in either direction, and their
\* attempts spend nothing.
FewScopes ==
    (\E a \in Attempts : att[a].at # None) =>
        /\ budget.root = 1 /\ \A n \in Scopes : scope[n].depth = IF n <= 2 THEN 0 ELSE 1
        /\ 4 \in Scopes =>
             /\ Scopes = Addrs
             /\ \A n \in {3, 4} : {scope[n].parent, scope[n].observer} = {1, 2}
             /\ \A a \in Attempts : att[a].at # None => att[a].at > 2 /\ att[a].spent = 0

\* Every depends_on list of at most two entries for three tasks, one of the
\* tasks being able to name something that does not exist.
Lists(S) == {<<>>} \cup {<<t>> : t \in S} \cup {<<t, u>> : t, u \in S}
Three == {"a", "b", "c"}
Graphs == [Three -> Lists(Three)]
          \cup {[a |-> <<"ghost">>, b |-> <<>>, c |-> <<"a">>],
                [a |-> <<"b", "ghost">>, b |-> <<>>, c |-> <<>>]}

Crew(deps, kind, onError, conditional, lost) ==
    [deps |-> deps, kind |-> kind, onError |-> onError,
     conditional |-> conditional, lost |-> lost]

Four == {"a", "b", "c", "h"}
Standard == [t \in Four |-> "standard"]
NoHandler == [t \in Four |-> None]
NoDeps == [t \in Four |-> <<>>]

\* a and b share the handler h; c depends on both.
Shared == Crew([NoDeps EXCEPT !["c"] = <<"a", "b">>],
               Standard, [NoHandler EXCEPT !["a"] = "h", !["b"] = "h"], {"c"}, {})
\* The same handler in two phases.
Later == Crew([NoDeps EXCEPT !["c"] = <<"a">>],
              Standard, [NoHandler EXCEPT !["a"] = "h", !["c"] = "h"], {"b"}, {})
\* More tasks in one phase than permits, one of them with a handler.
Wide == Crew(NoDeps, Standard, [NoHandler EXCEPT !["a"] = "h"], {}, {})
\* A chain behind a foreach, beside a collaborative task with a handler.
Mixed == Crew([NoDeps EXCEPT !["c"] = <<"a">>],
              [Standard EXCEPT !["a"] = "foreach", !["b"] = "collaborative"],
              [NoHandler EXCEPT !["b"] = "h"], {}, {})
\* A handler that does not exist, and a chain of two.
Chain == Crew([NoDeps EXCEPT !["b"] = <<"a">>, !["c"] = <<"b">>],
              Standard, [NoHandler EXCEPT !["a"] = "ghost"], {"b"}, {})
\* Crews that cannot run: a cycle, and agents that do not exist.
Broken == {Crew([NoDeps EXCEPT !["a"] = <<"b">>, !["b"] = <<"a">>],
                Standard, NoHandler, {}, {}),
           Crew(NoDeps, Standard, NoHandler, {}, {"a"}),
           Crew(NoDeps, [Standard EXCEPT !["a"] = "foreach"], NoHandler, {}, {"a"})}

\* Contexts that fit, that fill the limit exactly, and that are cut in the
\* first, the second and a later piece.
Pieces == {<<1, 1>>, <<2, 2>>, <<6>>, <<2, 0, 3, 1>>, <<5, 0>>}

\* Every combination of the primary counts with one cache and one detail count.
EveryUsage ==
    {[prompt |-> i, completion |-> o, total |-> n, cached |-> c, cache_write |-> w, reasoning |-> e]
        : i \in {Missing, 1, 2}, o \in {Missing, Bad, 1}, n \in {Missing, 2},
          c \in {Missing, 1}, w \in {Missing, 1}, e \in {Missing, 2}}

\* Few objects, each able to grow, lower or spoil what another reported.
FewUsages ==
    {[prompt |-> i, completion |-> o, total |-> n, cached |-> c, cache_write |-> c, reasoning |-> Missing]
        : i \in {Missing, 1, 2}, o \in {Missing, Bad, 1}, n \in {Missing, 2}, c \in {Missing, 0, 1}}

VARIABLES
    part,  \* which component the behaviour is of
    deps, graphPc, degree, queue, visited,
    crew, crewPc, crewPhase, todo, holding, cur, curUsage, results, total, failed,
    persisted, memory, spent, ran, events, handled,
    st, attempt, remaining, elapsed, inbox, context, taskSeen, taskOutcome, asked, worked, waits,
    parallel, count, eachPc, started, finished, outputs, encoded, failures, fields,
    returned,
    hist, base, before, agentPc, turns, rounds, agentCalls, dl, verdict, granted, consent,
    shPc, shNow, timer, limit, child, kin, away, armed, reader, kept, truncated, shOutcome,
    escaped, late,
    stream, held, settled, overflowed, receipts,
    ssePhase, content, reasoning, used, sseCalls, sseSeen, out, then, chan, printed, usage,
    answer, wire,
    at, mine, active, peak, last, wake, uncounted, callsNow, callsOutcome, top, passed

graphVars == <<deps, graphPc, degree, queue, visited>>
crewVars == <<crew, crewPc, crewPhase, todo, holding, cur, curUsage, results, total, failed,
    persisted, memory, spent, ran, events, handled>>
taskVars == <<st, attempt, remaining, elapsed, inbox, context, taskSeen, taskOutcome, asked,
    worked, waits>>
eachVars == <<parallel, count, eachPc, started, finished, outputs, encoded, failures, fields,
    returned>>
agentVars == <<hist, base, before, agentPc, turns, rounds, agentCalls, dl, verdict, granted, consent>>
shVars == <<shPc, shNow, timer, limit, child, kin, away, armed, reader, kept, truncated,
    shOutcome, escaped, late>>
usageVars == <<stream, held, settled, overflowed, receipts>>
sseVars == <<ssePhase, content, reasoning, used, sseCalls, sseSeen, out, then, chan,
    printed, usage, answer, wire>>
callsVars == <<at, mine, active, peak, last, wake, uncounted, callsNow, callsOutcome, top,
    passed>>
partVars == <<part, vars, graphVars, crewVars, taskVars, eachVars, agentVars, shVars, usageVars,
    sseVars, callsVars>>

Graph == INSTANCE TaskGraph
    WITH Tasks <- Three, pc <- graphPc

\* Every shape of crew, with results that fit.
Run == INSTANCE Orchestrator
    WITH Tasks <- Four, Crews <- {Shared, Later, Wide, Mixed, Chain} \cup Broken,
         MaxConcurrent <- 2, MaxAttempts <- 2, Sizes <- {1}, MaxTotalBytes <- 5,
         pc <- crewPc, phase <- crewPhase
ASSUME Run!MaxConcurrentAssumption
ASSUME Run!BytesAssumption

\* Results of two sizes that need not fit together.
Bytes == INSTANCE Orchestrator
    WITH Tasks <- Four, Crews <- {Later}, MaxConcurrent <- 2, MaxAttempts <- 1,
         Sizes <- {1, 2}, MaxTotalBytes <- 6, pc <- crewPc, phase <- crewPhase

\* Two tasks of one agent.
Runner == INSTANCE TaskRunner
    WITH Tasks <- {"a", "b"}, Agents <- {"x"}, AgentOf <- [t \in {"a", "b"} |-> "x"],
         Messages <- {"m"}, Budget <- 2, SliceLen <- 2, MaxRetries <- 1, Base <- 1, Cap <- 2,
         MaxQuestions <- 1, seen <- taskSeen, outcome <- taskOutcome
ASSUME Runner!BudgetAssumption
ASSUME Runner!BackoffAssumption
ASSUME Runner!AgentAssumption

Each == INSTANCE Foreach
    WITH MaxLen <- 4, MaxItems <- 3, MaxConcurrent <- 2, Lengths <- {2, 4},
         MaxOutputBytes <- 13, Fields <- Pieces, MaxFieldChars <- 4, Marker <- 3,
         pc <- eachPc
ASSUME Each!LimitsAssumption

\* A conversation whose responses hold up to two tool calls.
History == INSTANCE AgentTurn
    WITH Chat <- {c1}, Task <- {}, Tool <- {echo}, Gated <- {}, CallId <- {x, y},
         MaxTurns <- 3, MaxCalls <- 2, MaxRounds <- 2, MaxMessages <- 6, MaxBytes <- 7,
         pc <- agentPc, calls <- agentCalls
ASSUME History!AgentTurnAssumption

\* A conversation and a task share the grants for two gated tools.
Approval == INSTANCE AgentTurn
    WITH Chat <- {c1}, Task <- {c2}, Tool <- {shell, fetch}, Gated <- {shell, fetch},
         CallId <- {x}, MaxTurns <- 2, MaxCalls <- 1, MaxRounds <- 1, MaxMessages <- 4,
         MaxBytes <- 6, pc <- agentPc, calls <- agentCalls
ASSUME Approval!AgentTurnAssumption

\* A command that needs no approval.
Shell == INSTANCE ShellTool
    WITH Procs <- {q1, q2, q3}, Timeout <- 3, Grace <- 1, Drain <- 2, Gate <- 0,
         Margin <- 1, MaxOutput <- 2, pc <- shPc, now <- shNow, outcome <- shOutcome
ASSUME Shell!ShellAssumption

\* One that may be approved in time, late, or not at all.
Gated == INSTANCE ShellTool
    WITH Procs <- {q1, q2}, Timeout <- 3, Grace <- 1, Drain <- 2, Gate <- 3,
         Margin <- 1, MaxOutput <- 1, pc <- shPc, now <- shNow, outcome <- shOutcome
ASSUME Gated!ShellAssumption

\* Two attempts, with every combination of reported counts.
Usage == INSTANCE UsageReceipt
    WITH MaxCount <- 4, Providers <- {"openai", "anthropic"}, Usages <- EveryUsage,
         MaxUpdates <- 1, MaxAttempts <- 2
ASSUME Usage!UsageAssumption

\* One streamed attempt that reports usage up to three times.
Chunks == INSTANCE UsageReceipt
    WITH MaxCount <- 4, Providers <- {"openai", "anthropic"}, Usages <- FewUsages,
         MaxUpdates <- 3, MaxAttempts <- 1
ASSUME Chunks!UsageAssumption

\* OpenAI chat completions.
Chatting == INSTANCE ProviderStream
    WITH Provider <- "openai", Structured <- "", Indexes <- {0, 1}, Names <- {"a", "b"},
         Sizes <- {2}, OutputLimit <- 5, Capacity <- 1, MaxLines <- 3, phase <- ssePhase,
         calls <- sseCalls, seen <- sseSeen
ASSUME Chatting!StreamAssumption

\* Anthropic messages.
Messages == INSTANCE ProviderStream
    WITH Provider <- "anthropic", Structured <- "", Indexes <- {0, 1}, Names <- {"a"},
         Sizes <- {1, 2}, OutputLimit <- 4, Capacity <- 1, MaxLines <- 3, phase <- ssePhase,
         calls <- sseCalls, seen <- sseSeen
ASSUME Messages!StreamAssumption

\* Anthropic messages with a forced structured-output tool.
Forced == INSTANCE ProviderStream
    WITH Provider <- "anthropic", Structured <- "a", Indexes <- {0, 1}, Names <- {"a", "b"},
         Sizes <- {1, 2}, OutputLimit <- 4, Capacity <- 1, MaxLines <- 3, phase <- ssePhase,
         calls <- sseCalls, seen <- sseSeen
ASSUME Forced!StreamAssumption

\* OpenAI responses.
Responses == INSTANCE ProviderStream
    WITH Provider <- "responses", Structured <- "", Indexes <- {0, 1}, Names <- {"a"},
         Sizes <- {1, 2}, OutputLimit <- 4, Capacity <- 1, MaxLines <- 3, phase <- ssePhase,
         calls <- sseCalls, seen <- sseSeen
ASSUME Responses!StreamAssumption

\* Two calls, one of which asks for its input count first.
Requests == INSTANCE ProviderCalls
    WITH Calls <- {q1, q2}, Counted <- {q1}, MinInterval <- 2, MaxTime <- 5,
         now <- callsNow, outcome <- callsOutcome
ASSUME Requests!CallsAssumption

GraphOff == /\ deps = Off /\ graphPc = Off /\ degree = Off /\ queue = Off /\ visited = Off
CrewOff == /\ crew = Off /\ crewPc = Off /\ crewPhase = Off /\ todo = Off /\ holding = Off
           /\ cur = Off /\ curUsage = Off /\ results = Off /\ total = Off /\ failed = Off
           /\ persisted = Off /\ memory = Off /\ spent = Off /\ ran = Off /\ events = Off
           /\ handled = Off
TaskOff == /\ st = Off /\ attempt = Off /\ remaining = Off /\ inbox = Off /\ context = Off
           /\ taskSeen = Off /\ taskOutcome = Off /\ asked = Off /\ elapsed = Off
           /\ worked = Off /\ waits = Off
EachOff == /\ parallel = Off /\ count = Off /\ eachPc = Off /\ started = Off
           /\ finished = Off /\ outputs = Off /\ encoded = Off /\ failures = Off
           /\ fields = Off /\ returned = Off
AgentOff == /\ hist = Off /\ base = Off /\ agentPc = Off /\ turns = Off /\ rounds = Off
            /\ agentCalls = Off /\ dl = Off /\ verdict = Off /\ granted = Off
            /\ consent = Off /\ before = Off
ShOff == /\ shPc = Off /\ shNow = Off /\ timer = Off /\ limit = Off /\ child = Off
         /\ kin = Off /\ away = Off /\ armed = Off /\ reader = Off /\ kept = Off
         /\ truncated = Off /\ shOutcome = Off /\ escaped = Off
         /\ late = Off
UsageOff == /\ stream = Off /\ held = Off /\ settled = Off /\ overflowed = Off
            /\ receipts = Off
SseOff == /\ ssePhase = Off /\ content = Off /\ reasoning = Off /\ used = Off
          /\ sseCalls = Off /\ sseSeen = Off /\ out = Off /\ then = Off /\ chan = Off
          /\ printed = Off /\ usage = Off /\ wire = Off /\ answer = Off
CallsOff == /\ at = Off /\ mine = Off /\ active = Off /\ peak = Off /\ last = Off
            /\ wake = Off /\ uncounted = Off /\ callsNow = Off /\ callsOutcome = Off
            /\ top = Off /\ passed = Off

PartInit ==
    /\ Init
    /\ \/ part = "budget"
       \/ part = "graph" /\ Graph!Init
       \/ part = "run" /\ Run!Init
       \/ part = "bytes" /\ Bytes!Init
       \/ part = "task" /\ Runner!Init
       \/ part = "each" /\ Each!Init
       \/ part = "history" /\ History!Init
       \/ part = "approval" /\ Approval!Init
       \/ part = "shell" /\ Shell!Init
       \/ part = "gated" /\ Gated!Init
       \/ part = "usage" /\ Usage!Init
       \/ part = "stream" /\ Chunks!Init
       \/ part = "chatting" /\ Chatting!Init
       \/ part = "messages" /\ Messages!Init
       \/ part = "forced" /\ Forced!Init
       \/ part = "responses" /\ Responses!Init
       \/ part = "provider" /\ Requests!Init
    /\ part # "budget" => budget.root = 1 /\ scope[2] # None
    /\ part # "graph" => GraphOff
    /\ part \notin {"run", "bytes"} => CrewOff
    /\ part # "task" => TaskOff
    /\ part # "each" => EachOff
    /\ part \notin {"history", "approval"} => AgentOff
    /\ part \notin {"shell", "gated"} => ShOff
    /\ part \notin {"usage", "stream"} => UsageOff
    /\ part \notin {"chatting", "messages", "forced", "responses"} => SseOff
    /\ part # "provider" => CallsOff

PartNext ==
    /\ \/ part = "budget" /\ Next
       \/ part = "graph" /\ Graph!Next
       \/ part = "run" /\ Run!Next
       \/ part = "bytes" /\ Bytes!Next
       \/ part = "task" /\ Runner!Next
       \/ part = "each" /\ Each!Next
       \/ part = "history" /\ History!Next
       \/ part = "approval" /\ Approval!Next
       \/ part = "shell" /\ Shell!Next
       \/ part = "gated" /\ Gated!Next
       \/ part = "usage" /\ Usage!Next
       \/ part = "stream" /\ Chunks!Next
       \/ part = "chatting" /\ Chatting!Next
       \/ part = "messages" /\ Messages!Next
       \/ part = "forced" /\ Forced!Next
       \/ part = "responses" /\ Responses!Next
       \/ part = "provider" /\ Requests!Next
    /\ UNCHANGED part
    /\ part # "budget" => UNCHANGED vars
    /\ part # "graph" => UNCHANGED graphVars
    /\ part \notin {"run", "bytes"} => UNCHANGED crewVars
    /\ part # "task" => UNCHANGED taskVars
    /\ part # "each" => UNCHANGED eachVars
    /\ part \notin {"history", "approval"} => UNCHANGED agentVars
    /\ part \notin {"shell", "gated"} => UNCHANGED shVars
    /\ part \notin {"usage", "stream"} => UNCHANGED usageVars
    /\ part \notin {"chatting", "messages", "forced", "responses"} => UNCHANGED sseVars
    /\ part # "provider" => UNCHANGED callsVars

PartSpec == PartInit /\ [][PartNext]_partVars
-----------------------------------------------------------------------------
\* A crew with a cycle is refused; otherwise each task is answered once, after its
\* dependencies, a failure gates exactly its dependents, permits bound the tasks at
\* work, and usage, bytes and memory agree with the results (orchestrator.rs).
CrewSound ==
    /\ [](part = "graph" =>
           /\ Graph!TypeOK /\ Graph!RejectsCycles /\ Graph!PhasesAreLevels)
    /\ [](part = "run" =>
           /\ Run!StartsAfterDeps /\ Run!VerdictsAgree /\ Run!EveryTaskAnswered
           /\ Run!ConcurrencyBound /\ Run!UsageExact /\ Run!MemoryIsCurrent)
    /\ [][part = "run" => Run!ResultsStand]_crewVars
    /\ [](part = "bytes" => Bytes!TypeOK /\ Bytes!BytesExact)

\* A task is billed the time it worked, up to a slice for each wait for a human, and no
\* message is lost between attempts; a foreach returns its outputs in order whatever
\* order its items end in, within its fan-out, and within its byte limit as counted,
\* which its layout on lines passes by a few bytes an item (task_runner.rs, foreach.rs).
TaskSound ==
    /\ [](part = "task" =>
           /\ Runner!TypeOK /\ Runner!TimeoutIsEarned /\ Runner!RetriesKeepMessages)
    /\ [](part = "each" =>
           /\ Each!TypeOK /\ Each!OutputsInOrder /\ Each!FanOutBound
           /\ Each!ResultNearLimit /\ Each!WhollyFailedExact /\ Each!FieldsBounded)

\* The provider sees whole tool exchanges, a gated tool runs with a grant for it, a
\* wait for a human has its allowance, and a turn that does not commit leaves the
\* history as it was (agent_turn.rs, executor.rs, approval.rs).
AgentTurnSound ==
    /\ [](part = "history" => History!ProviderSeesWholeTurns)
    /\ [][part = "history" => History!UncommittedLeavesNothing]_agentVars
    /\ [](part = "approval" =>
           /\ Approval!GatedRunsWithConsent /\ Approval!WaitHasAllowance)

\* An answer is whole as far as its lines were ended, and its text is what was printed; it
\* is taken only from a stream that said it ended, or of OpenAI's also from one that said
\* something; output keeps its limit, requests keep the limiter's interval, and every
\* call is counted and recorded once, also when it is dropped; a partial usage count
\* never passes for a complete or final one, and totals are sums of what the attempts
\* reported (llm/).
ProviderSound ==
    /\ [](part = "usage" =>
           /\ Usage!TypeOK /\ Usage!TotalsAreReadable /\ Usage!CompleteIsExact
           /\ Usage!TotalsAreSums)
    /\ [][part = "usage" => Usage!TotalsOnlyGrow]_usageVars
    /\ [](part = "stream" => Chunks!CompleteIsExact)
    /\ [][part = "stream" => Chunks!ReportedUsageSurvives]_usageVars
    /\ [](part = "chatting" =>
           /\ Chatting!TypeOK /\ Chatting!AnswerIsWhole /\ Chatting!PrintedIsAnswer
           /\ Chatting!OutputWithinLimit /\ Chatting!FinalIsEarned
           /\ Chatting!AnnouncedOnce)
    /\ [](part = "messages" =>
           /\ Messages!AnswerIsWhole /\ Messages!PrintedIsAnswer
           /\ Messages!OutputWithinLimit /\ Messages!FinalIsEarned)
    /\ [](part = "forced" =>
           /\ Forced!AnswerIsWhole /\ Forced!PrintedIsAnswer
           /\ Forced!OutputWithinLimit /\ Forced!FinalIsEarned)
    /\ [](part = "responses" =>
           /\ Responses!AnswerIsWhole /\ Responses!PrintedIsAnswer
           /\ Responses!OutputWithinLimit /\ Responses!FinalIsEarned)
    /\ [](part = "provider" =>
           /\ Requests!TypeOK /\ Requests!GaugeExact /\ Requests!RequestsSpaced
           /\ Requests!RecordedOnce)

\* A command that has been waited for leaves no process of its group, the deadline that
\* ended it is the one that is blamed, and it is reaped before the dispatcher cuts it off
\* unless it was approved too late for its own time (shell.rs, registry.rs).
CommandSound ==
    /\ [](part = "shell" => Shell!TypeOK /\ Shell!GroupEnds /\ Shell!DrainBlame)
    /\ [](part = "gated" => Gated!TypeOK /\ Gated!GroupEnds /\ Gated!DrainBlame)
    /\ [][/\ part = "shell" => Shell!ReapedBeforeCut
         /\ part = "gated" => Gated!ReapedBeforeCut]_shVars
=============================================================================
