------------------------------- MODULE MCLive -------------------------------
(***************************************************************************)
(*  Small instances of the components that must make progress.             *)
(*  A behaviour is of one component: part names the instance at work, and  *)
(*  the others stay in their first state.  Each property is checked under  *)
(*  the fairness of its own component.                                     *)
(***************************************************************************)
EXTENDS Integers, Sequences, FiniteSets, TLC

CONSTANTS None, Nobody, NoKey, NoMsg, NoAttempt, NoRecord, Unregistered, a1, a2, b1, i1, i2,
    key1, key2, m1, m2, p1, p2

OneRequest == a1 :> [key |-> key1, ident |-> p1, inst |-> i1]

Message(k) == [key |-> k, body |-> b1, inst |-> i1, recovers |-> NoKey]
OneReplica == m1 :> Message(key1) @@ m2 :> Message(key2)

OneKey == {[keys |-> {key1}, active |-> key1]}

\* A keyed run and a turn of a conversation.
Two == {a1, a2}
MixedKeys == a1 :> key1 @@ a2 :> key2
Mixed == a1 :> "run" @@ a2 :> "message"
NoAcks == [t \in Two |-> NoKey]
SamePrincipal == [t \in Two |-> p1]
SameBody == [t \in Two |-> "same"]
OneInstance == [t \in Two |-> i1]

\* Two phases that share a handler; a foreach beside a collaborative task with
\* a handler; an agent that does not exist.
Four == {"a", "b", "c", "h"}
Crew(deps, kind, onError, conditional, lost) ==
    [deps |-> deps, kind |-> kind, onError |-> onError,
     conditional |-> conditional, lost |-> lost]
Standard == [t \in Four |-> "standard"]
NoDeps == [t \in Four |-> <<>>]
NoHandler == [t \in Four |-> None]
Later == Crew([NoDeps EXCEPT !["c"] = <<"a">>],
              Standard, [NoHandler EXCEPT !["a"] = "h", !["c"] = "h"], {"b"}, {})
Kinds == Crew([NoDeps EXCEPT !["c"] = <<"a">>],
              [Standard EXCEPT !["a"] = "foreach", !["b"] = "collaborative"],
              [NoHandler EXCEPT !["b"] = "h"], {}, {})
Lost == Crew(NoDeps, [Standard EXCEPT !["a"] = "foreach"], NoHandler, {}, {"a"})

VARIABLES
    part,  \* which component the behaviour is of
    keyedNow, keyedPhase, keyedLedger, runs, keyedPc, keyedMem, acked, keyedRan, keyedFreed,
    deleted,
    chatNow, chatPhase, chatConv, chatLedger, chatCache, sess, chatPc, chatMem, minted,
    past, said, chatRan, recovered, chatFreed,
    ring, up, humanRun, lease, draining, expired, pending, chan, humanPc, got, sweep, row,
    rpc, dest, out,
    sqlLedger, sqlRun, sqlConv, sqlPc, sqlBase, committed, superseded,
    monBus, monQueue, monWriter, monMonitor, monRun, monJournal, monStamp, monHorizon,
    monStored, monClient, monFaults, monOthers, monDrops,
    eventsBus, eventsQueue, eventsWriter, eventsMonitor, eventsRun, eventsJournal,
    eventsStamp, eventsHorizon, eventsStored, eventsClient, eventsFaults, eventsOthers,
    eventsDrops,
    sent, last, history, bytes, busOpen, permits, stream,
    crewCrew, crewPc, crewPhase, todo, holding, cur, curUsage, results, total, failed,
    persisted, memory, spent, crewRan, crewEvents, handled,
    st, attempt, remaining, elapsed, inbox, context, taskSeen, taskOutcome, asked, worked,
    waits,
    hist, turnBase, turnBefore, turnPc, turns, rounds, turnCalls, dl, verdict, granted, consent,
    dialogOpen, next, transcript, stopped, announced, revision, running, frames, job,
    dialogStored, completions, dialogSeen, told, cut,
    parallel, count, eachPc, started, finished, outputs, encoded, failures, fields,
    returned, poisoned, service, closer, pgid, killer, aborted, mcpChild, group, op, mcpPc, req,
    attempts, pages, refreshed, mcpQueue, wire, mcpCalls, listed, active, server,
    shellPc, shellNow, timer, limit, shellChild, kin, away, armed, reader, kept, truncated,
    shellOutcome, escaped, late,
    readyPhase, loop, degraded, gauge, errors, healthy, cycle, lastCycle, probe, readyCache,
    holder

keyedVars == <<keyedNow, keyedPhase, keyedLedger, runs, keyedPc, keyedMem, acked, keyedRan,
    keyedFreed, deleted>>
chatVars == <<chatNow, chatPhase, chatConv, chatLedger, chatCache, sess, chatPc, chatMem,
    minted, past, said, chatRan, recovered, chatFreed>>
humanVars == <<ring, up, humanRun, lease, draining, expired, pending, chan, humanPc, got,
    sweep, row, rpc, dest, out>>
sqlVars == <<sqlLedger, sqlRun, sqlConv, sqlPc, sqlBase, committed, superseded>>
monVars == <<monBus, monQueue, monWriter, monMonitor, monRun, monJournal, monStamp,
    monHorizon, monStored, monClient, monFaults, monOthers, monDrops>>
eventsVars == <<eventsBus, eventsQueue, eventsWriter, eventsMonitor, eventsRun,
    eventsJournal, eventsStamp, eventsHorizon, eventsStored, eventsClient, eventsFaults,
    eventsOthers, eventsDrops>>
busVars == <<sent, last, history, bytes, busOpen, permits, stream>>
crewVars == <<crewCrew, crewPc, crewPhase, todo, holding, cur, curUsage, results, total,
    failed, persisted, memory, spent, crewRan, crewEvents, handled>>
taskVars == <<st, attempt, remaining, elapsed, inbox, context, taskSeen, taskOutcome, asked,
    worked, waits>>
turnVars == <<hist, turnBase, turnBefore, turnPc, turns, rounds, turnCalls, dl, verdict,
    granted, consent>>
dialogVars == <<dialogOpen, next, transcript, stopped, announced, revision, running, frames,
    job, dialogStored, completions, dialogSeen, told, cut>>
eachVars == <<parallel, count, eachPc, started, finished, outputs, encoded, failures, fields,
    returned>>
mcpVars == <<poisoned, service, closer, pgid, killer, aborted, mcpChild, group, op, mcpPc,
    req, attempts, pages, refreshed, mcpQueue, wire, mcpCalls, listed, active, server>>
shellVars == <<shellPc, shellNow, timer, limit, shellChild, kin, away, armed, reader, kept,
    truncated, shellOutcome, escaped, late>>
readyVars == <<readyPhase, loop, degraded, gauge, errors, healthy, cycle, lastCycle, probe,
    readyCache, holder>>
vars == <<part, keyedVars, chatVars, humanVars, sqlVars, monVars, eventsVars, busVars,
    crewVars, taskVars, turnVars, dialogVars, eachVars, mcpVars, shellVars, readyVars>>

\* A run that is cancelled and whose owner may crash.
Runs == INSTANCE KeyedRun
    WITH Instance <- {i1, i2}, Key <- {key1}, Ident <- {p1, p2}, Attempt <- {a1},
         Req <- OneRequest, LeaseTTL <- 2, Retention <- 2, Horizon <- 1, MaxTime <- 4,
         Crashable <- {i1}, Drainable <- {}, Controlled <- {a1}, now <- keyedNow,
         phase <- keyedPhase, ledger <- keyedLedger, pc <- keyedPc, mem <- keyedMem,
         ran <- keyedRan, freed <- keyedFreed

\* Two messages to one replica, which may be torn down.
Talk == INSTANCE ConversationTurn
    WITH Instance <- {i1, i2}, Key <- {key1, key2}, Body <- {b1}, Msg <- {m1, m2},
         Req <- OneReplica, LeaseTTL <- 1, Retention <- 3, Horizon <- 1, MaxTime <- 2,
         MaxInc <- 1, Opens <- {i1}, Deletes <- {}, Crashable <- {}, Stoppable <- {i1},
         now <- chatNow, phase <- chatPhase, conv <- chatConv, ledger <- chatLedger,
         cache <- chatCache, pc <- chatPc, mem <- chatMem, ran <- chatRan,
         freed <- chatFreed

\* A question and an answer.
Human == INSTANCE HumanInput
    WITH Fingerprint <- {key1}, MaxKeys <- 2, Replica <- {i1, i2}, Owner <- i1, Ask <- {a1},
         Req <- {m1}, MaxPending <- 1, Keyed <- TRUE, OwnerRings <- OneKey,
         PeerRings <- OneKey, run <- humanRun, pc <- humanPc

\* A keyed run and a turn in SQLite, under timely maintenance.
Sqlite == INSTANCE SqliteStore
    WITH Attempt <- Two, Key <- {key1, key2}, KeyOf <- MixedKeys, OpOf <- Mixed,
         Acks <- NoAcks, Retention <- 1, PruneBatch <- 1, PrincipalOf <- SamePrincipal,
         BodyOf <- SameBody, InstOf <- OneInstance, TTL <- 2, MaxRecords <- 2,
         MaxPerPrincipal <- 2, MaxInFlight <- 2, MaxBodies <- 2, MaxBodiesPer <- 2,
         MaxRevision <- 1, ledger <- sqlLedger, run <- sqlRun, conv <- sqlConv, pc <- sqlPc,
         base <- sqlBase

\* The writer and the monitor of a run whose store fails.
Monitors == INSTANCE RunEvents
    WITH Clients <- {}, MaxPerRun <- 2, MaxTotal <- 3, PruneBatch <- 1, MaxEvict <- 2,
         PageMax <- 1, QueueMax <- 1, ByteSlots <- 1, BatchMax <- 1, BatchBytes <- 1,
         MaxAttempts <- 1, MaxReadFails <- 1, MaxEmits <- 1, MaxOthers <- 0, MaxFaults <- 1,
         MaxDrops <- 0, bus <- monBus, queue <- monQueue, writer <- monWriter,
         monitor <- monMonitor, run <- monRun, journal <- monJournal, stamp <- monStamp,
         horizon <- monHorizon, stored <- monStored, client <- monClient,
         faults <- monFaults, others <- monOthers, drops <- monDrops

\* A client of a run whose owner may die.
Events == INSTANCE RunEvents
    WITH Clients <- {b1}, MaxPerRun <- 2, MaxTotal <- 3, PruneBatch <- 1, MaxEvict <- 2,
         PageMax <- 1, QueueMax <- 1, ByteSlots <- 1, BatchMax <- 1, BatchBytes <- 1,
         MaxAttempts <- 1, MaxReadFails <- 1, MaxEmits <- 1, MaxOthers <- 0, MaxFaults <- 0,
         MaxDrops <- 0, bus <- eventsBus, queue <- eventsQueue, writer <- eventsWriter,
         monitor <- eventsMonitor, run <- eventsRun, journal <- eventsJournal,
         stamp <- eventsStamp, horizon <- eventsHorizon, stored <- eventsStored,
         client <- eventsClient, faults <- eventsFaults, others <- eventsOthers,
         drops <- eventsDrops

Streams == INSTANCE EventBus
    WITH RunStreams <- {a1}, ConversationStreams <- {a2}, MaxReplay <- 2,
         MaxReplayBytes <- 3, Ring <- 1, Sizes <- {1}, MaxEventBytes <- 3, MaxSse <- 2,
         MaxEmits <- 3, open <- busOpen

Crews == INSTANCE Orchestrator
    WITH Tasks <- Four, Crews <- {Later, Kinds, Lost}, MaxConcurrent <- 2, MaxAttempts <- 1,
         Sizes <- {1}, MaxTotalBytes <- 5, crew <- crewCrew, pc <- crewPc,
         phase <- crewPhase, ran <- crewRan, events <- crewEvents

Runner == INSTANCE TaskRunner
    WITH Tasks <- {"a", "b"}, Agents <- {"x"}, AgentOf <- [t \in {"a", "b"} |-> "x"],
         Messages <- {"m"}, Budget <- 2, SliceLen <- 1, MaxRetries <- 1, Base <- 1,
         Cap <- 2, MaxQuestions <- 1, seen <- taskSeen, outcome <- taskOutcome

Turns == INSTANCE AgentTurn
    WITH Chat <- {a1}, Task <- {}, Tool <- {b1}, Gated <- {b1}, CallId <- {m1},
         MaxTurns <- 2, MaxCalls <- 1, MaxRounds <- 1, MaxMessages <- 6, MaxBytes <- 8,
         base <- turnBase, before <- turnBefore, pc <- turnPc, calls <- turnCalls

Dialogs == INSTANCE Dialog
    WITH Handles <- {a1}, Agents <- 2, MaxTurns <- 3, MaxHistory <- 2, Bytes <- 5,
         Base <- 1, Sizes <- {2}, MaxToolRounds <- 1, Selector <- TRUE, ShouldStop <- TRUE,
         AutosaveKey <- "false", MaxDepth <- 1, Deletes <- FALSE, MaxRevision <- 2,
         open <- dialogOpen, stored <- dialogStored, seen <- dialogSeen

Each == INSTANCE Foreach
    WITH MaxLen <- 4, MaxItems <- 3, MaxConcurrent <- 2, Lengths <- {2, 4},
         MaxOutputBytes <- 13, Fields <- {<<1>>}, MaxFieldChars <- 4, Marker <- 3,
         pc <- eachPc

\* A call to an MCP server.
Mcp == INSTANCE McpClient
    WITH Callers <- {a1}, Discovery <- b1, MaxRounds <- 2, MaxPages <- 2, child <- mcpChild,
         pc <- mcpPc, queue <- mcpQueue, calls <- mcpCalls

Shell == INSTANCE ShellTool
    WITH Procs <- {a1, a2}, Timeout <- 3, Grace <- 1, Drain <- 2, Gate <- 2, Margin <- 1,
         MaxOutput <- 2, pc <- shellPc, now <- shellNow, child <- shellChild,
         outcome <- shellOutcome

\* Finalizers that keep their claims, in a process that does not drain.
Ready == INSTANCE Readiness
    WITH Finalizers <- {m1, m2}, Probes <- {b1}, Loops <- {"commit", "run"},
         LeaseLoss <- FALSE, Drains <- FALSE, MaxErrors <- 3, phase <- readyPhase,
         cache <- readyCache


Init ==
    /\ part \in {"keyed", "chat", "human", "sqlite", "monitor", "events", "streams", "crew",
                 "task", "turn", "dialog", "each", "mcp", "shell", "ready"}
    /\ Runs!Init /\ Talk!Init /\ Human!Init /\ Sqlite!Init /\ Monitors!Init
    /\ Events!Init /\ Streams!Init /\ Crews!Init /\ Runner!Init /\ Turns!Init
    /\ Dialogs!Init /\ Each!Init /\ Mcp!Init /\ Shell!Init /\ Ready!Init
    /\ part # "crew" => crewCrew = Lost
    /\ part # "task" => inbox = [g \in {"x"} |-> {}]
    /\ part # "each" => count = 0 /\ parallel
    /\ part # "mcp" => mcpChild = "none"
    /\ part # "ready" => healthy

Next ==
    /\ \/ part = "keyed" /\ Runs!Next
       \/ part = "chat" /\ Talk!Next
       \/ part = "human" /\ Human!Next
       \/ part = "sqlite" /\ Sqlite!Timely
       \/ part = "monitor" /\ Monitors!Next
       \/ part = "events" /\ Events!Next
       \/ part = "streams" /\ Streams!Next
       \/ part = "crew" /\ Crews!Next
       \/ part = "task" /\ Runner!Next
       \/ part = "turn" /\ Turns!Next
       \/ part = "dialog" /\ Dialogs!Next
       \/ part = "each" /\ Each!Next
       \/ part = "mcp" /\ Mcp!Next
       \/ part = "shell" /\ Shell!Next
       \/ part = "ready" /\ Ready!Next
    /\ UNCHANGED part
    /\ part # "keyed" => UNCHANGED keyedVars
    /\ part # "chat" => UNCHANGED chatVars
    /\ part # "human" => UNCHANGED humanVars
    /\ part # "sqlite" => UNCHANGED sqlVars
    /\ part # "monitor" => UNCHANGED monVars
    /\ part # "events" => UNCHANGED eventsVars
    /\ part # "streams" => UNCHANGED busVars
    /\ part # "crew" => UNCHANGED crewVars
    /\ part # "task" => UNCHANGED taskVars
    /\ part # "turn" => UNCHANGED turnVars
    /\ part # "dialog" => UNCHANGED dialogVars
    /\ part # "each" => UNCHANGED eachVars
    /\ part # "mcp" => UNCHANGED mcpVars
    /\ part # "shell" => UNCHANGED shellVars
    /\ part # "ready" => UNCHANGED readyVars

Spec == Init /\ [][Next]_vars
-----------------------------------------------------------------------------
\* The maintenance loop of a live replica and the monitor of a live attempt keep
\* taking steps, and time passes.
RunsFairness ==
    /\ WF_keyedVars(part = "keyed" /\ Runs!Tick)
    /\ WF_keyedVars(part = "keyed" /\ Runs!Reconcile)
    /\ WF_keyedVars(part = "keyed" /\ Runs!Prune)
    /\ WF_keyedVars(part = "keyed" /\ Runs!MonitorStep(a1))

\* The clock and the maintenance loop go on, and so does a live process.
TalkFairness ==
    /\ WF_chatVars(part = "chat" /\ Talk!Tick)
    /\ WF_chatVars(part = "chat" /\ Talk!Reconcile)
    /\ \A m \in {m1, m2} :
         /\ WF_chatVars(part = "chat" /\ Talk!Advance(m))
         /\ WF_chatVars(part = "chat" /\ Talk!LeaseExpires(m))

\* The tasks of a live process run, database time passes, and the maintenance
\* loop of some replica keeps sweeping.
HumanFairness ==
    /\ WF_humanVars(part = "human" /\ Human!RegisterHumanInput(a1))
    /\ WF_humanVars(part = "human" /\ Human!ChooseTransport(a1))
    /\ WF_humanVars(part = "human" /\ Human!Receive(a1))
    /\ WF_humanVars(part = "human" /\ Human!FindEmpty(a1))
    /\ WF_humanVars(part = "human" /\ Human!CloseHumanInput(a1))
    /\ SF_humanVars(part = "human" /\ Human!Deadline(a1) /\ humanPc'[a1] = "closing")
    /\ WF_humanVars(part = "human" /\ Human!RowExpires(a1))
    /\ WF_humanVars(part = "human" /\ Human!DeleteExpired)
    /\ WF_humanVars(part = "human" /\ Human!ExpireAll)
    /\ WF_humanVars(part = "human" /\ Human!CompleteRun)
    /\ WF_humanVars(part = "human" /\ Human!LeaseExpires /\ ~up)
    /\ WF_humanVars(part = "human" /\ Human!Reconcile)

\* The maintenance loop of a live process goes round, and time passes.
SqliteFairness ==
    /\ WF_sqlVars(part = "sqlite" /\ Sqlite!Reconcile)
    /\ WF_sqlVars(part = "sqlite" /\ Sqlite!TimelyTick)
    /\ WF_sqlVars(part = "sqlite" /\ Sqlite!HeartbeatOwned(i1))

\* Tasks that are spawned are polled, deadlines fire, the reconciler runs, and a client
\* that wants the stream reconnects.  A dead owner's lease runs out.  Nothing is
\* assumed about faults, crashes, other runs or the lease of a live owner.
MonitorsFairness ==
    /\ WF_monVars(part = "monitor" /\ Monitors!TakeCommand)
    /\ WF_monVars(part = "monitor" /\ Monitors!Write)
    /\ WF_monVars(part = "monitor" /\ Monitors!MonitorStep)
    /\ WF_monVars(part = "monitor" /\ Monitors!RunIntent)
    /\ WF_monVars(part = "monitor" /\ Monitors!Abandon)
    /\ WF_monVars(part = "monitor" /\ monMonitor.pc \in {"dead", "end"} /\ Monitors!LeaseExpires)

\* Tasks that are spawned are polled, deadlines fire, the reconciler runs, and a client
\* that wants the stream reconnects.  A dead owner's lease runs out.  Nothing is
\* assumed about faults, crashes, other runs or the lease of a live owner.
EventsFairness ==
    /\ WF_eventsVars(part = "events" /\ Events!TakeCommand)
    /\ WF_eventsVars(part = "events" /\ Events!Write)
    /\ WF_eventsVars(part = "events" /\ Events!MonitorStep)
    /\ WF_eventsVars(part = "events" /\ Events!RunIntent)
    /\ WF_eventsVars(part = "events" /\ Events!Abandon)
    /\ WF_eventsVars(part = "events" /\ (Events!Connect(b1) \/ Events!ReadPage(b1) \/ Events!Yield(b1) \/ Events!AfterPage(b1)))
    /\ WF_eventsVars(part = "events" /\ eventsMonitor.pc \in {"dead", "end"} /\ Events!LeaseExpires)

\* Response bodies are polled, and the handles to a bus are dropped in the end.
StreamsFairness ==
    /\ WF_busVars(part = "streams" /\ Streams!DropBus)
    /\ \A s \in Two : WF_busVars(part = "streams" /\ Streams!StreamStep(s))

\* The run is polled, a permit goes to the next future in the queue, and an
\* attempt ends by its answer, its error or its timeout.
CrewsFairness ==
    /\ WF_crewVars(part = "crew" /\ Crews!Validate)
    /\ WF_crewVars(part = "crew" /\ Crews!FilterPhase)
    /\ WF_crewVars(part = "crew" /\ Crews!LaunchStandard)
    /\ WF_crewVars(part = "crew" /\ Crews!HandlerReturns)
    /\ WF_crewVars(part = "crew" /\ Crews!PersistPhase)
    /\ WF_crewVars(part = "crew" /\ Crews!Finish)
    /\ \A t \in Four :
         /\ WF_crewVars(part = "crew" /\ Crews!RunForeach(t))
         /\ WF_crewVars(part = "crew" /\ Crews!LostForeach(t))
         /\ WF_crewVars(part = "crew" /\ Crews!RunCollaborative(t))
         /\ WF_crewVars(part = "crew" /\ Crews!Acquire(t))
         /\ WF_crewVars(part = "crew" /\ Crews!EndStandard(t))

\* Futures are polled, timers fire, and a question ends by an answer or by
\* its own expiry; an attempt may go on for as long as its budget lasts.
RunnerFairness ==
    /\ WF_taskVars(part = "task" /\ Runner!Tick)
    /\ \A t \in {"a", "b"} :
         /\ WF_taskVars(part = "task" /\ Runner!Receive(t))
         /\ WF_taskVars(part = "task" /\ Runner!Answered(t))
         /\ WF_taskVars(part = "task" /\ Runner!Slice(t))
         /\ WF_taskVars(part = "task" /\ Runner!Retry(t))

\* Provider calls, questions and tools end, if only by their timeouts.
TurnsFairness ==
    /\ WF_turnVars(part = "turn" /\ Turns!Step(a1))

\* The executor polls a live call, and dialog:run asks for the next turn by
\* itself; providers and callbacks answer.  Nothing makes a script call.
DialogsFairness ==
    /\ WF_dialogVars(part = "dialog" /\ Dialogs!Step(a1))
    /\ WF_dialogVars(part = "dialog" /\ running[a1] /\ Dialogs!RunOneTurn(a1))

\* The stream is polled and every provider call ends.
EachFairness ==
    /\ WF_eachVars(part = "each" /\ Each!Source)
    /\ WF_eachVars(part = "each" /\ Each!StartItem)
    /\ WF_eachVars(part = "each" /\ Each!Combine)
    /\ \A i \in 1 .. 4 :
         /\ WF_eachVars(part = "each" /\ Each!EndItem(i))
         /\ WF_eachVars(part = "each" /\ Each!Consume(i))

\* The runtime polls what is ready: every task past its waits, the loop, a
\* thread between two instructions, the supervisor.  The server, the peers
\* and the manager owe nothing.
McpFairness ==
    /\ \A t \in {a1, b1} : WF_mcpVars(part = "mcp" /\ Mcp!TaskStep(t))
    /\ WF_mcpVars(part = "mcp" /\ Mcp!KillGroup)
    /\ WF_mcpVars(part = "mcp" /\ Mcp!SupervisorReaps)
    /\ WF_mcpVars(part = "mcp" /\ Mcp!ServiceStops)

\* The runtime polls execute and the dispatcher, time passes; the command and
\* the human owe nothing.
ShellFairness ==
    /\ WF_shellVars(part = "shell" /\ Shell!Execute)
    /\ WF_shellVars(part = "shell" /\ Shell!DispatcherCuts)
    /\ WF_shellVars(part = "shell" /\ Shell!Eof)
    /\ WF_shellVars(part = "shell" /\ Shell!Tick)
    /\ WF_shellVars(part = "shell" /\ Shell!Denied)

\* Retry loops run until they settle, and the maintenance loop ticks; the tokio
\* runtime polls every ready task.
ReadyFairness ==
    /\ WF_readyVars(part = "ready" /\ Ready!Maintain)
    /\ \A f \in {m1, m2} : WF_readyVars(part = "ready" /\ Ready!Finalize(f))

\* What a dead or stuck owner leaves in the store is cleared away: its keyed runs and
\* claims are settled, its questions leave the mailbox.
RowsSettle ==
    /\ part = "keyed" => (RunsFairness => Runs!RunsSettle)
    /\ part = "chat" => (TalkFairness => Talk!ClaimsSettle)
    /\ part = "human" => (HumanFairness => Human!MailboxDrains)
    /\ part = "sqlite" => (SqliteFairness => (Sqlite!KeyedOrphanEnds /\ Sqlite!DeadClaimSettles))

\* Work comes to its end, whatever fails on the way: the gate of a conversation comes
\* back, questions, monitors, streams, crews, tasks, turns, dialogs, calls and commands
\* end, and a process that was unready for a reason is ready when it is gone.
WorkEnds ==
    /\ part = "chat" => (TalkFairness => Talk!GateIsReturned)
    /\ part = "human" => (HumanFairness => Human!AskReturns)
    /\ part = "monitor" => (MonitorsFairness => Monitors!MonitorEnds)
    /\ part = "events" => (EventsFairness => Events!ClientsClose)
    /\ part = "streams" => (StreamsFairness => Streams!StreamsEnd)
    /\ part = "crew" => (CrewsFairness => Crews!CrewEnds)
    /\ part = "task" => (RunnerFairness => Runner!TasksEnd)
    /\ part = "turn" => (TurnsFairness => Turns!TurnEnds)
    /\ part = "dialog" => (DialogsFairness => Dialogs!DialogEnds)
    /\ part = "each" => (EachFairness => Each!ForeachEnds)
    /\ part = "mcp" => (McpFairness => (Mcp!PoisonReaps /\ Mcp!CallsEnd))
    /\ part = "shell" => (ShellFairness => Shell!CommandEnds)
    /\ part = "ready" => (ReadyFairness => Ready!ReadinessRecovers)
    /\ [](part = "ready" => Ready!GaugeReturns)
=============================================================================
