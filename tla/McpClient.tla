----------------------------- MODULE McpClient -----------------------------
(***************************************************************************)
(* One MCP connection (src/mcp): the discovery that lists its tools, the   *)
(* tool calls that share it one at a time, the one-way poison that ends it *)
(* and, for a stdio server, the process group and its supervisor.          *)
(*                                                                         *)
(* Callers are tasks holding a bridge tool; Discovery is the manager's     *)
(* list_all_tools, which runs before any bridge tool exists.  Deadlines    *)
(* are steps that may come at any time while a caller waits.  The rmcp     *)
(* service loop is external: it hands queued requests to the transport,    *)
(* routes answers, and closes the transport when it stops.                 *)
(***************************************************************************)
EXTENDS Naturals, FiniteSets

CONSTANTS Callers, Discovery, None,
          MaxRounds,  \* IRONCREW_MCP_MAX_MRTR_ROUNDS
          MaxPages    \* IRONCREW_MCP_MAX_LIST_PAGES

ASSUME McpAssumption ==
    /\ Discovery \notin Callers
    /\ None \notin Callers \cup {Discovery, "loop"}
    /\ MaxRounds \in Nat \ {0} /\ MaxPages \in Nat \ {0}

Tasks == Callers \cup {Discovery}
Loop == "loop"            \* the service loop and the transport it drives

VARIABLES
    poisoned,  \* PoisonSignal
    service,   \* the service loop: "up", "cancelled" or "down"
    closer,    \* the shutdown closure: "held" or "taken"
    pgid,      \* StdioAbortHandle.pgid is not yet swapped to 0
    killer,    \* the thread between that swap and its killpg
    aborted,   \* the abort watch
    child,     \* the direct child: "none", "up", "dead" or "reaped"
    group,     \* another process of the child's group is alive
    op,        \* the holder of the operation mutex
    pc, req,   \* of each task: where it is; the request it is at
    attempts,  \* tool-call rounds it has started
    pages,     \* pages of its current listing
    refreshed, \* it is past a header mismatch
    queue,     \* requests handed to the loop, not yet written
    wire,      \* requests the server is executing
    calls,     \* tool calls written for a task
    listed,    \* discovery succeeded: bridge tools exist
    active,    \* HttpToolHeaderRegistry: the committed definition
    server     \* the definition the HTTP server now advertises (external)

proc == <<pgid, killer, aborted, child, group>>
conn == <<poisoned, service, closer>>
task == <<pc, req, attempts, pages, refreshed>>
net == <<queue, wire, calls>>
defs == <<listed, active, server>>
vars == <<conn, proc, op, task, net, defs>>

\* A tool's definition: what the header plan promotes, and everything else.
\* sem = 2: the tool is no longer listed.
Definition == [hdr : 0..1, sem : 0..2]
NoDef == [hdr |-> 0, sem |-> 3]

\* The transport is streamable HTTP, with no process, or a stdio child.
Http == child = "none"

Init ==
    /\ poisoned = FALSE /\ service = "up" /\ closer = "held"
    /\ child \in {"none", "up"}
    /\ pgid = ~Http /\ killer = None /\ aborted = FALSE
    /\ group = ~Http
    /\ op = None
    /\ pc = [t \in Tasks |-> "idle"]
    /\ req = [t \in Tasks |-> "page"]
    /\ attempts = [t \in Tasks |-> 0]
    /\ pages = [t \in Tasks |-> 0]
    /\ refreshed = [t \in Tasks |-> FALSE]
    /\ queue = {} /\ wire = {}
    /\ calls = [t \in Tasks |-> 0]
    /\ listed = FALSE /\ active = NoDef
    /\ server = [hdr |-> 0, sem |-> 0]

----------------------------------------------------------------------------
(* Poison and the process group.                                           *)

\* StdioAbortHandle::abort, first half: only the first caller gets the group
\* id; a later one goes straight to the watch.
Abort(t) ==
    IF pgid
      THEN pgid' = FALSE /\ killer' = t /\ UNCHANGED <<aborted, child, group>>
      ELSE aborted' = ~Http /\ UNCHANGED <<pgid, killer, child, group>>

\* ... second half: SIGKILL to the group, then the watch.
KillGroup ==
    /\ killer # None
    /\ killer' = None
    /\ aborted' = TRUE
    /\ group' = FALSE
    /\ child' = IF child = "up" THEN "dead" ELSE child
    /\ wire' = {}
    /\ UNCHANGED <<pgid, conn, op, task, queue, calls, defs>>

\* ConnectionPoison::poison: the signal, the process group, the service token.
Poison(t) ==
    /\ poisoned' = TRUE
    /\ Abort(t)
    /\ service' = IF service = "up" THEN "cancelled" ELSE service
    /\ UNCHANGED closer

Stay == UNCHANGED <<conn, proc>>

\* The child ends by itself; whatever it was executing ends with it.
ChildExits ==
    /\ child = "up"
    /\ child' = "dead"
    /\ wire' = {}
    /\ UNCHANGED <<pgid, killer, aborted, group, conn, op, task, queue, calls, defs>>

\* The supervisor task: wait for the child (killing it first when aborted),
\* then abort the group and confirm the reaping.
SupervisorReapsNoAbort ==
    /\ child = "dead" \/ (child = "up" /\ aborted)
    /\ child' = "reaped"
    /\ wire' = {}
    /\ UNCHANGED <<pgid, killer, group, aborted, conn, op, task, queue, calls, defs>>
SupervisorReaps ==
    /\ child = "dead" \/ (child = "up" /\ aborted)
    /\ child' = "reaped"
    /\ wire' = {}
    /\ group' = (group /\ ~pgid)
    /\ pgid' = FALSE /\ aborted' = TRUE
    /\ UNCHANGED <<killer, conn, op, task, queue, calls, defs>>

----------------------------------------------------------------------------
(* The service loop and the transports.                                    *)

\* The loop stops and closes the transport, which aborts the group.
LoopEnds ==
    /\ service' = "down"
    /\ queue' = {}
    /\ Abort(Loop)
    /\ UNCHANGED <<poisoned, closer, op, task, wire, calls, defs>>

\* Its token was cancelled, or the child's death ended its stdout.
ServiceStops ==
    /\ service = "cancelled" \/ (service = "up" /\ child \in {"dead", "reaped"})
    /\ LoopEnds

\* A living child closes its stdout.
StdoutCloses == service = "up" /\ child = "up" /\ LoopEnds

\* A refused or failed write answers the request's caller, if it still waits.
Refused(t) == pc' = [pc EXCEPT ![t] = IF @ = "awaiting" THEN "failed" ELSE @]

\* Transport::send / post_message: a poisoned connection sends nothing.
Write(t) ==
    /\ service = "up" /\ t \in queue
    /\ poisoned \/ child \notin {"dead", "reaped"}
    /\ queue' = queue \ {t}
    /\ IF poisoned
         THEN Refused(t) /\ UNCHANGED <<wire, calls>>
         ELSE /\ wire' = wire \cup {t}
              /\ calls' = [calls EXCEPT ![t] = IF req[t] = "call" THEN @ + 1 ELSE @]
              /\ UNCHANGED pc
    /\ UNCHANGED <<conn, proc, op, req, attempts, pages, refreshed, defs>>

\* A write error, or a failed POST: the transport raises the flag and no more.
WriteFails(t) ==
    /\ service = "up" /\ t \in queue /\ ~poisoned
    /\ queue' = queue \ {t}
    /\ poisoned' = TRUE
    /\ Refused(t)
    /\ UNCHANGED <<service, closer, proc, op, req, attempts, pages, refreshed,
                   wire, calls, defs>>

\* receive: an oversized, invalid or disallowed frame raises the flag and
\* aborts the child; the loop then sees the end of the stream.
BadFrame ==
    /\ service = "up" /\ child = "up" /\ wire # {}
    /\ poisoned' = TRUE
    /\ Abort(Loop)
    /\ service' = "cancelled"
    /\ UNCHANGED <<closer, op, task, net, defs>>

\* The HTTP exchange breaks off or answers with a status, type, size or event
\* outside the strict surface: the flag, and an error to the caller.
ExchangeFails(t) ==
    /\ Http /\ service = "up" /\ t \in wire
    /\ poisoned' = TRUE
    /\ Refused(t)
    /\ UNCHANGED <<service, closer, proc, op, req, attempts, pages, refreshed, net, defs>>

\* The server ends the work of a caller that is no longer there to hear it.
LateAnswer(t) ==
    /\ t \in wire /\ pc[t] # "awaiting"
    /\ wire' = wire \ {t}
    /\ UNCHANGED <<conn, proc, op, task, queue, calls, defs>>

\* The HTTP server redeploys with other annotations or another definition.
ServerChanges ==
    /\ Http /\ listed
    /\ \E d \in Definition :
         /\ d.hdr >= server.hdr /\ d.sem >= server.sem /\ d # server
         /\ server' = d
    /\ UNCHANGED <<conn, proc, op, task, net, listed, active>>

----------------------------------------------------------------------------
(* Discovery and tool calls.                                               *)

\* list_all_tools and call_tool start by waiting for the operation mutex.
Begin(t) ==
    /\ pc[t] = "idle"
    /\ t = Discovery \/ listed
    /\ pc' = [pc EXCEPT ![t] = "wait"]
    /\ req' = [req EXCEPT ![t] = IF t = Discovery THEN "page" ELSE "call"]
    /\ Stay /\ UNCHANGED <<op, attempts, pages, refreshed, net, defs>>

\* The mutex is taken and the InFlightGuard armed.
Acquire(t) ==
    /\ pc[t] = "wait" /\ op = None
    /\ op' = t
    /\ pc' = [pc EXCEPT ![t] = "ready"]
    /\ Stay /\ UNCHANGED <<req, attempts, pages, refreshed, net, defs>>

\* The deadline passes, or the caller is dropped, while it waits for the mutex:
\* nothing was sent and the guard does not exist yet.
LockTimeout(t) ==
    /\ pc[t] = "wait"
    /\ pc' = [pc EXCEPT ![t] = "done"]
    /\ Stay /\ UNCHANGED <<op, req, attempts, pages, refreshed, net, defs>>

\* One round: the page and round limits, then send_request hands the request
\* to the loop.  A loop that is gone refuses it.
Exhausted(t) == IF req[t] = "page" THEN pages[t] >= MaxPages
                                   ELSE attempts[t] >= MaxRounds
Send(t) ==
    /\ pc[t] = "ready"
    /\ IF Exhausted(t)
         THEN /\ Poison(t)
              /\ pc' = [pc EXCEPT ![t] = "finish"]
              /\ UNCHANGED <<attempts, pages, queue>>
         ELSE /\ IF req[t] = "page"
                   THEN /\ pages' = [pages EXCEPT ![t] = @ + 1] /\ UNCHANGED attempts
                   ELSE /\ attempts' = [attempts EXCEPT ![t] = @ + 1] /\ UNCHANGED pages
              /\ IF service = "up"
                   THEN /\ queue' = queue \cup {t}
                        /\ pc' = [pc EXCEPT ![t] = "awaiting"]
                   ELSE /\ pc' = [pc EXCEPT ![t] = "failed"]
                        /\ UNCHANGED queue
              /\ Stay
    /\ UNCHANGED <<op, req, refreshed, wire, calls, defs>>

\* The loop ended under a request.
Closed(t) ==
    /\ pc[t] = "awaiting" /\ service = "down"
    /\ pc' = [pc EXCEPT ![t] = "failed"]
    /\ Stay /\ UNCHANGED <<op, req, attempts, pages, refreshed, net, defs>>

\* An error that is not a violation: fatal only past a header mismatch.
Fail(t) ==
    /\ pc[t] = "failed"
    /\ IF refreshed[t] THEN Poison(t) ELSE Stay
    /\ pc' = [pc EXCEPT ![t] = "finish"]
    /\ UNCHANGED <<op, req, attempts, pages, refreshed, net, defs>>

\* The server accepts a call routed with its current headers.
Routed == Http => active.hdr = server.hdr

Answered(t) == pc[t] = "awaiting" /\ t \in wire /\ wire' = wire \ {t}

\* A complete result.
Complete(t) ==
    /\ Answered(t) /\ req[t] = "call" /\ Routed
    /\ pc' = [pc EXCEPT ![t] = "finish"]
    /\ Stay /\ UNCHANGED <<op, req, attempts, pages, refreshed, queue, calls, defs>>

\* input_required with a usable requestState: back off and call again, unless
\* this was the last round.
InputRequired(t) ==
    /\ Answered(t) /\ req[t] = "call" /\ Routed
    /\ IF attempts[t] = MaxRounds
         THEN Poison(t) /\ pc' = [pc EXCEPT ![t] = "finish"]
         ELSE Stay /\ pc' = [pc EXCEPT ![t] = "backoff"]
    /\ UNCHANGED <<op, req, attempts, pages, refreshed, queue, calls, defs>>

Slept(t) ==
    /\ pc[t] = "backoff"
    /\ pc' = [pc EXCEPT ![t] = "ready"]
    /\ Stay /\ UNCHANGED <<op, req, attempts, pages, refreshed, net, defs>>

\* An ordinary MCP error answers the request.
ErrorAnswer(t) ==
    /\ Answered(t)
    /\ pc' = [pc EXCEPT ![t] = "failed"]
    /\ Stay /\ UNCHANGED <<op, req, attempts, pages, refreshed, queue, calls, defs>>

\* A protocol or capability violation, a repeated cursor, a cap exceeded.
Violation(t) ==
    /\ Answered(t)
    /\ Poison(t)
    /\ pc' = [pc EXCEPT ![t] = "finish"]
    /\ UNCHANGED <<op, req, attempts, pages, refreshed, queue, calls, defs>>

\* HeaderMismatch: the first one lists the tools again under the same guard,
\* deadline and round count; a second one is an error past a mismatch.
HeaderMismatchFresh(t) ==
    /\ Answered(t) /\ Http /\ req[t] = "call" /\ ~Routed
    /\ IF refreshed[t]
         THEN pc' = [pc EXCEPT ![t] = "failed"] /\ UNCHANGED <<req, pages, refreshed, attempts>>
         ELSE /\ pc' = [pc EXCEPT ![t] = "ready"]
              /\ req' = [req EXCEPT ![t] = "page"]
              /\ pages' = [pages EXCEPT ![t] = 0]
              /\ attempts' = [attempts EXCEPT ![t] = 0]
              /\ refreshed' = [refreshed EXCEPT ![t] = TRUE]
    /\ Stay /\ UNCHANGED <<op, queue, calls, defs>>
HeaderMismatch(t) ==
    /\ Answered(t) /\ Http /\ req[t] = "call" /\ ~Routed
    /\ IF refreshed[t]
         THEN pc' = [pc EXCEPT ![t] = "failed"] /\ UNCHANGED <<req, pages, refreshed>>
         ELSE /\ pc' = [pc EXCEPT ![t] = "ready"]
              /\ req' = [req EXCEPT ![t] = "page"]
              /\ pages' = [pages EXCEPT ![t] = 0]
              /\ refreshed' = [refreshed EXCEPT ![t] = TRUE]
    /\ Stay /\ UNCHANGED <<op, attempts, queue, calls, defs>>

\* A page with a next cursor.
MorePages(t) ==
    /\ Answered(t) /\ req[t] = "page"
    /\ pc' = [pc EXCEPT ![t] = "ready"]
    /\ Stay /\ UNCHANGED <<op, req, attempts, pages, refreshed, queue, calls, defs>>

\* ensure_same_semantics: a refresh may change nothing but the header plan.
SameSemanticsAny == TRUE
SameSemantics == server.sem = active.sem

\* The last page: commit the listing; a refresh then calls again.
LastPage(t) ==
    /\ Answered(t) /\ req[t] = "page"
    /\ IF ~refreshed[t]
         THEN /\ listed' = TRUE
              /\ active' = IF Http THEN server ELSE active
              /\ pc' = [pc EXCEPT ![t] = "finish"]
              /\ UNCHANGED req
         ELSE IF SameSemantics
           THEN /\ active' = server
                /\ req' = [req EXCEPT ![t] = "call"]
                /\ pc' = [pc EXCEPT ![t] = "ready"]
                /\ UNCHANGED listed
           ELSE /\ pc' = [pc EXCEPT ![t] = "failed"]
                /\ UNCHANGED <<req, listed, active>>
    /\ Stay /\ UNCHANGED <<op, attempts, pages, refreshed, queue, calls, server>>

\* The deadline passes with the guard armed: poison, whatever was being done.
Expire(t) ==
    /\ pc[t] \in {"ready", "awaiting", "backoff"}
    /\ Poison(t)
    /\ pc' = [pc EXCEPT ![t] = "finish"]
    /\ UNCHANGED <<op, req, attempts, pages, refreshed, net, defs>>

----------------------------------------------------------------------------
(* Ends.                                                                   *)

\* The shutdown closure raises the signal and cancels the loop.
Shutdown ==
    /\ closer = "held"
    /\ closer' = "taken"
    /\ poisoned' = TRUE
    /\ service' = IF service = "up" THEN "cancelled" ELSE service

Leave(t) == op' = None /\ pc' = [pc EXCEPT ![t] = "done"]

\* finish_in_flight: a poisoned connection is shut down (once, and waited for
\* or given up on) before the guard is disarmed and the mutex released.
Finish(t) ==
    /\ pc[t] = "finish" /\ killer # t
    /\ IF poisoned /\ closer = "held"
         THEN /\ Shutdown
              /\ pc' = [pc EXCEPT ![t] = "closing"]
              /\ UNCHANGED op
         ELSE Leave(t) /\ UNCHANGED conn
    /\ UNCHANGED <<proc, req, attempts, pages, refreshed, net, defs>>

\* The loop ended, or the shutdown timeout did.
CloseWaited(t) ==
    /\ pc[t] = "closing"
    /\ Leave(t)
    /\ Stay /\ UNCHANGED <<req, attempts, pages, refreshed, net, defs>>

\* The task is dropped.  With the mutex held the armed guard poisons the
\* connection before the mutex is released.
Holding(t) == pc[t] \in {"ready", "awaiting", "failed", "backoff", "finish", "closing"}
DropUnpoisoned(t) ==
    /\ Holding(t) /\ killer # t
    /\ pc' = [pc EXCEPT ![t] = "dropping"]
    /\ Stay /\ UNCHANGED <<op, req, attempts, pages, refreshed, net, defs>>
Drop(t) ==
    /\ Holding(t) /\ killer # t
    /\ Poison(t)
    /\ pc' = [pc EXCEPT ![t] = "dropping"]
    /\ UNCHANGED <<op, req, attempts, pages, refreshed, net, defs>>

Dropped(t) ==
    /\ pc[t] = "dropping" /\ killer # t
    /\ Leave(t)
    /\ Stay /\ UNCHANGED <<req, attempts, pages, refreshed, net, defs>>

\* The manager shuts the client down: after a failed discovery of this or
\* another server, at crew drop, at process shutdown.
ManagerShutdown ==
    /\ Shutdown
    /\ UNCHANGED <<proc, op, task, net, defs>>

----------------------------------------------------------------------------
TaskStep(t) ==
    \/ Acquire(t) \/ LockTimeout(t) \/ Send(t) \/ Closed(t) \/ Fail(t)
    \/ Slept(t) \/ Expire(t) \/ Finish(t) \/ CloseWaited(t) \/ Dropped(t)

Answer(t) ==
    \/ Complete(t) \/ InputRequired(t) \/ ErrorAnswer(t) \/ Violation(t)
    \/ HeaderMismatch(t) \/ MorePages(t) \/ LastPage(t) \/ LateAnswer(t)

Next ==
    \/ \E t \in Tasks : TaskStep(t) \/ Answer(t) \/ Begin(t) \/ Drop(t)
                        \/ Write(t) \/ WriteFails(t) \/ ExchangeFails(t)
    \/ KillGroup \/ ChildExits \/ SupervisorReaps
    \/ ServiceStops \/ StdoutCloses \/ BadFrame \/ ServerChanges \/ ManagerShutdown

Spec == Init /\ [][Next]_vars

----------------------------------------------------------------------------
(* Properties.                                                             *)

\* Types, in three parts: the connection, the tasks, the requests and tools.
ConnType ==
    /\ poisoned \in BOOLEAN /\ service \in {"up", "cancelled", "down"}
    /\ closer \in {"held", "taken"}
    /\ pgid \in BOOLEAN /\ aborted \in BOOLEAN /\ group \in BOOLEAN
    /\ killer \in Tasks \cup {Loop, None}
    /\ child \in {"none", "up", "dead", "reaped"}
TaskType ==
    /\ op \in Tasks \cup {None}
    /\ pc \in [Tasks -> {"idle", "wait", "ready", "awaiting", "failed", "backoff",
                         "finish", "closing", "dropping", "done"}]
    /\ req \in [Tasks -> {"page", "call"}]
    /\ attempts \in [Tasks -> 0..MaxRounds] /\ pages \in [Tasks -> 0..MaxPages]
    /\ refreshed \in [Tasks -> BOOLEAN]
RestType ==
    /\ queue \subseteq Tasks /\ wire \subseteq Tasks
    /\ calls \in [Tasks -> Nat]
    /\ listed \in BOOLEAN /\ active \in Definition \cup {NoDef}
    /\ server \in Definition

\* Every variable keeps its type; the round and page counters keep their caps.
TypeOK == ConnType /\ TaskType /\ RestType

\* The operation mutex and the guard together: a request is written only when
\* the server has finished every earlier request of this connection, also when
\* the earlier caller was dropped or gave up (client_operations.rs, the guard).
NoOverlap == [][wire' \ wire # {} => wire = {}]_vars

\* A tool call reaches the wire at most MaxRounds times, the retry after a
\* header refresh included (call.rs: attempts is shared by both calls).
RoundsBounded == \A t \in Tasks : calls[t] <= MaxRounds

\* After the first listing no refresh changes what the crew was told of a
\* tool beyond its header plan (http_tool_listing.rs ensure_same_semantics).
DefinitionPinned == [][active # NoDef => active'.sem = active.sem]_vars

\* When the supervisor has confirmed the reaping and no thread is between the
\* swap of the group id and its killpg, no process of the group is left, also
\* when the child ended by itself (stdio_transport.rs, the supervisor).
GroupGone == child = "reaped" /\ killer = None => ~group

\* However a connection was poisoned - a deadline, a dropped caller, a bad
\* frame, a failed write, a shutdown - its child is reaped and its group dies.
PoisonReaps == poisoned ~> (Http \/ (child = "reaped" /\ ~group))

\* Every discovery and call ends, whatever the server does.
CallsEnd == \A t \in Tasks : pc[t] = "wait" ~> pc[t] = "done"
=============================================================================
