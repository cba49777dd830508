----------------------------- MODULE ShellTool -----------------------------
(***************************************************************************)
(* The shell tool (src/tools/shell.rs) under the tool dispatcher: one      *)
(* command, the processes it leaves behind, its output pipe, and the four  *)
(* deadlines - the command's, the termination grace, the drain grace and   *)
(* the dispatcher's own, which spans the approval wait too.                *)
(*                                                                         *)
(* Timers are punctual: time does not pass a timer that is due.  The two   *)
(* output streams are one.                                                 *)
(***************************************************************************)
EXTENDS Naturals, FiniteSets

CONSTANTS Procs,     \* processes the command may fork
          Timeout,   \* requested_timeout
          Grace,     \* TERMINATION_GRACE
          Drain,     \* READER_DRAIN_GRACE
          Gate,      \* the approval timeout of a gated call; 0: not gated
          Margin,    \* DISPATCH_MARGIN_SECS of the gate
          MaxOutput  \* IRONCREW_SHELL_MAX_OUTPUT_BYTES, in chunks

ShellAssumption ==
    /\ Timeout \in Nat \ {0} /\ Grace \in Nat \ {0} /\ Drain \in Nat \ {0}
    /\ Gate \in Nat /\ Margin \in Nat /\ MaxOutput \in Nat \ {0}

VARIABLES
    pc,      \* "idle", "gate", "wait", "term", "drain"; then "done", "cut"
             \* by the dispatcher or "dropped" with the run
    now,
    timer,   \* the inner deadline of the current wait
    limit,   \* the dispatcher's deadline
    child,   \* sh: "none", "up", "exited" or "reaped"
    kin,     \* live descendants in sh's process group
    away,    \* live descendants that left it
    armed,   \* ProcessGroupGuard.pgid is set
    reader,  \* the spawned reader task: "none", "on", "ended", "aborted"
    kept, truncated,  \* what it holds
    outcome, \* how execute returned
    escaped, \* history: some process has left the group
    late     \* history: sh was spawned with less than its own budget left

vars == <<pc, now, timer, limit, child, kin, away, armed, reader, kept, truncated,
          outcome, escaped, late>>
procs == <<child, kin, away>>
out == <<reader, kept, truncated>>

MaxOf(a, b) == IF a >= b THEN a ELSE b

\* ShellTool::dispatch_timeout, and the registry's maximum with the gate's.
OwnBudget == Timeout + Drain + Grace
DispatchTimeout == IF Gate > 0 THEN MaxOf(OwnBudget, Gate + Margin) ELSE OwnBudget

Init ==
    /\ pc = "idle" /\ now = 0 /\ timer = 0 /\ limit = 0
    /\ child = "none" /\ kin = {} /\ away = {} /\ armed = FALSE
    /\ reader = "none" /\ kept = 0 /\ truncated = FALSE
    /\ outcome = "none" /\ escaped = FALSE /\ late = FALSE

----------------------------------------------------------------------------
(* The dispatcher, the gate and execute.                                   *)

\* Tool::execute spawns sh in a group of its own, and the readers.
Spawned ==
    /\ child' = "up" /\ armed' = TRUE /\ reader' = "on"
    /\ timer' = now + Timeout
    /\ late' = (now + OwnBudget > limit')
    /\ pc' = "wait"

Dispatch ==
    /\ pc = "idle"
    /\ limit' = now + DispatchTimeout
    /\ IF Gate > 0
         THEN pc' = "gate" /\ timer' = now + Gate /\ UNCHANGED <<child, armed, reader, late>>
         ELSE Spawned
    /\ UNCHANGED <<now, kin, away, kept, truncated, outcome, escaped>>

\* approval::request: allow runs the tool, deny and timeout return an error.
Approved ==
    /\ pc = "gate" /\ UNCHANGED limit /\ Spawned
    /\ UNCHANGED <<now, kin, away, kept, truncated, outcome, escaped>>

Denied ==
    /\ pc = "gate"
    /\ pc' = "done" /\ outcome' = "denied"
    /\ UNCHANGED <<now, timer, limit, procs, armed, out, escaped, late>>

\* kill_and_disarm: SIGKILL for what is left of the group.
KillAndDisarm == armed' = FALSE /\ kin' = {}

ToDrain == pc' = "drain" /\ timer' = now + Drain

\* child.wait() returned in time; the group is killed before draining, so that
\* no background job holds the pipe.
ExitedDisarmed ==
    /\ pc = "wait" /\ child = "exited"
    /\ child' = "reaped" /\ outcome' = "status"
    /\ ToDrain /\ armed' = FALSE
    /\ UNCHANGED <<now, limit, kin, away, out, escaped, late>>
Exited ==
    /\ pc = "wait" /\ child = "exited"
    /\ child' = "reaped" /\ outcome' = "status"
    /\ ToDrain /\ KillAndDisarm
    /\ UNCHANGED <<now, limit, away, out, escaped, late>>

\* The command's deadline: SIGTERM to the group, which may ignore it.
TimedOut ==
    /\ pc = "wait" /\ now >= timer
    /\ pc' = "term" /\ timer' = now + Grace /\ outcome' = "timeout"
    /\ UNCHANGED <<now, limit, procs, armed, out, escaped, late>>

\* sh ended in the grace period; or it did not and is killed and reaped.
Terminated ==
    /\ pc = "term"
    /\ child = "exited" \/ now >= timer
    /\ child' = "reaped"
    /\ ToDrain /\ KillAndDisarm
    /\ UNCHANGED <<now, limit, away, out, outcome, escaped, late>>

\* The guard's drop at every way out of execute kills what is still there.
Released == armed' = FALSE /\ kin' = IF armed THEN {} ELSE kin

\* Both readers reached the end of their streams.
Drained ==
    /\ pc = "drain" /\ reader = "ended"
    /\ pc' = "done" /\ Released
    /\ UNCHANGED <<now, timer, limit, child, away, out, outcome, escaped, late>>

\* They did not within the drain grace: abort them and report an error.
DrainExpired ==
    /\ pc = "drain" /\ reader = "on" /\ now >= timer
    /\ pc' = "done" /\ outcome' = "undrained" /\ reader' = "aborted"
    /\ Released
    /\ UNCHANGED <<now, timer, limit, child, away, kept, truncated, escaped, late>>

\* The future is dropped: the guard kills the group, kill_on_drop the child;
\* the reader tasks are only detached.
Dropping(as) ==
    /\ pc' = as
    /\ Released
    /\ child' = IF child = "none" THEN "none" ELSE "reaped"
    /\ UNCHANGED <<now, timer, limit, away, out, outcome, escaped, late>>

\* What execute waits for has come.
Ready ==
    \/ now >= timer
    \/ pc \in {"wait", "term"} /\ child = "exited"
    \/ pc = "drain" /\ reader = "ended"

\* tool_dispatch: the outer timeout polls execute first.
DispatcherCuts ==
    /\ pc \in {"gate", "wait", "term", "drain"}
    /\ now >= limit /\ ~Ready
    /\ Dropping("cut")

RunDropped ==
    /\ pc \in {"gate", "wait", "term", "drain"}
    /\ Dropping("dropped")

----------------------------------------------------------------------------
(* The command and its pipe (external), and read_bounded.                  *)

Alive == child = "up" \/ kin # {}

Fork(p) ==
    /\ Alive /\ p \notin kin \cup away
    /\ kin' = kin \cup {p}
    /\ UNCHANGED <<pc, now, timer, limit, child, away, armed, out, outcome, escaped, late>>

Setsid(p) ==
    /\ p \in kin
    /\ kin' = kin \ {p} /\ away' = away \cup {p} /\ escaped' = TRUE
    /\ UNCHANGED <<pc, now, timer, limit, child, armed, out, outcome, late>>

ProcExits(p) ==
    /\ p \in kin \cup away
    /\ kin' = kin \ {p} /\ away' = away \ {p}
    /\ UNCHANGED <<pc, now, timer, limit, child, armed, out, outcome, escaped, late>>

ShExits ==
    /\ child = "up" /\ child' = "exited"
    /\ UNCHANGED <<pc, now, timer, limit, kin, away, armed, out, outcome, escaped, late>>

\* A chunk is read: kept up to the cap, then discarded so the command can end.
Read ==
    /\ reader = "on" /\ (Alive \/ away # {})
    /\ IF kept >= MaxOutput
         THEN truncated' = TRUE /\ UNCHANGED kept
         ELSE kept' = kept + 1 /\ UNCHANGED truncated
    /\ UNCHANGED <<pc, now, timer, limit, procs, armed, reader, outcome, escaped, late>>

Eof ==
    /\ reader = "on" /\ ~Alive /\ away = {}
    /\ reader' = "ended"
    /\ UNCHANGED <<pc, now, timer, limit, procs, armed, kept, truncated, outcome, escaped, late>>

\* Time passes unless a timer, or an end of stream the drain waits for, is due.
Due == now >= limit \/ Ready \/ (pc = "drain" /\ ~Alive /\ away = {})

Tick ==
    /\ pc \in {"gate", "wait", "term", "drain"} /\ ~Due
    /\ now' = now + 1
    /\ UNCHANGED <<pc, timer, limit, procs, armed, out, outcome, escaped, late>>

Execute == Exited \/ TimedOut \/ Terminated \/ Drained \/ DrainExpired

Next ==
    \/ Dispatch \/ Approved \/ Denied \/ Execute
    \/ DispatcherCuts \/ RunDropped
    \/ (\E p \in Procs : Fork(p) \/ Setsid(p) \/ ProcExits(p))
    \/ ShExits \/ Read \/ Eof \/ Tick

Spec == Init /\ [][Next]_vars

----------------------------------------------------------------------------
(* Properties.                                                             *)

\* The kept output never exceeds its cap, and the clock and timers are times.
TypeOK ==
    /\ pc \in {"idle", "gate", "wait", "term", "drain", "done", "cut", "dropped"}
    /\ now \in Nat /\ timer \in Nat /\ limit \in Nat
    /\ child \in {"none", "up", "exited", "reaped"}
    /\ kin \subseteq Procs /\ away \subseteq Procs
    /\ armed \in BOOLEAN /\ truncated \in BOOLEAN
    /\ reader \in {"none", "on", "ended", "aborted"}
    /\ kept \in 0..MaxOutput
    /\ outcome \in {"none", "denied", "status", "timeout", "undrained"}

\* Completion, timeout, denial, cancellation and a dropped run all leave no
\* process of the command's group behind (docs/tools.md, Execution limits).
GroupEnds == pc \in {"done", "cut", "dropped"} => child # "up" /\ kin = {}

\* Killing the group before draining leaves the pipe to escaped processes
\* only: the drain gives up only on a command that let one escape.
DrainBlame == outcome = "undrained" => escaped

\* The dispatcher cuts a command only after the tool's own timeout path has
\* terminated and reaped it (the comment on ShellTool::dispatch_timeout), unless the
\* wait for an approval had eaten into the command's own budget: the registry takes
\* the larger of the two budgets, not their sum.
ReapedBeforeCut == pc # "cut" /\ pc' = "cut" => child \in {"none", "reaped"} \/ late

\* Every dispatched command ends, even with an escaped process on the pipe.
CommandEnds == pc = "wait" ~> pc \in {"done", "cut", "dropped"}
=============================================================================
