------------------------------ MODULE MessageBus ------------------------------
(***************************************************************************)
(* The crew's message bus (engine/messagebus.rs).  The flow's Lua code     *)
(* adds agents, sends and reads messages between runs of the crew; a run   *)
(* holds the crew lock from end to end, registers every agent, and its     *)
(* tasks drain the queues of their agents.                                 *)
(***************************************************************************)
EXTENDS Naturals, Sequences, SequencesExt, FiniteSets

CONSTANTS Agents,
          Sizes,                    \* message_size of what is sent
          QueueDepth, QueueBytes,   \* IRONCREW_MESSAGEBUS_QUEUE_*
          PendingCap, PendingBytes, \* IRONCREW_MESSAGEBUS_PENDING_*
          HistoryDepth, HistoryBytes,
          MaxSends, MaxRuns         \* bounds on the run of the model

CapAssumption ==
    \A n \in {QueueDepth, QueueBytes, PendingCap, PendingBytes, HistoryDepth, HistoryBytes} :
        n \in Nat \ {0}

VARIABLES queues,    \* agent name -> queued messages; no queue before the first
                     \* direct message to the agent or its first run
          pending,   \* pending_broadcasts
          history,
          members,   \* crew.agents
          running,   \* a run holds the crew lock
          runs, sent,  \* history: counters, and every message sent
          got,       \* history: got[a]: ids a received, in order
          dropped    \* history: pairs <<agent, id>> a cap evicted

busVars == <<queues, pending, history>>
runVars == <<members, running, runs>>
vars == <<busVars, runVars, sent, got, dropped>>

All == "*"
Ids(q) == {q[i].id : i \in 1..Len(q)}
Bytes(q) == FoldLeft(LAMBDA n, m : n + m.size, 0, q)

\* The longest suffix within both caps: the oldest messages go first.
Newest(q, depth, bytes) ==
    LET Fits(n) == Len(q) - n <= depth /\ Bytes(SubSeq(q, n + 1, Len(q))) <= bytes
        n == CHOOSE i \in 0..Len(q) : Fits(i) /\ \A j \in 0..(i - 1) : ~Fits(j)
    IN SubSeq(q, n + 1, Len(q))

enforce_queue_cap(q) == Newest(q, QueueDepth, QueueBytes)

Init == /\ queues = [a \in {} |-> <<>>] /\ pending = <<>> /\ history = <<>>
        /\ members = {} /\ running = FALSE /\ runs = 0
        /\ sent = <<>> /\ got = [a \in Agents |-> <<>>] /\ dropped = {}

add_agent(a) == /\ ~running /\ a \notin members
                /\ members' = members \cup {a}
                /\ UNCHANGED <<busVars, running, runs, sent, got, dropped>>

QueueOf(a) == IF a \in DOMAIN queues THEN queues[a] ELSE <<>>

\* Appending ms[a] to the queue of each agent a of its domain, the queue then cut to
\* its caps.
Enqueue(ms) ==
    LET Full(a) == QueueOf(a) \o ms[a] IN
    /\ queues' = [a \in DOMAIN queues \cup DOMAIN ms |->
                    IF a \in DOMAIN ms THEN enforce_queue_cap(Full(a)) ELSE queues[a]]
    /\ dropped' = dropped \cup
          UNION {{a} \X (Ids(Full(a)) \ Ids(enforce_queue_cap(Full(a)))) : a \in DOMAIN ms}

\* A broadcast goes to the queues that exist; with none, it waits in pending.
Broadcast(m) ==
    IF DOMAIN queues = {}
    THEN /\ pending' = Newest(Append(pending, m), PendingCap, PendingBytes)
         /\ dropped' = dropped \cup Agents \X
               (Ids(Append(pending, m)) \ Ids(Newest(Append(pending, m), PendingCap, PendingBytes)))
         /\ UNCHANGED queues
    ELSE Enqueue([a \in DOMAIN queues \ {m.from} |-> <<m>>]) /\ UNCHANGED pending

\* A direct message creates the queue of an agent that is not registered yet.
send(from, to, size) ==
    LET m == [id |-> Len(sent) + 1, from |-> from, to |-> to, size |-> size] IN
    /\ ~running /\ Len(sent) < MaxSends
    /\ sent' = Append(sent, m)
    /\ history' = Newest(Append(history, m), HistoryDepth, HistoryBytes)
    /\ IF to = All THEN Broadcast(m)
       ELSE Enqueue([a \in {to} |-> <<m>>]) /\ UNCHANGED pending
    /\ UNCHANGED <<runVars, got>>

PendingFor(a) == SelectSeq(pending, LAMBDA m : m.from # a)

\* register_agent, for every agent of the crew.
register_agents == Enqueue([a \in members |-> PendingFor(a)])

\* The head of run_crew: every agent registered, then nothing is pending.
run_crew ==
    /\ ~running /\ members # {} /\ runs < MaxRuns
    /\ register_agents
    /\ pending' = <<>>
    /\ running' = TRUE /\ runs' = runs + 1
    /\ UNCHANGED <<history, members, sent, got>>

\* By a task of the agent during a run, by message_read between runs.
receive(a) ==
    /\ a \in DOMAIN queues /\ queues[a] # <<>>
    /\ got' = [got EXCEPT ![a] = @ \o [i \in 1..Len(queues[a]) |-> queues[a][i].id]]
    /\ queues' = [queues EXCEPT ![a] = <<>>]
    /\ UNCHANGED <<pending, history, runVars, sent, dropped>>

EndRun == /\ running /\ running' = FALSE
          /\ UNCHANGED <<busVars, members, runs, sent, got, dropped>>

Next == \/ run_crew \/ EndRun
        \/ \E a \in Agents :
              \/ add_agent(a) \/ receive(a)
              \/ \E to \in Agents \cup {All}, size \in Sizes : send(a, to, size)

Spec == Init /\ [][Next]_vars

(***************************************************************************)
(* Properties.                                                             *)
(***************************************************************************)
TypeOK == /\ DOMAIN queues \subseteq Agents /\ members \subseteq Agents
          /\ Len(sent) \in 0..MaxSends /\ runs \in 0..MaxRuns /\ running \in BOOLEAN
          /\ \A a \in DOMAIN queues : Ids(queues[a]) \subseteq 1..Len(sent)
          /\ running => pending = <<>>
          /\ dropped \subseteq Agents \X (1..MaxSends)

\* No agent is handed the same message twice, over any number of runs: what was
\* pending is delivered by one run only, and a queue that was drained is empty.
HandedOnce == \A a \in Agents :
                 /\ Cardinality(ToSet(got[a])) = Len(got[a])
                 /\ a \in DOMAIN queues =>
                       /\ Cardinality(Ids(queues[a])) = Len(queues[a])
                       /\ Ids(queues[a]) \cap ToSet(got[a]) = {}

\* A direct message is never lost: it waits in its target's queue, also when the
\* target registers later, unless a cap evicted it.
DirectAccounted == \A i \in 1..Len(sent) :
    LET m == sent[i] IN
    m.to # All => i \in Ids(QueueOf(m.to)) \cup ToSet(got[m.to]) \/ <<m.to, i>> \in dropped

\* docs/crews.md: each queue, what is pending and the history stay within their
\* message and byte caps, whichever path filled them.
Bounded == /\ \A a \in DOMAIN queues : Len(queues[a]) <= QueueDepth /\ Bytes(queues[a]) <= QueueBytes
           /\ Len(pending) <= PendingCap /\ Bytes(pending) <= PendingBytes
           /\ Len(history) <= HistoryDepth /\ Bytes(history) <= HistoryBytes

=============================================================================
