------------------------------ MODULE MCShared ------------------------------
(****************************************************************************)
(*  Small instances of what the replicas and the runs of a process share:   *)
(*  human input with its mailbox, the wait status of a run, readiness, the  *)
(*  admission of requests, the message bus and the memory store.            *)
(*  A behaviour is of one component: part names the instance at work.  The  *)
(*  variables of the others are Off, and those of human input, which the    *)
(*  module extends, in an initial state.                                    *)
(****************************************************************************)
EXTENDS HumanInput

CONSTANTS Off, None, old, new, i1, i2, a1, a2, r1, r2, b1, b2, b3, f1, f2, q1, q2, p1, t1, t2,
    s1, s2, s3, k1, k2, MaxReads

\* The stages of a rotation from key old to key new.
Ring(keys, active) == [keys |-> keys, active |-> active]
Single == {Ring({old}, old)}
Expanded == {Ring({old, new}, old), Ring({old, new}, new)}
Rotation == Expanded \cup Single \cup {Ring({new}, new)}

\* One token every second and a half for work, other classes for control and reads.
Rates  == [work |-> 2, control |-> 2, observation |-> 1]
Bursts == [work |-> 2, control |-> 1, observation |-> 2]
Work == {[method |-> "POST", shape |-> "other"]}
Controls == {[method |-> "DELETE", shape |-> "other"], [method |-> "GET", shape |-> "other"]}
Reads == {[method |-> "GET", shape |-> "validate"]}

VARIABLES
    part,  \* which component the behaviour is of
    status, waitExpired, waiters, waitHolder, waitPc, task, choice, orphan, lastWrite,
    readyPhase, loop, degraded, gauge, errors, healthy, cycle, lastCycle, probe, readyCache,
    readyHolder,
    admitNow, thread, bucket, admitted, promise, rewound,
    queues, unclaimed, history, members, running, runs, sent, received, dropped,
    memoryNow, items, memoryPc, nextRev, temp, file, writes, saved, unseen

waitVars == <<status, waitExpired, waiters, waitHolder, waitPc, task, choice, orphan, lastWrite>>
readyVars == <<readyPhase, loop, degraded, gauge, errors, healthy, cycle, lastCycle, probe,
    readyCache, readyHolder>>
admitVars == <<admitNow, thread, bucket, admitted, promise, rewound>>
busVars == <<queues, unclaimed, history, members, running, runs, sent, received, dropped>>
memoryVars == <<memoryNow, items, memoryPc, nextRev, temp, file, writes, saved, unseen>>

\* One question and two answers with replicas at every stage of a key rotation, or two
\* questions on a bridge with room for one and one key.
HumanRings == Rotation \cup {NoKeyring}
OtherRings == Expanded \cup Single
ASSUME HumanInputAssumption

\* Bound: the second question or the second answer, each after the first.
OneOrTheOther ==
    /\ pc[a2] # "idle" =>
         /\ pc[a1] # "idle" /\ rpc[r2] = "idle"
         /\ ring[i1] \in Single \cup {NoKeyring} /\ ring[i2] \in Single
    /\ rpc[r2] # "idle" => rpc[r1] # "idle"

\* A branch may be dropped at any point, its write in a blocking call included.
Waits == INSTANCE WaitStatus
    WITH Branch <- {b1, b2, b3}, expired <- waitExpired, holder <- waitHolder, pc <- waitPc, last <- lastWrite
ASSUME Waits!WaitStatusAssumption

Probing == INSTANCE Readiness
    WITH Finalizers <- {f1, f2}, Probes <- {q1, q2}, Loops <- {"commit", "run"},
         LeaseLoss <- TRUE, Drains <- TRUE, MaxErrors <- 3, phase <- readyPhase,
         cache <- readyCache, holder <- readyHolder
ASSUME Probing!LoopsAssumption
ASSUME Probing!FaultAssumption

\* Two threads that read their clocks before the lock, with one class of requests.
Rating == INSTANCE Admission
    WITH Threads <- {t1, t2}, Principals <- {p1}, Units <- 2, Minute <- 3, Rate <- Rates,
         Burst <- Bursts, Routes <- Work, MaxTime <- 5, now <- admitNow
ASSUME Rating!AdmissionAssumption

\* The same with controls and requests that are not limited, and with reads.
Retrying == INSTANCE Admission
    WITH Threads <- {t1, t2}, Principals <- {p1}, Units <- 2, Minute <- 3, Rate <- Rates,
         Burst <- Bursts, Routes <- Controls, MaxTime <- 5, now <- admitNow
ASSUME Retrying!AdmissionAssumption

Reading == INSTANCE Admission
    WITH Threads <- {t1, t2}, Principals <- {p1}, Units <- 2, Minute <- 3, Rate <- Rates,
         Burst <- Bursts, Routes <- Reads, MaxTime <- 5, now <- admitNow

Mail == INSTANCE MessageBus
    WITH Agents <- {q1, q2}, Sizes <- {1, 2}, QueueDepth <- 2, QueueBytes <- 3,
         PendingCap <- 2, PendingBytes <- 3, HistoryDepth <- 2, HistoryBytes <- 3,
         MaxSends <- 3, MaxRuns <- 2, pending <- unclaimed, got <- received
ASSUME Mail!CapAssumption

\* One run after another, with items of two sizes.
Memory == INSTANCE MemoryStore
    WITH Stores <- {s3}, Keys <- {k1, k2}, Sizes <- {1, 2}, TTLs <- {1}, MaxItems <- 2,
         MaxTokens <- 2, MaxClock <- 2, MaxWrites <- 3, now <- memoryNow, pc <- memoryPc
ASSUME Memory!LimitAssumption

\* Two runs whose stores are open, and whose saves race, on one file.
Racing == INSTANCE MemoryStore
    WITH Stores <- {s1, s2}, Keys <- {k1, k2}, Sizes <- {1}, TTLs <- {1}, MaxItems <- 1,
         MaxTokens <- 2, MaxClock <- 2, MaxWrites <- 2, now <- memoryNow, pc <- memoryPc
ASSUME Racing!LimitAssumption

\* Bound: reads only grow an item's access count and revision, and a few are enough to
\* reorder the items.
FewReads ==
    part \in {"memory", "racing"} =>
        \A s \in DOMAIN nextRev : nextRev[s] <= MaxReads - (IF part = "racing" THEN 2 ELSE 0)

WaitOff == /\ status = Off /\ waitExpired = Off /\ waiters = Off /\ waitHolder = Off
           /\ waitPc = Off /\ task = Off /\ choice = Off /\ orphan = Off /\ lastWrite = Off
ReadyOff == /\ readyPhase = Off /\ loop = Off /\ degraded = Off /\ gauge = Off
            /\ errors = Off /\ healthy = Off /\ cycle = Off /\ lastCycle = Off
            /\ probe = Off /\ readyCache = Off /\ readyHolder = Off
AdmitOff == /\ admitNow = Off /\ thread = Off /\ bucket = Off /\ admitted = Off
            /\ promise = Off /\ rewound = Off
BusOff == /\ queues = Off /\ unclaimed = Off /\ history = Off /\ members = Off
          /\ running = Off /\ runs = Off /\ sent = Off /\ received = Off /\ dropped = Off
MemoryOff == /\ memoryNow = Off /\ items = Off /\ memoryPc = Off /\ nextRev = Off
             /\ temp = Off /\ file = Off /\ writes = Off /\ saved = Off /\ unseen = Off

PartInit ==
    /\ Init
    /\ \/ part = "human"
       \/ part = "wait" /\ Waits!Init
       \/ part = "probe" /\ Probing!Init
       \/ part = "rate" /\ Rating!Init
       \/ part = "retry" /\ Retrying!Init
       \/ part = "read" /\ Reading!Init
       \/ part = "bus" /\ Mail!Init
       \/ part = "memory" /\ Memory!Init
       \/ part = "racing" /\ Racing!Init
    /\ part # "human" => \A i \in Replica : ring[i] \in Single
    /\ part # "wait" => WaitOff
    /\ part # "probe" => ReadyOff
    /\ part \notin {"rate", "retry", "read"} => AdmitOff
    /\ part # "bus" => BusOff
    /\ part \notin {"memory", "racing"} => MemoryOff

PartNext ==
    /\ \/ part = "human" /\ Next
       \/ part = "wait" /\ Waits!Next
       \/ part = "probe" /\ Probing!Next
       \/ part = "rate" /\ Rating!Next
       \/ part = "retry" /\ Retrying!Next
       \/ part = "read" /\ Reading!Next
       \/ part = "bus" /\ Mail!Next
       \/ part = "memory" /\ Memory!Next
       \/ part = "racing" /\ Racing!Next
    /\ UNCHANGED part
    /\ part # "human" => UNCHANGED vars
    /\ part # "wait" => UNCHANGED waitVars
    /\ part # "probe" => UNCHANGED readyVars
    /\ part \notin {"rate", "retry", "read"} => UNCHANGED admitVars
    /\ part # "bus" => UNCHANGED busVars
    /\ part \notin {"memory", "racing"} => UNCHANGED memoryVars

partVars == <<part, vars, waitVars, readyVars, admitVars, busVars, memoryVars>>

PartSpec == PartInit /\ [][PartNext]_partVars
-----------------------------------------------------------------------------
\* After any write that holds the serializer, the stored status of a run with parallel
\* questions settles to what its waiters say, though branches are dropped in the middle
\* of theirs, and a terminal one stays; no lost claim or drain makes the gauge forget
\* a finalizer that retries, health is earned by a success of each loop, and a process
\* that drains never says it is ready (with_run_wait_status, api/handlers.rs).  That
\* the gauge also comes back to 0, and that no late write is the last one, the code
\* does not keep.
StatusSound ==
    /\ [](part = "wait" => Waits!SerializedStatusSettles /\ Waits!WaitersExact)
    /\ [][part = "wait" => Waits!TerminalStays]_waitVars
    /\ [](part = "probe" =>
           /\ Probing!TypeOK /\ Probing!GaugeCoversRetrying /\ Probing!HealthIsEarned)
    /\ [][part = "probe" => Probing!DrainNeverReady]_readyVars

\* No window admits more than burst and rate allow and what a clock that was read before
\* the lock, and used after a later one, set the bucket back by; a retry after the
\* announced delay is admitted (api/admission.rs).
AdmissionSound ==
    /\ [](part = "rate" => Rating!TypeOK /\ Rating!RateBound)
    /\ [][/\ part = "retry" => Retrying!RetryAfterSuffices
         /\ part = "read" => Reading!RetryAfterSuffices]_admitVars

\* A message is handed out once and a direct one is accounted for, and queues keep their
\* limits; what a run saved to memory stays on file until a run that knows of it takes it
\* out, and what was just written is not what an eviction takes unless the rest was read
\* more often (messagebus.rs, memory.rs).
SharedStateSound ==
    /\ [](part = "bus" =>
           /\ Mail!TypeOK /\ Mail!HandedOnce /\ Mail!DirectAccounted /\ Mail!Bounded)
    /\ [](part = "memory" => Memory!TypeOK /\ Memory!SavedIsOnFile)
    /\ [](part = "racing" => Racing!TypeOK /\ Racing!SavedIsOnFile)
    /\ [][/\ part = "memory" => Memory!WriteIsKept
         /\ part = "racing" => Racing!WriteIsKept]_memoryVars
=============================================================================
