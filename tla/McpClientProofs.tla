--------------------------- MODULE McpClientProofs ---------------------------
(***************************************************************************)
(* Theorems about McpClient, for any number of callers, rounds and pages   *)
(* and for both transports.  One inductive invariant, McpInv, carries all  *)
(* of them: who holds the operation mutex, where the requests of a healthy *)
(* connection can be, how many rounds they stand for, which thread still   *)
(* owes the process group its kill, and how far discovery has come.        *)
(***************************************************************************)
EXTENDS McpClient, TLAPS

\* The mutex is held by exactly the task that is past Acquire and not done.
Held == {"ready", "awaiting", "failed", "backoff", "finish", "closing", "dropping"}
MutexInv == \A t \in Tasks : pc[t] \in Held <=> op = t

\* A task that has not sent, or was answered, has no request anywhere; on a
\* healthy connection only the waiting holder of the mutex has one.
RequestInv ==
    /\ queue \cap wire = {}
    /\ \A t \in queue \cup wire : pc[t] \notin {"idle", "wait", "ready", "backoff"}
    /\ service = "up" /\ ~poisoned =>
         \A t \in queue \cup wire : pc[t] = "awaiting"

\* A round is counted before its request is queued.
Pending(t) == IF t \in queue /\ req[t] = "call" THEN 1 ELSE 0
RoundInv == \A t \in Tasks : calls[t] + Pending(t) <= attempts[t]

\* The group outlives the swap of its id only in the hands of the killer.
GroupInv ==
    /\ ~pgid /\ killer = None => ~group
    /\ child = "reaped" => ~pgid

\* Discovery lists once, before any caller starts; callers list to refresh.
Before == {"idle", "wait", "ready", "awaiting", "backoff"}
ListInv ==
    /\ req[Discovery] = "page" /\ ~refreshed[Discovery]
    /\ listed => pc[Discovery] \notin Before
    /\ ~listed => active = NoDef
    /\ \A t \in Callers : pc[t] # "idle" => listed /\ (refreshed[t] \/ req[t] = "call")

McpInv == TypeOK /\ MutexInv /\ RequestInv /\ RoundInv /\ GroupInv /\ ListInv

\* Every step keeps the types of the connection.
LEMMA ConnTypeStep == McpInv /\ [Next]_vars => ConnType'
<1> SUFFICES ASSUME McpInv, [Next]_vars PROVE ConnType'
  OBVIOUS
<1> USE McpAssumption DEF McpInv, TypeOK, ConnType, TaskType, RestType, Tasks, Loop, conn, proc, task, net, defs
<1>1. ASSUME NEW t \in Tasks, Acquire(t) PROVE ConnType'
  BY <1>1 DEF Acquire, Stay
<1>2. ASSUME NEW t \in Tasks, LockTimeout(t) PROVE ConnType'
  BY <1>2 DEF LockTimeout, Stay
<1>3. ASSUME NEW t \in Tasks, Send(t) PROVE ConnType'
  BY <1>3 DEF Send, Poison, Abort, Stay, Exhausted
<1>4. ASSUME NEW t \in Tasks, Closed(t) PROVE ConnType'
  BY <1>4 DEF Closed, Stay
<1>5. ASSUME NEW t \in Tasks, Fail(t) PROVE ConnType'
  BY <1>5 DEF Fail, Poison, Abort, Stay
<1>6. ASSUME NEW t \in Tasks, Slept(t) PROVE ConnType'
  BY <1>6 DEF Slept, Stay
<1>7. ASSUME NEW t \in Tasks, Expire(t) PROVE ConnType'
  BY <1>7 DEF Expire, Poison, Abort
<1>8. ASSUME NEW t \in Tasks, Finish(t) PROVE ConnType'
  BY <1>8 DEF Finish, Leave, Shutdown
<1>9. ASSUME NEW t \in Tasks, CloseWaited(t) PROVE ConnType'
  BY <1>9 DEF CloseWaited, Stay, Leave
<1>10. ASSUME NEW t \in Tasks, Dropped(t) PROVE ConnType'
  BY <1>10 DEF Dropped, Stay, Leave
<1>11. ASSUME NEW t \in Tasks, Complete(t) PROVE ConnType'
  BY <1>11 DEF Complete, Answered, Stay
<1>12. ASSUME NEW t \in Tasks, InputRequired(t) PROVE ConnType'
  BY <1>12 DEF InputRequired, Poison, Abort, Answered, Stay
<1>13. ASSUME NEW t \in Tasks, ErrorAnswer(t) PROVE ConnType'
  BY <1>13 DEF ErrorAnswer, Answered, Stay
<1>14. ASSUME NEW t \in Tasks, Violation(t) PROVE ConnType'
  BY <1>14 DEF Violation, Poison, Abort, Answered
<1>15. ASSUME NEW t \in Tasks, HeaderMismatch(t) PROVE ConnType'
  BY <1>15 DEF HeaderMismatch, Answered, Stay
<1>16. ASSUME NEW t \in Tasks, MorePages(t) PROVE ConnType'
  BY <1>16 DEF MorePages, Answered, Stay
<1>17. ASSUME NEW t \in Tasks, LastPage(t) PROVE ConnType'
  BY <1>17 DEF LastPage, Answered, Stay, SameSemantics
<1>18. ASSUME NEW t \in Tasks, LateAnswer(t) PROVE ConnType'
  BY <1>18 DEF LateAnswer
<1>19. ASSUME NEW t \in Tasks, Begin(t) PROVE ConnType'
  BY <1>19 DEF Begin, Stay
<1>20. ASSUME NEW t \in Tasks, Drop(t) PROVE ConnType'
  BY <1>20 DEF Drop, Poison, Abort, Holding
<1>21. ASSUME NEW t \in Tasks, Write(t) PROVE ConnType'
  BY <1>21 DEF Write, Refused
<1>22. ASSUME NEW t \in Tasks, WriteFails(t) PROVE ConnType'
  BY <1>22 DEF WriteFails, Refused
<1>23. ASSUME NEW t \in Tasks, ExchangeFails(t) PROVE ConnType'
  BY <1>23 DEF ExchangeFails, Refused
<1>24. CASE KillGroup
  BY <1>24 DEF KillGroup
<1>25. CASE ChildExits
  BY <1>25 DEF ChildExits
<1>26. CASE SupervisorReaps
  BY <1>26 DEF SupervisorReaps
<1>27. CASE ServiceStops
  BY <1>27 DEF ServiceStops, Abort, LoopEnds
<1>28. CASE StdoutCloses
  BY <1>28 DEF StdoutCloses, Abort, LoopEnds
<1>29. CASE BadFrame
  BY <1>29 DEF BadFrame, Abort
<1>30. CASE ServerChanges
  BY <1>30 DEF ServerChanges
<1>31. CASE ManagerShutdown
  BY <1>31 DEF ManagerShutdown, Shutdown
<1>32. CASE UNCHANGED vars
  BY <1>32 DEF vars
<1>33. QED
  BY <1>1, <1>2, <1>3, <1>4, <1>5, <1>6, <1>7, <1>8, <1>9, <1>10, <1>11, <1>12, <1>13, <1>14, <1>15, <1>16, <1>17, <1>18, <1>19, <1>20, <1>21, <1>22, <1>23, <1>24, <1>25, <1>26, <1>27, <1>28, <1>29, <1>30, <1>31, <1>32 DEF Next, TaskStep, Answer

\* Every step keeps the types of the tasks, the round and page caps included.
LEMMA TaskTypeStep == McpInv /\ [Next]_vars => TaskType'
<1> SUFFICES ASSUME McpInv, [Next]_vars PROVE TaskType'
  OBVIOUS
<1> USE McpAssumption DEF McpInv, TypeOK, ConnType, TaskType, RestType, Tasks, Loop, conn, proc, task, net, defs
<1>1. ASSUME NEW t \in Tasks, Acquire(t) PROVE TaskType'
  BY <1>1 DEF Acquire, Stay
<1>2. ASSUME NEW t \in Tasks, LockTimeout(t) PROVE TaskType'
  BY <1>2 DEF LockTimeout, Stay
<1>3. ASSUME NEW t \in Tasks, Send(t) PROVE TaskType'
  BY <1>3 DEF Send, Poison, Abort, Stay, Exhausted
<1>4. ASSUME NEW t \in Tasks, Closed(t) PROVE TaskType'
  BY <1>4 DEF Closed, Stay
<1>5. ASSUME NEW t \in Tasks, Fail(t) PROVE TaskType'
  BY <1>5 DEF Fail, Poison, Abort, Stay
<1>6. ASSUME NEW t \in Tasks, Slept(t) PROVE TaskType'
  BY <1>6 DEF Slept, Stay
<1>7. ASSUME NEW t \in Tasks, Expire(t) PROVE TaskType'
  BY <1>7 DEF Expire, Poison, Abort
<1>8. ASSUME NEW t \in Tasks, Finish(t) PROVE TaskType'
  BY <1>8 DEF Finish, Leave, Shutdown
<1>9. ASSUME NEW t \in Tasks, CloseWaited(t) PROVE TaskType'
  BY <1>9 DEF CloseWaited, Stay, Leave
<1>10. ASSUME NEW t \in Tasks, Dropped(t) PROVE TaskType'
  BY <1>10 DEF Dropped, Stay, Leave
<1>11. ASSUME NEW t \in Tasks, Complete(t) PROVE TaskType'
  BY <1>11 DEF Complete, Answered, Stay
<1>12. ASSUME NEW t \in Tasks, InputRequired(t) PROVE TaskType'
  BY <1>12 DEF InputRequired, Poison, Abort, Answered, Stay
<1>13. ASSUME NEW t \in Tasks, ErrorAnswer(t) PROVE TaskType'
  BY <1>13 DEF ErrorAnswer, Answered, Stay
<1>14. ASSUME NEW t \in Tasks, Violation(t) PROVE TaskType'
  BY <1>14 DEF Violation, Poison, Abort, Answered
<1>15. ASSUME NEW t \in Tasks, HeaderMismatch(t) PROVE TaskType'
  <2>1. CASE refreshed[t]
    BY <1>15, <2>1 DEF HeaderMismatch
  <2>2. CASE ~refreshed[t]
    <3>1. /\ pc' = [pc EXCEPT ![t] = "ready"] /\ req' = [req EXCEPT ![t] = "page"]
          /\ pages' = [pages EXCEPT ![t] = 0] /\ refreshed' = [refreshed EXCEPT ![t] = TRUE]
          /\ UNCHANGED <<op, attempts>>
      BY <1>15, <2>2 DEF HeaderMismatch
    <3>2. 0 \in 0..MaxPages
      OBVIOUS
    <3>3. QED
      BY <3>1, <3>2
  <2>3. QED
    BY <2>1, <2>2
<1>16. ASSUME NEW t \in Tasks, MorePages(t) PROVE TaskType'
  BY <1>16 DEF MorePages, Answered, Stay
<1>17. ASSUME NEW t \in Tasks, LastPage(t) PROVE TaskType'
  BY <1>17 DEF LastPage, Answered, Stay, SameSemantics
<1>18. ASSUME NEW t \in Tasks, LateAnswer(t) PROVE TaskType'
  BY <1>18 DEF LateAnswer
<1>19. ASSUME NEW t \in Tasks, Begin(t) PROVE TaskType'
  BY <1>19 DEF Begin, Stay
<1>20. ASSUME NEW t \in Tasks, Drop(t) PROVE TaskType'
  BY <1>20 DEF Drop, Poison, Abort, Holding
<1>21. ASSUME NEW t \in Tasks, Write(t) PROVE TaskType'
  BY <1>21 DEF Write, Refused
<1>22. ASSUME NEW t \in Tasks, WriteFails(t) PROVE TaskType'
  BY <1>22 DEF WriteFails, Refused
<1>23. ASSUME NEW t \in Tasks, ExchangeFails(t) PROVE TaskType'
  BY <1>23 DEF ExchangeFails, Refused
<1>24. CASE KillGroup
  BY <1>24 DEF KillGroup
<1>25. CASE ChildExits
  BY <1>25 DEF ChildExits
<1>26. CASE SupervisorReaps
  BY <1>26 DEF SupervisorReaps
<1>27. CASE ServiceStops
  BY <1>27 DEF ServiceStops, Abort, LoopEnds
<1>28. CASE StdoutCloses
  BY <1>28 DEF StdoutCloses, Abort, LoopEnds
<1>29. CASE BadFrame
  BY <1>29 DEF BadFrame, Abort
<1>30. CASE ServerChanges
  BY <1>30 DEF ServerChanges
<1>31. CASE ManagerShutdown
  BY <1>31 DEF ManagerShutdown, Shutdown
<1>32. CASE UNCHANGED vars
  BY <1>32 DEF vars
<1>33. QED
  BY <1>1, <1>2, <1>3, <1>4, <1>5, <1>6, <1>7, <1>8, <1>9, <1>10, <1>11, <1>12, <1>13, <1>14, <1>15, <1>16, <1>17, <1>18, <1>19, <1>20, <1>21, <1>22, <1>23, <1>24, <1>25, <1>26, <1>27, <1>28, <1>29, <1>30, <1>31, <1>32 DEF Next, TaskStep, Answer

\* Every step keeps the types of the requests and definitions.
LEMMA RestTypeStep == McpInv /\ [Next]_vars => RestType'
<1> SUFFICES ASSUME McpInv, [Next]_vars PROVE RestType'
  OBVIOUS
<1> USE McpAssumption DEF McpInv, TypeOK, ConnType, TaskType, RestType, Tasks, Loop, conn, proc, task, net, defs
<1>1. ASSUME NEW t \in Tasks, Acquire(t) PROVE RestType'
  BY <1>1 DEF Acquire, Stay
<1>2. ASSUME NEW t \in Tasks, LockTimeout(t) PROVE RestType'
  BY <1>2 DEF LockTimeout, Stay
<1>3. ASSUME NEW t \in Tasks, Send(t) PROVE RestType'
  BY <1>3 DEF Send, Poison, Abort, Stay, Exhausted
<1>4. ASSUME NEW t \in Tasks, Closed(t) PROVE RestType'
  BY <1>4 DEF Closed, Stay
<1>5. ASSUME NEW t \in Tasks, Fail(t) PROVE RestType'
  BY <1>5 DEF Fail, Poison, Abort, Stay
<1>6. ASSUME NEW t \in Tasks, Slept(t) PROVE RestType'
  BY <1>6 DEF Slept, Stay
<1>7. ASSUME NEW t \in Tasks, Expire(t) PROVE RestType'
  BY <1>7 DEF Expire, Poison, Abort
<1>8. ASSUME NEW t \in Tasks, Finish(t) PROVE RestType'
  BY <1>8 DEF Finish, Leave, Shutdown
<1>9. ASSUME NEW t \in Tasks, CloseWaited(t) PROVE RestType'
  BY <1>9 DEF CloseWaited, Stay, Leave
<1>10. ASSUME NEW t \in Tasks, Dropped(t) PROVE RestType'
  BY <1>10 DEF Dropped, Stay, Leave
<1>11. ASSUME NEW t \in Tasks, Complete(t) PROVE RestType'
  BY <1>11 DEF Complete, Answered, Stay
<1>12. ASSUME NEW t \in Tasks, InputRequired(t) PROVE RestType'
  BY <1>12 DEF InputRequired, Poison, Abort, Answered, Stay
<1>13. ASSUME NEW t \in Tasks, ErrorAnswer(t) PROVE RestType'
  BY <1>13 DEF ErrorAnswer, Answered, Stay
<1>14. ASSUME NEW t \in Tasks, Violation(t) PROVE RestType'
  BY <1>14 DEF Violation, Poison, Abort, Answered
<1>15. ASSUME NEW t \in Tasks, HeaderMismatch(t) PROVE RestType'
  BY <1>15 DEF HeaderMismatch, Answered, Stay
<1>16. ASSUME NEW t \in Tasks, MorePages(t) PROVE RestType'
  BY <1>16 DEF MorePages, Answered, Stay
<1>17. ASSUME NEW t \in Tasks, LastPage(t) PROVE RestType'
  BY <1>17 DEF LastPage, Answered, Stay, SameSemantics
<1>18. ASSUME NEW t \in Tasks, LateAnswer(t) PROVE RestType'
  BY <1>18 DEF LateAnswer
<1>19. ASSUME NEW t \in Tasks, Begin(t) PROVE RestType'
  BY <1>19 DEF Begin, Stay
<1>20. ASSUME NEW t \in Tasks, Drop(t) PROVE RestType'
  BY <1>20 DEF Drop, Poison, Abort, Holding
<1>21. ASSUME NEW t \in Tasks, Write(t) PROVE RestType'
  BY <1>21 DEF Write, Refused
<1>22. ASSUME NEW t \in Tasks, WriteFails(t) PROVE RestType'
  BY <1>22 DEF WriteFails, Refused
<1>23. ASSUME NEW t \in Tasks, ExchangeFails(t) PROVE RestType'
  BY <1>23 DEF ExchangeFails, Refused
<1>24. CASE KillGroup
  BY <1>24 DEF KillGroup
<1>25. CASE ChildExits
  BY <1>25 DEF ChildExits
<1>26. CASE SupervisorReaps
  BY <1>26 DEF SupervisorReaps
<1>27. CASE ServiceStops
  BY <1>27 DEF ServiceStops, Abort, LoopEnds
<1>28. CASE StdoutCloses
  BY <1>28 DEF StdoutCloses, Abort, LoopEnds
<1>29. CASE BadFrame
  BY <1>29 DEF BadFrame, Abort
<1>30. CASE ServerChanges
  BY <1>30 DEF ServerChanges
<1>31. CASE ManagerShutdown
  BY <1>31 DEF ManagerShutdown, Shutdown
<1>32. CASE UNCHANGED vars
  BY <1>32 DEF vars
<1>33. QED
  BY <1>1, <1>2, <1>3, <1>4, <1>5, <1>6, <1>7, <1>8, <1>9, <1>10, <1>11, <1>12, <1>13, <1>14, <1>15, <1>16, <1>17, <1>18, <1>19, <1>20, <1>21, <1>22, <1>23, <1>24, <1>25, <1>26, <1>27, <1>28, <1>29, <1>30, <1>31, <1>32 DEF Next, TaskStep, Answer

\* Every step keeps the mutex with its holder.
LEMMA MutexStep == McpInv /\ [Next]_vars => MutexInv'
<1> SUFFICES ASSUME McpInv, [Next]_vars PROVE MutexInv'
  OBVIOUS
<1> USE McpAssumption DEF McpInv, TypeOK, ConnType, TaskType, RestType, Tasks, Loop, conn, proc, task, net, defs, MutexInv, Held
<1>1. ASSUME NEW t \in Tasks, Acquire(t) PROVE MutexInv'
  BY <1>1 DEF Acquire, Stay
<1>2. ASSUME NEW t \in Tasks, LockTimeout(t) PROVE MutexInv'
  BY <1>2 DEF LockTimeout, Stay
<1>3. ASSUME NEW t \in Tasks, Send(t) PROVE MutexInv'
  BY <1>3 DEF Send, Poison, Abort, Stay, Exhausted
<1>4. ASSUME NEW t \in Tasks, Closed(t) PROVE MutexInv'
  BY <1>4 DEF Closed, Stay
<1>5. ASSUME NEW t \in Tasks, Fail(t) PROVE MutexInv'
  BY <1>5 DEF Fail, Poison, Abort, Stay
<1>6. ASSUME NEW t \in Tasks, Slept(t) PROVE MutexInv'
  BY <1>6 DEF Slept, Stay
<1>7. ASSUME NEW t \in Tasks, Expire(t) PROVE MutexInv'
  BY <1>7 DEF Expire, Poison, Abort
<1>8. ASSUME NEW t \in Tasks, Finish(t) PROVE MutexInv'
  BY <1>8 DEF Finish, Leave, Shutdown
<1>9. ASSUME NEW t \in Tasks, CloseWaited(t) PROVE MutexInv'
  BY <1>9 DEF CloseWaited, Stay, Leave
<1>10. ASSUME NEW t \in Tasks, Dropped(t) PROVE MutexInv'
  BY <1>10 DEF Dropped, Stay, Leave
<1>11. ASSUME NEW t \in Tasks, Complete(t) PROVE MutexInv'
  BY <1>11 DEF Complete, Answered, Stay
<1>12. ASSUME NEW t \in Tasks, InputRequired(t) PROVE MutexInv'
  BY <1>12 DEF InputRequired, Poison, Abort, Answered, Stay
<1>13. ASSUME NEW t \in Tasks, ErrorAnswer(t) PROVE MutexInv'
  BY <1>13 DEF ErrorAnswer, Answered, Stay
<1>14. ASSUME NEW t \in Tasks, Violation(t) PROVE MutexInv'
  BY <1>14 DEF Violation, Poison, Abort, Answered
<1>15. ASSUME NEW t \in Tasks, HeaderMismatch(t) PROVE MutexInv'
  BY <1>15 DEF HeaderMismatch, Answered, Stay
<1>16. ASSUME NEW t \in Tasks, MorePages(t) PROVE MutexInv'
  BY <1>16 DEF MorePages, Answered, Stay
<1>17. ASSUME NEW t \in Tasks, LastPage(t) PROVE MutexInv'
  BY <1>17 DEF LastPage, Answered, Stay, SameSemantics
<1>18. ASSUME NEW t \in Tasks, LateAnswer(t) PROVE MutexInv'
  BY <1>18 DEF LateAnswer
<1>19. ASSUME NEW t \in Tasks, Begin(t) PROVE MutexInv'
  BY <1>19 DEF Begin, Stay
<1>20. ASSUME NEW t \in Tasks, Drop(t) PROVE MutexInv'
  BY <1>20 DEF Drop, Poison, Abort, Holding
<1>21. ASSUME NEW t \in Tasks, Write(t) PROVE MutexInv'
  BY <1>21 DEF Write, Refused
<1>22. ASSUME NEW t \in Tasks, WriteFails(t) PROVE MutexInv'
  BY <1>22 DEF WriteFails, Refused
<1>23. ASSUME NEW t \in Tasks, ExchangeFails(t) PROVE MutexInv'
  BY <1>23 DEF ExchangeFails, Refused
<1>24. CASE KillGroup
  BY <1>24 DEF KillGroup
<1>25. CASE ChildExits
  BY <1>25 DEF ChildExits
<1>26. CASE SupervisorReaps
  BY <1>26 DEF SupervisorReaps
<1>27. CASE ServiceStops
  BY <1>27 DEF ServiceStops, Abort, LoopEnds
<1>28. CASE StdoutCloses
  BY <1>28 DEF StdoutCloses, Abort, LoopEnds
<1>29. CASE BadFrame
  BY <1>29 DEF BadFrame, Abort
<1>30. CASE ServerChanges
  BY <1>30 DEF ServerChanges
<1>31. CASE ManagerShutdown
  BY <1>31 DEF ManagerShutdown, Shutdown
<1>32. CASE UNCHANGED vars
  BY <1>32 DEF vars
<1>33. QED
  BY <1>1, <1>2, <1>3, <1>4, <1>5, <1>6, <1>7, <1>8, <1>9, <1>10, <1>11, <1>12, <1>13, <1>14, <1>15, <1>16, <1>17, <1>18, <1>19, <1>20, <1>21, <1>22, <1>23, <1>24, <1>25, <1>26, <1>27, <1>28, <1>29, <1>30, <1>31, <1>32 DEF Next, TaskStep, Answer

\* Every step keeps the requests where their callers are.
LEMMA RequestStep == McpInv /\ [Next]_vars => RequestInv'
<1> SUFFICES ASSUME McpInv, [Next]_vars PROVE RequestInv'
  OBVIOUS
<1> USE McpAssumption DEF McpInv, TypeOK, ConnType, TaskType, RestType, Tasks, Loop, conn, proc, task, net, defs, MutexInv, Held, RequestInv
<1>1. ASSUME NEW t \in Tasks, Acquire(t) PROVE RequestInv'
  BY <1>1 DEF Acquire, Stay
<1>2. ASSUME NEW t \in Tasks, LockTimeout(t) PROVE RequestInv'
  BY <1>2 DEF LockTimeout, Stay
<1>3. ASSUME NEW t \in Tasks, Send(t) PROVE RequestInv'
  BY <1>3 DEF Send, Poison, Abort, Stay, Exhausted
<1>4. ASSUME NEW t \in Tasks, Closed(t) PROVE RequestInv'
  BY <1>4 DEF Closed, Stay
<1>5. ASSUME NEW t \in Tasks, Fail(t) PROVE RequestInv'
  BY <1>5 DEF Fail, Poison, Abort, Stay
<1>6. ASSUME NEW t \in Tasks, Slept(t) PROVE RequestInv'
  BY <1>6 DEF Slept, Stay
<1>7. ASSUME NEW t \in Tasks, Expire(t) PROVE RequestInv'
  BY <1>7 DEF Expire, Poison, Abort
<1>8. ASSUME NEW t \in Tasks, Finish(t) PROVE RequestInv'
  BY <1>8 DEF Finish, Leave, Shutdown
<1>9. ASSUME NEW t \in Tasks, CloseWaited(t) PROVE RequestInv'
  BY <1>9 DEF CloseWaited, Stay, Leave
<1>10. ASSUME NEW t \in Tasks, Dropped(t) PROVE RequestInv'
  BY <1>10 DEF Dropped, Stay, Leave
<1>11. ASSUME NEW t \in Tasks, Complete(t) PROVE RequestInv'
  BY <1>11 DEF Complete, Answered, Stay
<1>12. ASSUME NEW t \in Tasks, InputRequired(t) PROVE RequestInv'
  BY <1>12 DEF InputRequired, Poison, Abort, Answered, Stay
<1>13. ASSUME NEW t \in Tasks, ErrorAnswer(t) PROVE RequestInv'
  BY <1>13 DEF ErrorAnswer, Answered, Stay
<1>14. ASSUME NEW t \in Tasks, Violation(t) PROVE RequestInv'
  BY <1>14 DEF Violation, Poison, Abort, Answered
<1>15. ASSUME NEW t \in Tasks, HeaderMismatch(t) PROVE RequestInv'
  BY <1>15 DEF HeaderMismatch, Answered, Stay
<1>16. ASSUME NEW t \in Tasks, MorePages(t) PROVE RequestInv'
  BY <1>16 DEF MorePages, Answered, Stay
<1>17. ASSUME NEW t \in Tasks, LastPage(t) PROVE RequestInv'
  BY <1>17 DEF LastPage, Answered, Stay, SameSemantics
<1>18. ASSUME NEW t \in Tasks, LateAnswer(t) PROVE RequestInv'
  BY <1>18 DEF LateAnswer
<1>19. ASSUME NEW t \in Tasks, Begin(t) PROVE RequestInv'
  BY <1>19 DEF Begin, Stay
<1>20. ASSUME NEW t \in Tasks, Drop(t) PROVE RequestInv'
  BY <1>20 DEF Drop, Poison, Abort, Holding
<1>21. ASSUME NEW t \in Tasks, Write(t) PROVE RequestInv'
  BY <1>21 DEF Write, Refused
<1>22. ASSUME NEW t \in Tasks, WriteFails(t) PROVE RequestInv'
  BY <1>22 DEF WriteFails, Refused
<1>23. ASSUME NEW t \in Tasks, ExchangeFails(t) PROVE RequestInv'
  BY <1>23 DEF ExchangeFails, Refused
<1>24. CASE KillGroup
  BY <1>24 DEF KillGroup
<1>25. CASE ChildExits
  BY <1>25 DEF ChildExits
<1>26. CASE SupervisorReaps
  BY <1>26 DEF SupervisorReaps
<1>27. CASE ServiceStops
  BY <1>27 DEF ServiceStops, Abort, LoopEnds
<1>28. CASE StdoutCloses
  BY <1>28 DEF StdoutCloses, Abort, LoopEnds
<1>29. CASE BadFrame
  BY <1>29 DEF BadFrame, Abort
<1>30. CASE ServerChanges
  BY <1>30 DEF ServerChanges
<1>31. CASE ManagerShutdown
  BY <1>31 DEF ManagerShutdown, Shutdown
<1>32. CASE UNCHANGED vars
  BY <1>32 DEF vars
<1>33. QED
  BY <1>1, <1>2, <1>3, <1>4, <1>5, <1>6, <1>7, <1>8, <1>9, <1>10, <1>11, <1>12, <1>13, <1>14, <1>15, <1>16, <1>17, <1>18, <1>19, <1>20, <1>21, <1>22, <1>23, <1>24, <1>25, <1>26, <1>27, <1>28, <1>29, <1>30, <1>31, <1>32 DEF Next, TaskStep, Answer

\* Every step keeps the written calls within the counted rounds.
LEMMA RoundStep == McpInv /\ [Next]_vars => RoundInv'
<1> SUFFICES ASSUME McpInv, [Next]_vars PROVE RoundInv'
  OBVIOUS
<1> USE McpAssumption DEF McpInv, TypeOK, ConnType, TaskType, RestType, Tasks, Loop, conn, proc, task, net, defs, RequestInv, RoundInv, Pending
<1>1. ASSUME NEW t \in Tasks, Acquire(t) PROVE RoundInv'
  BY <1>1 DEF Acquire, Stay
<1>2. ASSUME NEW t \in Tasks, LockTimeout(t) PROVE RoundInv'
  BY <1>2 DEF LockTimeout, Stay
<1>3. ASSUME NEW t \in Tasks, Send(t) PROVE RoundInv'
  BY <1>3 DEF Send, Poison, Abort, Stay, Exhausted
<1>4. ASSUME NEW t \in Tasks, Closed(t) PROVE RoundInv'
  BY <1>4 DEF Closed, Stay
<1>5. ASSUME NEW t \in Tasks, Fail(t) PROVE RoundInv'
  BY <1>5 DEF Fail, Poison, Abort, Stay
<1>6. ASSUME NEW t \in Tasks, Slept(t) PROVE RoundInv'
  BY <1>6 DEF Slept, Stay
<1>7. ASSUME NEW t \in Tasks, Expire(t) PROVE RoundInv'
  BY <1>7 DEF Expire, Poison, Abort
<1>8. ASSUME NEW t \in Tasks, Finish(t) PROVE RoundInv'
  BY <1>8 DEF Finish, Leave, Shutdown
<1>9. ASSUME NEW t \in Tasks, CloseWaited(t) PROVE RoundInv'
  BY <1>9 DEF CloseWaited, Stay, Leave
<1>10. ASSUME NEW t \in Tasks, Dropped(t) PROVE RoundInv'
  BY <1>10 DEF Dropped, Stay, Leave
<1>11. ASSUME NEW t \in Tasks, Complete(t) PROVE RoundInv'
  BY <1>11 DEF Complete, Answered, Stay
<1>12. ASSUME NEW t \in Tasks, InputRequired(t) PROVE RoundInv'
  BY <1>12 DEF InputRequired, Poison, Abort, Answered, Stay
<1>13. ASSUME NEW t \in Tasks, ErrorAnswer(t) PROVE RoundInv'
  BY <1>13 DEF ErrorAnswer, Answered, Stay
<1>14. ASSUME NEW t \in Tasks, Violation(t) PROVE RoundInv'
  BY <1>14 DEF Violation, Poison, Abort, Answered
<1>15. ASSUME NEW t \in Tasks, HeaderMismatch(t) PROVE RoundInv'
  BY <1>15 DEF HeaderMismatch, Answered, Stay
<1>16. ASSUME NEW t \in Tasks, MorePages(t) PROVE RoundInv'
  BY <1>16 DEF MorePages, Answered, Stay
<1>17. ASSUME NEW t \in Tasks, LastPage(t) PROVE RoundInv'
  BY <1>17 DEF LastPage, Answered, Stay, SameSemantics
<1>18. ASSUME NEW t \in Tasks, LateAnswer(t) PROVE RoundInv'
  BY <1>18 DEF LateAnswer
<1>19. ASSUME NEW t \in Tasks, Begin(t) PROVE RoundInv'
  BY <1>19 DEF Begin, Stay
<1>20. ASSUME NEW t \in Tasks, Drop(t) PROVE RoundInv'
  BY <1>20 DEF Drop, Poison, Abort, Holding
<1>21. ASSUME NEW t \in Tasks, Write(t) PROVE RoundInv'
  BY <1>21 DEF Write, Refused
<1>22. ASSUME NEW t \in Tasks, WriteFails(t) PROVE RoundInv'
  BY <1>22 DEF WriteFails, Refused
<1>23. ASSUME NEW t \in Tasks, ExchangeFails(t) PROVE RoundInv'
  BY <1>23 DEF ExchangeFails, Refused
<1>24. CASE KillGroup
  BY <1>24 DEF KillGroup
<1>25. CASE ChildExits
  BY <1>25 DEF ChildExits
<1>26. CASE SupervisorReaps
  BY <1>26 DEF SupervisorReaps
<1>27. CASE ServiceStops
  BY <1>27 DEF ServiceStops, Abort, LoopEnds
<1>28. CASE StdoutCloses
  BY <1>28 DEF StdoutCloses, Abort, LoopEnds
<1>29. CASE BadFrame
  BY <1>29 DEF BadFrame, Abort
<1>30. CASE ServerChanges
  BY <1>30 DEF ServerChanges
<1>31. CASE ManagerShutdown
  BY <1>31 DEF ManagerShutdown, Shutdown
<1>32. CASE UNCHANGED vars
  BY <1>32 DEF vars
<1>33. QED
  BY <1>1, <1>2, <1>3, <1>4, <1>5, <1>6, <1>7, <1>8, <1>9, <1>10, <1>11, <1>12, <1>13, <1>14, <1>15, <1>16, <1>17, <1>18, <1>19, <1>20, <1>21, <1>22, <1>23, <1>24, <1>25, <1>26, <1>27, <1>28, <1>29, <1>30, <1>31, <1>32 DEF Next, TaskStep, Answer

\* Every step keeps the group with its killer.
LEMMA GroupStep == McpInv /\ [Next]_vars => GroupInv'
<1> SUFFICES ASSUME McpInv, [Next]_vars PROVE GroupInv'
  OBVIOUS
<1> USE McpAssumption DEF McpInv, TypeOK, ConnType, TaskType, RestType, Tasks, Loop, conn, proc, task, net, defs, GroupInv
<1>1. ASSUME NEW t \in Tasks, Acquire(t) PROVE GroupInv'
  BY <1>1 DEF Acquire, Stay
<1>2. ASSUME NEW t \in Tasks, LockTimeout(t) PROVE GroupInv'
  BY <1>2 DEF LockTimeout, Stay
<1>3. ASSUME NEW t \in Tasks, Send(t) PROVE GroupInv'
  BY <1>3 DEF Send, Poison, Abort, Stay, Exhausted
<1>4. ASSUME NEW t \in Tasks, Closed(t) PROVE GroupInv'
  BY <1>4 DEF Closed, Stay
<1>5. ASSUME NEW t \in Tasks, Fail(t) PROVE GroupInv'
  BY <1>5 DEF Fail, Poison, Abort, Stay
<1>6. ASSUME NEW t \in Tasks, Slept(t) PROVE GroupInv'
  BY <1>6 DEF Slept, Stay
<1>7. ASSUME NEW t \in Tasks, Expire(t) PROVE GroupInv'
  BY <1>7 DEF Expire, Poison, Abort
<1>8. ASSUME NEW t \in Tasks, Finish(t) PROVE GroupInv'
  BY <1>8 DEF Finish, Leave, Shutdown
<1>9. ASSUME NEW t \in Tasks, CloseWaited(t) PROVE GroupInv'
  BY <1>9 DEF CloseWaited, Stay, Leave
<1>10. ASSUME NEW t \in Tasks, Dropped(t) PROVE GroupInv'
  BY <1>10 DEF Dropped, Stay, Leave
<1>11. ASSUME NEW t \in Tasks, Complete(t) PROVE GroupInv'
  BY <1>11 DEF Complete, Answered, Stay
<1>12. ASSUME NEW t \in Tasks, InputRequired(t) PROVE GroupInv'
  BY <1>12 DEF InputRequired, Poison, Abort, Answered, Stay
<1>13. ASSUME NEW t \in Tasks, ErrorAnswer(t) PROVE GroupInv'
  BY <1>13 DEF ErrorAnswer, Answered, Stay
<1>14. ASSUME NEW t \in Tasks, Violation(t) PROVE GroupInv'
  BY <1>14 DEF Violation, Poison, Abort, Answered
<1>15. ASSUME NEW t \in Tasks, HeaderMismatch(t) PROVE GroupInv'
  BY <1>15 DEF HeaderMismatch, Answered, Stay
<1>16. ASSUME NEW t \in Tasks, MorePages(t) PROVE GroupInv'
  BY <1>16 DEF MorePages, Answered, Stay
<1>17. ASSUME NEW t \in Tasks, LastPage(t) PROVE GroupInv'
  BY <1>17 DEF LastPage, Answered, Stay, SameSemantics
<1>18. ASSUME NEW t \in Tasks, LateAnswer(t) PROVE GroupInv'
  BY <1>18 DEF LateAnswer
<1>19. ASSUME NEW t \in Tasks, Begin(t) PROVE GroupInv'
  BY <1>19 DEF Begin, Stay
<1>20. ASSUME NEW t \in Tasks, Drop(t) PROVE GroupInv'
  BY <1>20 DEF Drop, Poison, Abort, Holding
<1>21. ASSUME NEW t \in Tasks, Write(t) PROVE GroupInv'
  BY <1>21 DEF Write, Refused
<1>22. ASSUME NEW t \in Tasks, WriteFails(t) PROVE GroupInv'
  BY <1>22 DEF WriteFails, Refused
<1>23. ASSUME NEW t \in Tasks, ExchangeFails(t) PROVE GroupInv'
  BY <1>23 DEF ExchangeFails, Refused
<1>24. CASE KillGroup
  BY <1>24 DEF KillGroup
<1>25. CASE ChildExits
  BY <1>25 DEF ChildExits
<1>26. CASE SupervisorReaps
  BY <1>26 DEF SupervisorReaps
<1>27. CASE ServiceStops
  BY <1>27 DEF ServiceStops, Abort, LoopEnds
<1>28. CASE StdoutCloses
  BY <1>28 DEF StdoutCloses, Abort, LoopEnds
<1>29. CASE BadFrame
  BY <1>29 DEF BadFrame, Abort
<1>30. CASE ServerChanges
  BY <1>30 DEF ServerChanges
<1>31. CASE ManagerShutdown
  BY <1>31 DEF ManagerShutdown, Shutdown
<1>32. CASE UNCHANGED vars
  BY <1>32 DEF vars
<1>33. QED
  BY <1>1, <1>2, <1>3, <1>4, <1>5, <1>6, <1>7, <1>8, <1>9, <1>10, <1>11, <1>12, <1>13, <1>14, <1>15, <1>16, <1>17, <1>18, <1>19, <1>20, <1>21, <1>22, <1>23, <1>24, <1>25, <1>26, <1>27, <1>28, <1>29, <1>30, <1>31, <1>32 DEF Next, TaskStep, Answer

\* Every step keeps discovery before the callers.
LEMMA ListStep == McpInv /\ [Next]_vars => ListInv'
<1> SUFFICES ASSUME McpInv, [Next]_vars PROVE ListInv'
  OBVIOUS
<1> USE McpAssumption DEF McpInv, TypeOK, ConnType, TaskType, RestType, Tasks, Loop, conn, proc, task, net, defs, ListInv, Before
<1>1. ASSUME NEW t \in Tasks, Acquire(t) PROVE ListInv'
  BY <1>1 DEF Acquire, Stay
<1>2. ASSUME NEW t \in Tasks, LockTimeout(t) PROVE ListInv'
  BY <1>2 DEF LockTimeout, Stay
<1>3. ASSUME NEW t \in Tasks, Send(t) PROVE ListInv'
  BY <1>3 DEF Send, Poison, Abort, Stay, Exhausted
<1>4. ASSUME NEW t \in Tasks, Closed(t) PROVE ListInv'
  BY <1>4 DEF Closed, Stay
<1>5. ASSUME NEW t \in Tasks, Fail(t) PROVE ListInv'
  BY <1>5 DEF Fail, Poison, Abort, Stay
<1>6. ASSUME NEW t \in Tasks, Slept(t) PROVE ListInv'
  BY <1>6 DEF Slept, Stay
<1>7. ASSUME NEW t \in Tasks, Expire(t) PROVE ListInv'
  BY <1>7 DEF Expire, Poison, Abort
<1>8. ASSUME NEW t \in Tasks, Finish(t) PROVE ListInv'
  BY <1>8 DEF Finish, Leave, Shutdown
<1>9. ASSUME NEW t \in Tasks, CloseWaited(t) PROVE ListInv'
  BY <1>9 DEF CloseWaited, Stay, Leave
<1>10. ASSUME NEW t \in Tasks, Dropped(t) PROVE ListInv'
  BY <1>10 DEF Dropped, Stay, Leave
<1>11. ASSUME NEW t \in Tasks, Complete(t) PROVE ListInv'
  BY <1>11 DEF Complete, Answered, Stay
<1>12. ASSUME NEW t \in Tasks, InputRequired(t) PROVE ListInv'
  BY <1>12 DEF InputRequired, Poison, Abort, Answered, Stay
<1>13. ASSUME NEW t \in Tasks, ErrorAnswer(t) PROVE ListInv'
  BY <1>13 DEF ErrorAnswer, Answered, Stay
<1>14. ASSUME NEW t \in Tasks, Violation(t) PROVE ListInv'
  BY <1>14 DEF Violation, Poison, Abort, Answered
<1>15. ASSUME NEW t \in Tasks, HeaderMismatch(t) PROVE ListInv'
  BY <1>15 DEF HeaderMismatch, Answered, Stay
<1>16. ASSUME NEW t \in Tasks, MorePages(t) PROVE ListInv'
  BY <1>16 DEF MorePages, Answered, Stay
<1>17. ASSUME NEW t \in Tasks, LastPage(t) PROVE ListInv'
  <2>1. CASE ~refreshed[t]
    <3>1. t = Discovery /\ pc' = [pc EXCEPT ![t] = "finish"] /\ listed'
          /\ UNCHANGED <<req, refreshed>>
      BY <1>17, <2>1 DEF LastPage, Answered
    <3>2. QED
      BY <3>1
  <2>2. CASE refreshed[t] /\ SameSemantics
    <3>1. t \in Callers /\ listed /\ t # Discovery
      BY <1>17, <2>2 DEF LastPage, Answered
    <3>2. /\ pc' = [pc EXCEPT ![t] = "ready"] /\ req' = [req EXCEPT ![t] = "call"]
          /\ UNCHANGED <<listed, refreshed>>
      BY <1>17, <2>2 DEF LastPage
    <3>3. QED
      BY <3>1, <3>2
  <2>3. CASE refreshed[t] /\ ~SameSemantics
    <3>1. pc' = [pc EXCEPT ![t] = "failed"] /\ UNCHANGED <<req, refreshed, listed, active>> /\ pc[t] = "awaiting"
      BY <1>17, <2>3 DEF LastPage, Answered
    <3>2. QED
      BY <3>1
  <2>4. QED
    BY <2>1, <2>2, <2>3
<1>18. ASSUME NEW t \in Tasks, LateAnswer(t) PROVE ListInv'
  BY <1>18 DEF LateAnswer
<1>19. ASSUME NEW t \in Tasks, Begin(t) PROVE ListInv'
  BY <1>19 DEF Begin, Stay
<1>20. ASSUME NEW t \in Tasks, Drop(t) PROVE ListInv'
  BY <1>20 DEF Drop, Poison, Abort, Holding
<1>21. ASSUME NEW t \in Tasks, Write(t) PROVE ListInv'
  BY <1>21 DEF Write, Refused
<1>22. ASSUME NEW t \in Tasks, WriteFails(t) PROVE ListInv'
  BY <1>22 DEF WriteFails, Refused
<1>23. ASSUME NEW t \in Tasks, ExchangeFails(t) PROVE ListInv'
  BY <1>23 DEF ExchangeFails, Refused
<1>24. CASE KillGroup
  BY <1>24 DEF KillGroup
<1>25. CASE ChildExits
  BY <1>25 DEF ChildExits
<1>26. CASE SupervisorReaps
  BY <1>26 DEF SupervisorReaps
<1>27. CASE ServiceStops
  BY <1>27 DEF ServiceStops, Abort, LoopEnds
<1>28. CASE StdoutCloses
  BY <1>28 DEF StdoutCloses, Abort, LoopEnds
<1>29. CASE BadFrame
  BY <1>29 DEF BadFrame, Abort
<1>30. CASE ServerChanges
  BY <1>30 DEF ServerChanges
<1>31. CASE ManagerShutdown
  BY <1>31 DEF ManagerShutdown, Shutdown
<1>32. CASE UNCHANGED vars
  BY <1>32 DEF vars
<1>33. QED
  BY <1>1, <1>2, <1>3, <1>4, <1>5, <1>6, <1>7, <1>8, <1>9, <1>10, <1>11, <1>12, <1>13, <1>14, <1>15, <1>16, <1>17, <1>18, <1>19, <1>20, <1>21, <1>22, <1>23, <1>24, <1>25, <1>26, <1>27, <1>28, <1>29, <1>30, <1>31, <1>32 DEF Next, TaskStep, Answer

\* The initial states satisfy the invariant.
LEMMA InitInv == Init => McpInv
<1> USE McpAssumption DEF Init, Tasks
<1>1. Init => TypeOK
  <2>1. Init => ConnType
    <3>1. ASSUME Init PROVE pgid \in BOOLEAN /\ group \in BOOLEAN /\ aborted \in BOOLEAN /\ poisoned \in BOOLEAN
      BY <3>1, Zenon
    <3>2. ASSUME Init PROVE child \in {"none", "up", "dead", "reaped"}
      BY <3>2
    <3>3. QED
      BY <3>1, <3>2 DEF ConnType
  <2>2. Init => TaskType
    <3>1. 0 \in 0..MaxRounds /\ 0 \in 0..MaxPages
      OBVIOUS
    <3>2. QED
      BY <3>1 DEF TaskType
  <2>3. Init => RestType
    <3>1. [hdr |-> 0, sem |-> 0] \in Definition
      BY DEF Definition
    <3>2. ASSUME Init PROVE listed \in BOOLEAN /\ queue \subseteq Tasks /\ wire \subseteq Tasks
      BY <3>2
    <3>3. ASSUME Init PROVE calls \in [Tasks -> Nat] /\ active = NoDef /\ server \in Definition
      BY <3>1, <3>3
    <3>4. QED
      BY <3>2, <3>3 DEF RestType
  <2>4. QED
    BY <2>1, <2>2, <2>3 DEF TypeOK, ConnType, TaskType, RestType
<1>2. Init => MutexInv /\ RequestInv
  BY DEF MutexInv, Held, RequestInv
<1>3. Init => RoundInv /\ GroupInv
  BY DEF RoundInv, Pending, GroupInv
<1>4. Init => ListInv
  BY DEF ListInv, Before
<1>5. QED
  BY <1>1, <1>2, <1>3, <1>4 DEF McpInv

\* Hence the invariant holds in every reachable state.
LEMMA Invariance == Spec => []McpInv
<1>1. McpInv /\ [Next]_vars => McpInv'
  BY ConnTypeStep, TaskTypeStep, RestTypeStep, MutexStep, RequestStep, RoundStep, GroupStep, ListStep
     DEF McpInv, TypeOK, ConnType, TaskType, RestType
<1>2. QED
  BY InitInv, <1>1, PTL DEF Spec

\* The types hold, with the page and round counters within their caps.
THEOREM McpTypeCorrect == Spec => []TypeOK
<1>1. McpInv => TypeOK
  BY DEF McpInv
<1>2. QED
  BY Invariance, <1>1, PTL

\* A tool call is written at most MaxRounds times.
THEOREM McpRounds == Spec => []RoundsBounded
<1>1. McpInv => RoundsBounded
  <2>1. SUFFICES ASSUME McpInv, NEW t \in Tasks PROVE calls[t] <= MaxRounds
    BY DEF RoundsBounded
  <2>2. calls[t] + Pending(t) <= attempts[t] /\ attempts[t] \in 0..MaxRounds /\ calls[t] \in Nat
    BY <2>1 DEF McpInv, RoundInv, TypeOK, TaskType, RestType
  <2>3. Pending(t) \in {0, 1}
    BY DEF Pending
  <2>4. QED
    BY <2>2, <2>3, McpAssumption
<1>2. QED
  BY Invariance, <1>1, PTL

\* A confirmed reaping with no kill owed leaves no process of the group.
THEOREM McpGroup == Spec => []GroupGone
<1>1. McpInv => GroupGone
  BY DEF McpInv, GroupInv, GroupGone
<1>2. QED
  BY Invariance, <1>1, PTL

\* Only a write on a healthy connection adds a request to the wire.
LEMMA OneAtATime == McpInv /\ [Next]_vars => (wire' \ wire # {} => wire = {})
<1> SUFFICES ASSUME McpInv, [Next]_vars, wire' \ wire # {} PROVE wire = {}
  OBVIOUS
<1>1. PICK t \in Tasks : Write(t)
  <2>1. ASSUME NEW t \in Tasks, TaskStep(t) \/ Answer(t) \/ Begin(t) \/ Drop(t) \/ WriteFails(t) \/ ExchangeFails(t)
        PROVE wire' \subseteq wire
    BY <2>1 DEF TaskStep, Answer, net, Answered, Acquire, LockTimeout, Send, Closed, Fail, Slept, Expire, Finish, CloseWaited, Dropped, Complete, InputRequired, ErrorAnswer, Violation, HeaderMismatch, MorePages, LastPage, LateAnswer, Begin, Drop, WriteFails, ExchangeFails
  <2>2. ASSUME KillGroup \/ ChildExits \/ SupervisorReaps \/ ServiceStops \/ StdoutCloses \/ BadFrame \/ ServerChanges \/ ManagerShutdown \/ UNCHANGED vars
        PROVE wire' \subseteq wire
    BY <2>2 DEF vars, net, LoopEnds, KillGroup, ChildExits, SupervisorReaps, ServiceStops, StdoutCloses, BadFrame, ServerChanges, ManagerShutdown
  <2>3. QED
    BY <2>1, <2>2 DEF Next
<1>2. service = "up" /\ ~poisoned /\ t \in queue
  BY <1>1 DEF Write
<1>3. \A u \in queue \cup wire : u \in Tasks /\ pc[u] = "awaiting"
  BY <1>2 DEF McpInv, RequestInv, TypeOK, RestType
<1>4. \A u \in queue \cup wire : u = t
  BY <1>2, <1>3 DEF McpInv, MutexInv, Held
<1>5. QED
  BY <1>2, <1>4 DEF McpInv, RequestInv

\* Requests never overlap on the server, whatever callers are dropped or late.
THEOREM McpNoOverlap == Spec => NoOverlap
BY Invariance, OneAtATime, PTL DEF Spec, NoOverlap

\* Only the last page of a listing changes the committed definition.
LEMMA Pinned == McpInv /\ [Next]_vars => (active # NoDef => active'.sem = active.sem)
<1> SUFFICES ASSUME McpInv, [Next]_vars, active # NoDef PROVE active'.sem = active.sem
  OBVIOUS
<1>1. ASSUME NEW t \in Tasks, LastPage(t) PROVE active'.sem = active.sem
  <2>1. listed /\ pc[t] = "awaiting" /\ req[t] = "page"
    BY <1>1 DEF McpInv, ListInv, LastPage, Answered
  <2>2. t # Discovery /\ refreshed[t]
    BY <2>1, McpAssumption DEF McpInv, ListInv, Before, Tasks
  <2>3. QED
    BY <1>1, <2>2 DEF LastPage, SameSemantics
<1>2. ASSUME NEW t \in Tasks, ~LastPage(t), TaskStep(t) \/ Answer(t) \/ Begin(t) \/ Drop(t)
                              \/ Write(t) \/ WriteFails(t) \/ ExchangeFails(t)
      PROVE active' = active
  BY <1>2 DEF TaskStep, Answer, defs, Acquire, LockTimeout, Send, Closed, Fail, Slept, Expire, Finish, CloseWaited, Dropped, Complete, InputRequired, ErrorAnswer, Violation, HeaderMismatch, MorePages, LateAnswer, Begin, Drop, Write, WriteFails, ExchangeFails
<1>3. ASSUME KillGroup \/ ChildExits \/ SupervisorReaps \/ ServiceStops \/ StdoutCloses \/ BadFrame \/ ServerChanges \/ ManagerShutdown \/ UNCHANGED vars
      PROVE active' = active
  BY <1>3 DEF vars, defs, LoopEnds, KillGroup, ChildExits, SupervisorReaps, ServiceStops, StdoutCloses, BadFrame, ServerChanges, ManagerShutdown
<1>4. QED
  BY <1>1, <1>2, <1>3 DEF Next

\* No refresh changes a tool's definition beyond its header plan.
THEOREM McpPinned == Spec => DefinitionPinned
BY Invariance, Pinned, PTL DEF Spec, DefinitionPinned
=============================================================================
