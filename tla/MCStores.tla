------------------------------ MODULE MCStores ------------------------------
(****************************************************************************)
(*  Small instances of what keeps a process's runs and turns: SqliteStore,  *)
(*  whose operations are transactions, JsonStore, whose operations are      *)
(*  sequences of file writes, and the locks PostgreSQL's transactions take. *)
(*  A behaviour is of one component: part names the instance at work.  The  *)
(*  variables of the other stores are Off, and those of the locks, which    *)
(*  the module extends, in their initial state.                             *)
(****************************************************************************)
EXTENDS LockOrder, TLC

CONSTANTS Off, NoKey, Nobody, a1, a2, a3, k1, k2, k3, k4, i1, i2, p1, p2, t1, t2, c1

Two == {a1, a2}
Three == {a1, a2, a3}
TwoKeys == {k1, k2}

\* A turn, its retry with the same key, and a turn that recovers from it.
TurnKeys == a1 :> k1 @@ a2 :> k1 @@ a3 :> k2
AllTurns == [t \in Three |-> "message"]
TurnAcks == a1 :> NoKey @@ a2 :> NoKey @@ a3 :> k1

\* A turn, and one that recovers from it.
ChainKeys == a1 :> k1 @@ a2 :> k2
ChainAcks == a1 :> NoKey @@ a2 :> k1

\* A keyed run, its retry, and another's run or one without a key.
RetryKeys == a1 :> k1 @@ a2 :> k1 @@ a3 :> k2
BareKeys == a1 :> k1 @@ a2 :> k1 @@ a3 :> NoKey
AllRuns == [t \in Three |-> "run"]
NoAcks == [t \in Three |-> NoKey]

OnePrincipal == [t \in Three |-> p1]
TwoPrincipals == a1 :> p1 @@ a2 :> p1 @@ a3 :> p2
SameBody == [t \in Three |-> "same"]
TwoInstances == a1 :> i1 @@ a2 :> i2 @@ a3 :> i1

VARIABLES
    part,  \* which component the behaviour is of
    sqlLedger, sqlRun, sqlConv, sqlPc, sqlBase, committed, superseded,
    jsonLedger, jsonRun, jsonConv, plan, jsonPc, jsonBase, forgotten, deleted, crashes,
    fails

sqlVars == <<sqlLedger, sqlRun, sqlConv, sqlPc, sqlBase, committed, superseded>>
jsonVars == <<jsonLedger, jsonRun, jsonConv, plan, jsonPc, jsonBase, forgotten, deleted,
    crashes, fails>>

\* Keys k1 and k2 claim a run each, k3 and k4 turns of one conversation.
ResourceOf(K) == [k \in K |-> CASE k = k1 -> 1 [] k = k2 -> 2 [] OTHER -> c1]
CallerOf(K) == [k \in K |-> p1]

EveryKind == {"claim", "mark", "commit", "prune", "beat", "runbeat", "intent", "finish",
              "status", "cancel", "register", "answer", "close", "ownbeat", "reconcile", "drain",
              "append", "read", "remove", "retain", "save"}
ChatKinds == {"claim", "mark", "commit", "prune", "beat", "reconcile", "save"}
LedgerKinds == {"claim", "prune", "drain", "beat", "runbeat", "finish"}
JournalKinds == {"append", "reconcile", "read", "remove", "retain", "ownbeat"}

\* Every two transactions over a run and a conversation: the module's own constants.
PairsResource == ResourceOf(Keys)
PairsCaller == CallerOf(Keys)
PairsPrograms == Programs
ASSUME ResourceAssumption
ASSUME CallerAssumption

\* The connections of a pool are interchangeable.
Symmetry == Permutations({t1, t2})

\* Two messages to one conversation.
Talks == INSTANCE LockOrder
    WITH Runs <- {}, Keys <- {k3, k4}, Resource <- ResourceOf({k3, k4}),
         Caller <- CallerOf({k3, k4}), Kinds <- ChatKinds
TalksPrograms == Talks!Programs

\* Two runs with a key each.
Ledger == INSTANCE LockOrder
    WITH Runs <- {1, 2}, Keys <- {k1, k2}, Resource <- ResourceOf({k1, k2}),
         Caller <- CallerOf({k1, k2}), Kinds <- LedgerKinds
LedgerPrograms == Ledger!Programs

\* Three runs, the fewest whose journal states an eviction and a reconciler can lock in
\* opposite orders.
Journal == INSTANCE LockOrder
    WITH Runs <- {1, 2, 3}, Keys <- {}, Resource <- ResourceOf({}),
         Caller <- CallerOf({}), Kinds <- JournalKinds
JournalPrograms == Journal!Programs

\* Three turns of one conversation; the third acknowledges the hazard of the first.
SqlTurns == INSTANCE SqliteStore
    WITH Attempt <- Three, Key <- TwoKeys, KeyOf <- TurnKeys, OpOf <- AllTurns,
         PrincipalOf <- OnePrincipal, BodyOf <- SameBody, InstOf <- TwoInstances,
         Acks <- TurnAcks, TTL <- 1, Retention <- 1, MaxRecords <- 2, MaxPerPrincipal <- 2,
         MaxInFlight <- 1, MaxBodies <- 2, MaxBodiesPer <- 1, PruneBatch <- 1,
         MaxRevision <- 2, ledger <- sqlLedger, run <- sqlRun, conv <- sqlConv, pc <- sqlPc,
         base <- sqlBase
ASSUME SqlTurns!SqliteBounds

\* A turn, and one that recovers from it.
SqlHazards == INSTANCE SqliteStore
    WITH Attempt <- Two, Key <- TwoKeys, KeyOf <- ChainKeys, OpOf <- AllTurns,
         PrincipalOf <- OnePrincipal, BodyOf <- SameBody, InstOf <- TwoInstances,
         Acks <- ChainAcks, TTL <- 1, Retention <- 2, MaxRecords <- 2, MaxPerPrincipal <- 2,
         MaxInFlight <- 1, MaxBodies <- 2, MaxBodiesPer <- 1, PruneBatch <- 1,
         MaxRevision <- 2, ledger <- sqlLedger, run <- sqlRun, conv <- sqlConv, pc <- sqlPc,
         base <- sqlBase
ASSUME SqlHazards!SqliteBounds

\* A keyed run, a retry of it on another instance, and another principal's run.
SqlRuns == INSTANCE SqliteStore
    WITH Attempt <- Three, Key <- TwoKeys, KeyOf <- RetryKeys, OpOf <- AllRuns,
         PrincipalOf <- TwoPrincipals, BodyOf <- SameBody, InstOf <- TwoInstances,
         Acks <- NoAcks, TTL <- 1, Retention <- 1, MaxRecords <- 2, MaxPerPrincipal <- 2,
         MaxInFlight <- 1, MaxBodies <- 1, MaxBodiesPer <- 1, PruneBatch <- 1,
         MaxRevision <- 0, ledger <- sqlLedger, run <- sqlRun, conv <- sqlConv, pc <- sqlPc,
         base <- sqlBase
ASSUME SqlRuns!SqliteBounds

\* Two runs of one principal, which may have one in flight.
SqlQuotas == INSTANCE SqliteStore
    WITH Attempt <- Two, Key <- TwoKeys, KeyOf <- ChainKeys, OpOf <- AllRuns,
         PrincipalOf <- OnePrincipal, BodyOf <- SameBody, InstOf <- TwoInstances,
         Acks <- NoAcks, TTL <- 1, Retention <- 1, MaxRecords <- 2, MaxPerPrincipal <- 2,
         MaxInFlight <- 1, MaxBodies <- 2, MaxBodiesPer <- 1, PruneBatch <- 1,
         MaxRevision <- 0, ledger <- sqlLedger, run <- sqlRun, conv <- sqlConv, pc <- sqlPc,
         base <- sqlBase
ASSUME SqlQuotas!SqliteBounds

\* A turn and its retry, the restarted process keeping its instance id.
FileTurns == INSTANCE JsonStore
    WITH Attempt <- Two, Key <- {k1}, KeyOf <- TurnKeys, OpOf <- AllTurns, Acks <- NoAcks,
         TTL <- 1, Retention <- 2, MaxRecords <- 2, MaxInFlight <- 2, MaxBodies <- 1,
         PruneBatch <- 1, MaxRevision <- 2, MaxIncarnation <- 2, MaxCrash <- 1,
         MaxFail <- 1, SameId <- TRUE, ledger <- jsonLedger,
         run <- jsonRun, conv <- jsonConv, pc <- jsonPc, base <- jsonBase
ASSUME FileTurns!JsonBounds

\* A turn and one that recovers from it.
FileRecovery == INSTANCE JsonStore
    WITH Attempt <- Two, Key <- TwoKeys, KeyOf <- ChainKeys, OpOf <- AllTurns, Acks <- ChainAcks,
         TTL <- 1, Retention <- 2, MaxRecords <- 2, MaxInFlight <- 2, MaxBodies <- 1,
         PruneBatch <- 1, MaxRevision <- 3, MaxIncarnation <- 1, MaxCrash <- 1,
         MaxFail <- 1, SameId <- FALSE, ledger <- jsonLedger,
         run <- jsonRun, conv <- jsonConv, pc <- jsonPc, base <- jsonBase
ASSUME FileRecovery!JsonBounds

\* A keyed run, its retry, and a run without a key.
FileRuns == INSTANCE JsonStore
    WITH Attempt <- Three, Key <- TwoKeys, KeyOf <- BareKeys, OpOf <- AllRuns, Acks <- NoAcks,
         TTL <- 1, Retention <- 1, MaxRecords <- 2, MaxInFlight <- 2, MaxBodies <- 1,
         PruneBatch <- 1, MaxRevision <- 0, MaxIncarnation <- 0, MaxCrash <- 1,
         MaxFail <- 0, SameId <- FALSE, ledger <- jsonLedger,
         run <- jsonRun, conv <- jsonConv, pc <- jsonPc, base <- jsonBase
ASSUME FileRuns!JsonBounds

\* A keyed run and its retry, with a failing write.
FileFailures == INSTANCE JsonStore
    WITH Attempt <- Two, Key <- {k1}, KeyOf <- BareKeys, OpOf <- AllRuns, Acks <- NoAcks,
         TTL <- 1, Retention <- 1, MaxRecords <- 2, MaxInFlight <- 2, MaxBodies <- 1,
         PruneBatch <- 1, MaxRevision <- 0, MaxIncarnation <- 0, MaxCrash <- 1,
         MaxFail <- 1, SameId <- FALSE, ledger <- jsonLedger,
         run <- jsonRun, conv <- jsonConv, pc <- jsonPc, base <- jsonBase
ASSUME FileFailures!JsonBounds

SqlOff == /\ sqlLedger = Off /\ sqlRun = Off /\ sqlConv = Off /\ sqlPc = Off
          /\ sqlBase = Off /\ committed = Off /\ superseded = Off
JsonOff == /\ jsonLedger = Off /\ jsonRun = Off /\ jsonConv = Off /\ plan = Off
           /\ jsonPc = Off /\ jsonBase = Off /\ forgotten = Off /\ deleted = Off
           /\ crashes = Off /\ fails = Off

LockParts == {"pairs", "talks", "ledger", "journal"}
SqlParts == {"turns", "hazards", "runs", "quotas"}
JsonParts == {"files", "recovery", "records", "failures"}

PartInit ==
    /\ Init
    /\ \/ part \in LockParts
       \/ part = "turns" /\ SqlTurns!Init
       \/ part = "hazards" /\ SqlHazards!Init
       \/ part = "runs" /\ SqlRuns!Init
       \/ part = "quotas" /\ SqlQuotas!Init
       \/ part = "files" /\ FileTurns!Init
       \/ part = "recovery" /\ FileRecovery!Init
       \/ part = "records" /\ FileRuns!Init
       \/ part = "failures" /\ FileFailures!Init
    /\ part \notin SqlParts => SqlOff
    /\ part \notin JsonParts => JsonOff

PartNext ==
    /\ \/ part = "pairs" /\ NextOf(PairsPrograms)
       \/ part = "talks" /\ Talks!NextOf(TalksPrograms)
       \/ part = "ledger" /\ Ledger!NextOf(LedgerPrograms)
       \/ part = "journal" /\ Journal!NextOf(JournalPrograms)
       \/ part = "turns" /\ SqlTurns!Next
       \/ part = "hazards" /\ SqlHazards!Next
       \/ part = "runs" /\ SqlRuns!Next
       \/ part = "quotas" /\ SqlQuotas!Next
       \/ part = "files" /\ FileTurns!Next
       \/ part = "recovery" /\ FileRecovery!Next
       \/ part = "records" /\ FileRuns!Next
       \/ part = "failures" /\ FileFailures!Next
    /\ UNCHANGED part
    /\ part \notin LockParts => UNCHANGED vars
    /\ part \notin SqlParts => UNCHANGED sqlVars
    /\ part \notin JsonParts => UNCHANGED jsonVars

PartSpec == PartInit /\ [][PartNext]_<<part, vars, sqlVars, jsonVars>>
-----------------------------------------------------------------------------
\* Whatever order the transactions land in, however late: a claimed turn pins its
\* conversation, a superseded one never commits, the record, body and in-flight
\* limits hold, and a run's ledger row follows its record (sqlite_store.rs).
SqliteStoreSound ==
    /\ [](part = "turns" => SqlTurns!ClaimPinsConversation /\ SqlTurns!QuotasHold)
    /\ [][part = "turns" => SqlTurns!SupersededNeverCommits]_sqlVars
    /\ [](part = "hazards" => SqlHazards!ClaimPinsConversation /\ SqlHazards!QuotasHold)
    /\ [][part = "hazards" => SqlHazards!SupersededNeverCommits]_sqlVars
    /\ [](part = "runs" => SqlRuns!LedgerFollowsRun /\ SqlRuns!QuotasHold)
    /\ [](part = "quotas" => SqlQuotas!LedgerFollowsRun /\ SqlQuotas!QuotasHold)

\* Whichever file write a crash follows, or an error before or after it took effect: a
\* completed turn's transcript is on disk, a key runs one turn, one turn is in flight,
\* and a terminal record stays.  Whatever crashes, an answer names a run that exists;
\* with failing writes too, except one whose intent was refused (run_history.rs).
JsonStoreSound ==
    /\ [](part = "files" => FileTurns!CompletedTurnIsStored /\ FileTurns!TurnOnce)
    /\ [](part = "recovery" => FileRecovery!OneTurnInFlight)
    /\ [](part = "records" => FileRuns!TypeOK /\ FileRuns!AnsweredRunExists)
    /\ [][part = "records" => FileRuns!TerminalStays]_jsonVars
    /\ [](part = "failures" => FileFailures!OnlyRefusedIntentsLack)
    /\ [][part = "failures" => FileFailures!TerminalStays]_jsonVars

\* Keyed runs whose file writes may fail, on their own.
FailingSpec == PartInit /\ part = "failures" /\ [][PartNext]_<<part, vars, sqlVars, jsonVars>>

\* The comment in reconcile_abandoned_runs: no request is answered with an id that can
\* only return 404.
ReplayNamesRun == part = "failures" => FileFailures!AnsweredRunExists
=============================================================================
