------------------------------ MODULE MCEvents ------------------------------
(*****************************************************************************)
(*  Small instances of the events of a run: the journal with its writer and  *)
(*  its readers, and the event bus with its in-memory replay.                *)
(*  A behaviour is of one component: part names the instance at work.  While *)
(*  it is one of the journal the bus stays in its initial state, and while   *)
(*  it is the bus the variables of the journal are Off.                      *)
(*****************************************************************************)
EXTENDS EventBus

CONSTANTS Off, c1, s1, s2

VARIABLES
    part,  \* which component the behaviour is of
    eventsBus, queue, writer, monitor, run, journal, stamp, horizon, stored, client, faults,
    others, drops

eventsVars == <<eventsBus, queue, writer, monitor, run, journal, stamp, horizon, stored,
    client, faults, others, drops>>

\* Batches, retries and faults of the writer; nobody reads.
Writer == INSTANCE RunEvents
    WITH Clients <- {}, MaxPerRun <- 2, MaxTotal <- 3, PruneBatch <- 1, MaxEvict <- 2,
         PageMax <- 1, QueueMax <- 2, ByteSlots <- 3, BatchMax <- 2, BatchBytes <- 2,
         MaxAttempts <- 2, MaxReadFails <- 2, MaxEmits <- 3, MaxOthers <- 0, MaxFaults <- 2,
         MaxDrops <- 0, bus <- eventsBus
ASSUME Writer!JournalLimits
ASSUME Writer!ProducerLimits

\* The journal at its limits, beside another run's events.
Capacity == INSTANCE RunEvents
    WITH Clients <- {}, MaxPerRun <- 2, MaxTotal <- 3, PruneBatch <- 1, MaxEvict <- 2,
         PageMax <- 1, QueueMax <- 1, ByteSlots <- 2, BatchMax <- 2, BatchBytes <- 1,
         MaxAttempts <- 2, MaxReadFails <- 2, MaxEmits <- 3, MaxOthers <- 1, MaxFaults <- 0,
         MaxDrops <- 0, bus <- eventsBus
ASSUME Capacity!JournalLimits
ASSUME Capacity!ProducerLimits

\* A client that pages while the journal evicts.
Reader == INSTANCE RunEvents
    WITH Clients <- {c1}, MaxPerRun <- 2, MaxTotal <- 3, PruneBatch <- 1, MaxEvict <- 2,
         PageMax <- 1, QueueMax <- 1, ByteSlots <- 1, BatchMax <- 1, BatchBytes <- 1,
         MaxAttempts <- 1, MaxReadFails <- 2, MaxEmits <- 3, MaxOthers <- 0, MaxFaults <- 0,
         MaxDrops <- 0, bus <- eventsBus
ASSUME Reader!JournalLimits
ASSUME Reader!ProducerLimits

\* A client that is dropped and comes back with its cursor.
Cursor == INSTANCE RunEvents
    WITH Clients <- {c1}, MaxPerRun <- 2, MaxTotal <- 3, PruneBatch <- 1, MaxEvict <- 2,
         PageMax <- 1, QueueMax <- 1, ByteSlots <- 1, BatchMax <- 1, BatchBytes <- 1,
         MaxAttempts <- 1, MaxReadFails <- 2, MaxEmits <- 2, MaxOthers <- 0, MaxFaults <- 0,
         MaxDrops <- 1, bus <- eventsBus
ASSUME Cursor!JournalLimits
ASSUME Cursor!ProducerLimits

\* The bus: a run stream and a conversation stream that compete for one permit.
ASSUME BusLimits

EventsOff == /\ eventsBus = Off /\ queue = Off /\ writer = Off /\ monitor = Off /\ run = Off
             /\ journal = Off /\ stamp = Off /\ horizon = Off /\ stored = Off
             /\ client = Off /\ faults = Off /\ others = Off /\ drops = Off

PartInit ==
    /\ Init
    /\ \/ part = "writer" /\ Writer!Init
       \/ part = "capacity" /\ Capacity!Init
       \/ part = "reader" /\ Reader!Init
       \/ part = "cursor" /\ Cursor!Init
       \/ part = "streams" /\ EventsOff

PartNext ==
    /\ \/ part = "writer" /\ Writer!Next /\ UNCHANGED vars
       \/ part = "capacity" /\ Capacity!Next /\ UNCHANGED vars
       \/ part = "reader" /\ Reader!Next /\ UNCHANGED vars
       \/ part = "cursor" /\ Cursor!Next /\ UNCHANGED vars
       \/ part = "streams" /\ Next /\ UNCHANGED eventsVars
    /\ UNCHANGED part

PartSpec == PartInit /\ [][PartNext]_<<part, eventsVars, vars>>
-----------------------------------------------------------------------------
\* A flush that says persisted is true, nothing follows run_complete, a journal that
\* is complete has no hole, a client hears of everything up to its last id that it does
\* not get, and the ids it sees increase over its reconnects (eventbus.rs, run_events).
RunEventsSound ==
    /\ [](part = "writer" =>
           /\ Writer!TypeOK /\ Writer!FlushMeansStored /\ Writer!NothingAfterTerminal)
    /\ [](part = "capacity" => Capacity!PagesAreValid /\ Capacity!CompleteMeansNoHole)
    /\ [](part = "reader" => Reader!NoSilentLoss /\ Reader!GapsAreLost)
    /\ [](part = "cursor" => Cursor!NoSilentLoss /\ Cursor!GapsAreLost)
    /\ [][part = "cursor" => Cursor!IdsIncrease]_eventsVars
=============================================================================
