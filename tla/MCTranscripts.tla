--------------------------- MODULE MCTranscripts ----------------------------
(****************************************************************************)
(*  Small instances of what Lua handles keep beyond a call: the transcripts *)
(*  of a dialog of several agents and of a conversation with one, which     *)
(*  they save, and the connection to an MCP server.                         *)
(*  A behaviour is of one component: part names the instance at work.  The  *)
(*  variables of the others are Off, and those of the MCP client, which the *)
(*  module extends, in an initial state.                                    *)
(****************************************************************************)
EXTENDS McpClient, Sequences, TLC

CONSTANTS Off, Absent, h1, h2, g1, g2

\* The two handles of the sharing and of the chats instance are interchangeable.
Symmetry == Permutations({h1, h2})

VARIABLES
    part,  \* which component the behaviour is of
    open, dialogNext, transcript, stopped, announced, revision, running, frames, job,
    stored, completions, dialogSeen, told, cut,
    record, chatPc, log, rev, inc, cand, localNext, writes, turns, records, cancels, localSeen,
    reported, forgotten, gone

dialogVars == <<open, dialogNext, transcript, stopped, announced, revision, running, frames,
    job, stored, completions, dialogSeen, told, cut>>
localVars == <<record, chatPc, log, rev, inc, cand, localNext, writes, turns, records, cancels,
    localSeen, reported, forgotten, gone>>

\* One handle, both callbacks re-entering it, tool rounds, resume.
Turns == INSTANCE Dialog
    WITH Handles <- {g1}, Agents <- 2, Bytes <- 5, Base <- 1, Sizes <- {2},
         AutosaveKey <- "true", MaxTurns <- 3, MaxHistory <- 1, MaxToolRounds <- 1,
         Selector <- TRUE, ShouldStop <- TRUE, MaxDepth <- 2, Deletes <- TRUE,
         MaxRevision <- 2, NoRecord <- Absent, next <- dialogNext, seen <- dialogSeen
ASSUME Turns!DialogAssumption

\* Two runs share one dialog: resume, cancellation, late saves.
Sharing == INSTANCE Dialog
    WITH Handles <- {h1, h2}, Agents <- 2, Bytes <- 5, Base <- 1, Sizes <- {2},
         AutosaveKey <- "true", MaxTurns <- 2, MaxHistory <- 2, MaxToolRounds <- 0,
         Selector <- FALSE, ShouldStop <- FALSE, MaxDepth <- 1, Deletes <- TRUE,
         MaxRevision <- 2, NoRecord <- Absent, next <- dialogNext, seen <- dialogSeen
ASSUME Sharing!DialogAssumption

\* Two handles of one conversation that both save, with cancelled turns.
Chats == INSTANCE LocalConversation
    WITH Handles <- {h1, h2}, Autosave <- {h1, h2}, MaxTurns <- 2, MaxRecords <- 2,
         MaxRevision <- 2, MaxCancels <- 1, pc <- chatPc, next <- localNext, seen <- localSeen
ASSUME Chats!AutosaveAssumption

\* One that saves each turn beside one that saves when told to.
Stale == INSTANCE LocalConversation
    WITH Handles <- {g1, g2}, Autosave <- {g1}, MaxTurns <- 1, MaxRecords <- 2,
         MaxRevision <- 2, MaxCancels <- 1, pc <- chatPc, next <- localNext, seen <- localSeen
ASSUME Stale!AutosaveAssumption

DialogOff == /\ open = Off /\ dialogNext = Off /\ transcript = Off /\ stopped = Off
             /\ announced = Off /\ revision = Off /\ running = Off /\ frames = Off
             /\ job = Off /\ stored = Off /\ completions = Off /\ dialogSeen = Off
             /\ told = Off /\ cut = Off
LocalOff == /\ record = Off /\ chatPc = Off /\ log = Off /\ rev = Off /\ inc = Off /\ cand = Off
            /\ localNext = Off /\ writes = Off /\ turns = Off /\ records = Off
            /\ cancels = Off /\ localSeen = Off /\ reported = Off /\ forgotten = Off
            /\ gone = Off

PartInit ==
    /\ Init
    /\ \/ part = "mcp"
       \/ part = "dialog" /\ Turns!Init
       \/ part = "shared" /\ Sharing!Init
       \/ part = "chat" /\ Chats!Init
       \/ part = "stale" /\ Stale!Init
    /\ part # "mcp" => Http
    /\ part \notin {"dialog", "shared"} => DialogOff
    /\ part \notin {"chat", "stale"} => LocalOff

PartNext ==
    /\ \/ part = "mcp" /\ Next
       \/ part = "dialog" /\ Turns!Next
       \/ part = "shared" /\ Sharing!Next
       \/ part = "chat" /\ Chats!Next
       \/ part = "stale" /\ Stale!Next
    /\ UNCHANGED part
    /\ part # "mcp" => UNCHANGED vars
    /\ part \notin {"dialog", "shared"} => UNCHANGED dialogVars
    /\ part \notin {"chat", "stale"} => UNCHANGED localVars

PartSpec == PartInit /\ [][PartNext]_<<part, vars, dialogVars, localVars>>
-----------------------------------------------------------------------------
\* Through re-entrant callbacks, cancellation and late saves a dialog's transcript
\* stays resumable, its speakers alternate, a turn reported under autosave is stored,
\* its end is announced once, and a save builds on a record its handle has seen
\* (dialog.rs).  The exceptions: the turn too many that is taken back at the end of a
\* dialog may leave no turn to save, and a handle whose record was deleted may meet
\* the revisions of the next one.
DialogSound ==
    /\ [](part = "dialog" =>
           /\ Turns!TypeOK /\ Turns!HistoryResumable /\ Turns!PromptWithinBudget
           /\ Turns!CompletedOnce /\ Turns!ReportedTurnIsStored)
    /\ [](part = "shared" => Sharing!SpeakersAlternate)
    /\ [][part = "shared" => Sharing!SaveBuildsOnSeen]_dialogVars

\* A turn a handle shows or reports has been stored when it saves each turn, and no
\* handle overwrites a record it has not read, though callers are lost during a save
\* and records are deleted meanwhile (lua/conversation.rs).  An incarnation that such
\* a late save brought back after it was deleted is the exception; that it may come
\* back contradicts the guide, which DeletedStaysGone states.
ConversationSound ==
    /\ [](part = "chat" => Chats!TypeOK /\ Chats!VisibleWasStored /\ Chats!ReportedIsStored)
    /\ [][part = "chat" => Chats!NoBlindOverwrite]_localVars
    /\ [](part = "stale" => Stale!ReportedIsStored)
    /\ [][part = "stale" => Stale!NoBlindOverwrite]_localVars
=============================================================================
