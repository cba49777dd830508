------------------------------- MODULE Dialog -------------------------------
(***************************************************************************)
(* A persistent multi-agent dialog (lua/dialog.rs) and its stored record.  *)
(* A handle is one AgentDialog opened by one run; several runs may open    *)
(* the same (flow_path, id).  A script drives a handle through dialog:run, *)
(* next_turn, next_turn_from, reset, save and delete, one call at a time,  *)
(* but the turn_selector and should_stop callbacks may call the dialog     *)
(* again while a turn is under way: `frames' is the stack of those calls.  *)
(* A save runs in a worker that survives the cancellation of its caller.   *)
(***************************************************************************)
EXTENDS Integers, Sequences, FiniteSets, Functions

CONSTANTS
    Handles,        \* the handles that may be opened on the dialog
    Agents,         \* number of participants
    MaxTurns,       \* max_turns
    MaxHistory,     \* max_history
    Bytes,          \* history_max_bytes
    Base,           \* bytes of the system prompt and the starter
    Sizes,          \* bytes a reply or a tool round may add
    MaxToolRounds,  \* max_tool_rounds
    Selector,       \* whether a turn_selector callback is given
    ShouldStop,     \* whether a should_stop callback is given
    AutosaveKey,    \* the `autosave' key: "absent", "true" or "false"
    MaxDepth,       \* bound on calls nested through callbacks
    Deletes,        \* whether scripts call dialog:delete and dialog:reset
    MaxRevision,    \* bound on the revisions explored
    NoRecord        \* no stored record, no pending save

\* What build_dialog accepts.
ValidOptions ==
    /\ Agents \in Nat \ {0, 1} /\ MaxTurns \in Nat \ {0}
    /\ MaxHistory \in Nat \ {0}
    /\ AutosaveKey \in {"absent", "true", "false"}

\* new_or_resume: the prompt without any turn fits the budget.
BaseFits == Bytes \in Nat /\ Base \in 0..Bytes

DialogAssumption ==
    /\ ValidOptions /\ BaseFits
    /\ Sizes \subseteq Nat \ {0} /\ MaxToolRounds \in Nat
    /\ MaxDepth \in Nat \ {0} /\ MaxRevision \in Nat

VARIABLES
    open,        \* open[h]: the handle exists in a live run
    next,        \* next[h]: next_index
    transcript,  \* transcript[h]: the turns kept in memory
    stopped,     \* stopped[h]
    announced,   \* announced[h]: completed_emitted
    revision,    \* revision[h]: the revision the next save expects
    running,     \* running[h]: the script is inside dialog:run
    frames,      \* frames[h]: the calls under way, innermost last
    job,         \* job[h]: the record handed to the store, or NoRecord
    stored,      \* the record in the store, or NoRecord
    completions, \* completions[h]: dialog_completed events (history)
    seen,        \* seen[h]: the record h last read or wrote (history)
    told,        \* told[h]: turns reported to the script (history)
    cut          \* handles whose record was deleted since they saw it (history)

memory == <<next, transcript, stopped, announced>>
vars == <<open, next, transcript, stopped, announced, revision, running,
          frames, job, stored, completions, seen, told, cut>>

Turn == [index : Nat, speaker : 0..Agents - 1, size : Sizes, by : Handles]

Weight(turns) == FoldFunction(LAMBDA t, sum : t.size + sum, 0, turns)

\* validate_transcript: a bounded, contiguous run of turns ending at next.
ValidTranscript(turns, n) ==
    /\ Len(turns) <= MaxHistory
    /\ Weight(turns) <= Bytes
    /\ n <= MaxTurns
    /\ turns = <<>> => n = 0
    /\ \A i \in DOMAIN turns : turns[i].index = n - Len(turns) + i - 1

Suffix(turns, k) == SubSeq(turns, k, Len(turns))

\* The longest suffix that satisfies Fits: what popping from the front until
\* it does leaves behind.
LongestSuffix(turns, Fits(_)) ==
    LET good == {k \in 1..Len(turns) + 1 : Fits(Suffix(turns, k))}
    IN  Suffix(turns, CHOOSE k \in good : \A j \in good : k <= j)

\* The trimming loop of execute_turn.
Trim(turns) ==
    LongestSuffix(turns,
        LAMBDA t : Len(t) <= MaxHistory /\ Weight(t) <= Bytes)

\* mlua converts a missing key to FALSE before unwrap_or is reached.
LuaBool(key) == key = "true"

Autosave == LuaBool(AutosaveKey)

\* has_turns_remaining
Remaining(h) == ~stopped[h] /\ next[h] < MaxTurns

\* round_robin_speaker, with starting_speaker 0.
RoundRobin(h) == next[h] % Agents

Top(h) == frames[h][Len(frames[h])]

At(h, pc) == frames[h] # <<>> /\ Top(h).pc = pc

InCallback(h) == At(h, "select") \/ At(h, "stop")

\* The script, or a callback of a turn under way, may call the dialog.
MayCall(h) ==
    /\ open[h]
    /\ \/ frames[h] = <<>> /\ ~running[h]
       \/ InCallback(h) /\ Len(frames[h]) < MaxDepth

Frame(pc, auto) ==
    [pc |-> pc, index |-> 0, speaker |-> 0, prompt |-> <<>>, active |-> 0,
     rounds |-> 0, turn |-> FALSE, auto |-> auto]

SetTop(h, f) == [frames EXCEPT ![h][Len(frames[h])] = f]

Pop(h) == [frames EXCEPT ![h] = SubSeq(@, 1, Len(@) - 1)]

\* dialog:run goes on only after a turn that was returned; the flag belongs
\* to the outermost call.
RunGoesOn(h, ok) == running[h] /\ (Len(frames[h]) > 1 \/ ok)

TypeOK ==
    /\ open \in [Handles -> BOOLEAN]
    /\ next \in [Handles -> 0..MaxTurns]
    /\ \A h \in Handles :
        /\ \A i \in DOMAIN transcript[h] : transcript[h][i] \in Turn
        /\ \A i \in DOMAIN frames[h] :
            frames[h][i].pc \in {"select", "call", "stop", "save", "saving"}
    /\ stopped \in [Handles -> BOOLEAN]
    /\ announced \in [Handles -> BOOLEAN]
    /\ revision \in [Handles -> 0..MaxRevision]

Init ==
    /\ open = [h \in Handles |-> FALSE]
    /\ next = [h \in Handles |-> 0]
    /\ transcript = [h \in Handles |-> <<>>]
    /\ stopped = [h \in Handles |-> FALSE]
    /\ announced = [h \in Handles |-> FALSE]
    /\ revision = [h \in Handles |-> 0]
    /\ running = [h \in Handles |-> FALSE]
    /\ frames = [h \in Handles |-> <<>>]
    /\ job = [h \in Handles |-> NoRecord]
    /\ stored = NoRecord
    /\ completions = [h \in Handles |-> 0]
    /\ seen = [h \in Handles |-> NoRecord]
    /\ told = [h \in Handles |-> 0]
    /\ cut = {}

(***************************************************************************)
(* Opening and closing                                                     *)
(***************************************************************************)

\* get_dialog_state: the record, or what a fresh dialog starts from.
Resumed ==
    IF stored # NoRecord THEN stored
    ELSE [rev |-> 0, next |-> 0, transcript |-> <<>>, stopped |-> FALSE]

\* delete_dialog_state
DeleteRecord == stored' = NoRecord

\* new_or_resume: a stored record that does not validate fails the call.
Open(h) ==
    /\ ~open[h] /\ job[h] = NoRecord
    /\ stored # NoRecord => ValidTranscript(stored.transcript, stored.next)
    /\ next' = [next EXCEPT ![h] = Resumed.next]
    /\ transcript' = [transcript EXCEPT ![h] = Resumed.transcript]
    /\ stopped' = [stopped EXCEPT ![h] = Resumed.stopped]
    /\ revision' = [revision EXCEPT ![h] = Resumed.rev]
    /\ open' = [open EXCEPT ![h] = TRUE]
    /\ announced' = [announced EXCEPT ![h] = FALSE]
    /\ completions' = [completions EXCEPT ![h] = 0]
    /\ seen' = [seen EXCEPT ![h] = stored]
    /\ told' = [told EXCEPT ![h] = 0]
    /\ cut' = cut \ {h}
    /\ UNCHANGED <<running, frames, job, stored>>

\* The run ends, is cancelled or dies at any await: the handle is dropped,
\* a save already handed to the store is not.
Close(h) ==
    /\ open[h]
    /\ open' = [open EXCEPT ![h] = FALSE]
    /\ next' = [next EXCEPT ![h] = 0]
    /\ transcript' = [transcript EXCEPT ![h] = <<>>]
    /\ stopped' = [stopped EXCEPT ![h] = FALSE]
    /\ announced' = [announced EXCEPT ![h] = FALSE]
    /\ revision' = [revision EXCEPT ![h] = 0]
    /\ running' = [running EXCEPT ![h] = FALSE]
    /\ frames' = [frames EXCEPT ![h] = <<>>]
    /\ completions' = [completions EXCEPT ![h] = 0]
    /\ seen' = [seen EXCEPT ![h] = IF job[h] = NoRecord THEN NoRecord ELSE @]
    /\ told' = [told EXCEPT ![h] = 0]
    /\ cut' = IF job[h] = NoRecord THEN cut \ {h} ELSE cut
    /\ UNCHANGED <<job, stored>>

\* The process dies with the save, or PostgreSQL rolls its transaction back.
JobLost(h) ==
    /\ ~open[h] /\ job[h] # NoRecord
    /\ job' = [job EXCEPT ![h] = NoRecord]
    /\ UNCHANGED <<open, memory, revision, running, frames, stored,
                   completions, seen, told, cut>>

(***************************************************************************)
(* Starting a turn                                                         *)
(***************************************************************************)

\* build_messages: the newest turns that fit beside the base prompt.
PromptFits(turns) == Base + Weight(turns) <= Bytes

Prompt(h) == LongestSuffix(transcript[h], PromptFits)

\* execute_turn up to the first provider call; the newest turn must fit.
CallFrame(h, speaker) ==
    [Frame("call", TRUE) EXCEPT !.index = next[h], !.speaker = speaker,
                                !.prompt = Prompt(h)]

NewestFits(h) == transcript[h] # <<>> => Prompt(h) # <<>>

\* run_all
RunAll(h) ==
    /\ open[h] /\ frames[h] = <<>> /\ ~running[h]
    /\ running' = [running EXCEPT ![h] = TRUE]
    /\ UNCHANGED <<open, memory, revision, frames, job, stored, completions,
                   seen, told, cut>>

\* run_one_turn returns None at once: dialog:run ends.
NoTurnLeft(h) ==
    /\ open[h] /\ frames[h] = <<>> /\ running[h] /\ ~Remaining(h)
    /\ running' = [running EXCEPT ![h] = FALSE]
    /\ UNCHANGED <<open, memory, revision, frames, job, stored, completions,
                   seen, told, cut>>

\* run_one_turn, from dialog:run or dialog:next_turn.
RunOneTurn(h) ==
    /\ \/ MayCall(h)
       \/ open[h] /\ running[h] /\ frames[h] = <<>>
    /\ Remaining(h)
    /\ \/ /\ Selector
          /\ frames' = [frames EXCEPT ![h] = Append(@, Frame("select", TRUE))]
          /\ UNCHANGED running
       \/ /\ ~Selector /\ NewestFits(h)
          /\ frames' = [frames EXCEPT
                            ![h] = Append(@, CallFrame(h, RoundRobin(h)))]
          /\ UNCHANGED running
       \/ /\ ~Selector /\ ~NewestFits(h)
          /\ running' = [running EXCEPT ![h] = @ /\ frames[h] # <<>>]
          /\ UNCHANGED frames
    /\ UNCHANGED <<open, memory, revision, job, stored, completions, seen,
                   told, cut>>

\* run_turn_for
RunTurnFor(h, speaker) ==
    /\ MayCall(h) /\ Selector /\ Remaining(h) /\ NewestFits(h)
    /\ frames' = [frames EXCEPT ![h] = Append(@, CallFrame(h, speaker))]
    /\ UNCHANGED <<open, memory, revision, running, job, stored, completions,
                   seen, told, cut>>

\* select_speaker returns: the turn starts on what next_index is now.
Selected(h, speaker) ==
    /\ At(h, "select") /\ NewestFits(h)
    /\ frames' = SetTop(h, CallFrame(h, speaker))
    /\ UNCHANGED <<open, memory, revision, running, job, stored, completions,
                   seen, told, cut>>

\* An error leaves the call: a callback fails or names no agent, a prompt or
\* a tool round does not fit, the provider fails, the rounds run out.
Fails(h) ==
    /\ At(h, "select") \/ At(h, "call") \/ At(h, "stop")
    /\ frames' = Pop(h)
    /\ running' = [running EXCEPT ![h] = RunGoesOn(h, FALSE)]
    /\ UNCHANGED <<open, memory, revision, job, stored, completions, seen,
                   told, cut>>

(***************************************************************************)
(* The tool loop and the reply                                             *)
(***************************************************************************)

\* enforce_dialog_working_history: older turns go, the tool group stays.
WorkingHistory(prompt, active) ==
    LongestSuffix(prompt,
        LAMBDA t : Base + Weight(t) + active <= Bytes)

\* One round of tool calls and results; one that cannot fit is Fails.
ToolRound(h, size) ==
    /\ At(h, "call")
    /\ Top(h).rounds < MaxToolRounds
    /\ Base + Top(h).active + size <= Bytes
    /\ frames' = SetTop(h, [Top(h) EXCEPT
                    !.active = @ + size, !.rounds = @ + 1,
                    !.prompt = WorkingHistory(@, Top(h).active + size)])
    /\ UNCHANGED <<open, memory, revision, running, job, stored, completions,
                   seen, told, cut>>

\* dialog_completed, guarded by completed_emitted.
Announce(h) ==
    /\ announced' = [announced EXCEPT ![h] = TRUE]
    /\ completions' = [completions EXCEPT ![h] =
                            IF announced[h] THEN @ ELSE @ + 1]

\* stop_with_reason
StopWithReason(h) ==
    /\ stopped' = [stopped EXCEPT ![h] = TRUE]
    /\ Announce(h)

AfterTurn == IF ShouldStop THEN "stop" ELSE "save"

\* The end of execute_turn.  The turn is pushed and the history trimmed; a
\* transcript that does not validate loses the turn again and the call fails.
Reply(h, size) ==
    /\ At(h, "call") /\ size <= Bytes
    /\ LET f == Top(h)
           turn == [index |-> f.index, speaker |-> f.speaker, size |-> size,
                    by |-> h]
           kept == Trim(Append(transcript[h], turn))
           ok == ValidTranscript(kept, f.index + 1)
       IN  /\ next[h] = f.index
           /\ transcript' = [transcript EXCEPT ![h] =
                    IF ok THEN kept ELSE SubSeq(kept, 1, Len(kept) - 1)]
           /\ next' = [next EXCEPT ![h] = IF ok THEN @ + 1 ELSE @]
           /\ frames' = IF ok
                        THEN SetTop(h, [f EXCEPT !.pc = AfterTurn,
                                                 !.turn = TRUE])
                        ELSE Pop(h)
           /\ running' = [running EXCEPT ![h] =
                            IF ok THEN @ ELSE RunGoesOn(h, FALSE)]
           /\ IF ok /\ f.index + 1 >= MaxTurns
              THEN Announce(h)
              ELSE UNCHANGED <<announced, completions>>
    /\ UNCHANGED <<open, stopped, revision, job, stored, seen, told, cut>>

\* A blank final reply stops the dialog and is no turn.
BlankReply(h) ==
    /\ At(h, "call")
    /\ StopWithReason(h)
    /\ frames' = SetTop(h, [Top(h) EXCEPT !.pc = "save"])
    /\ UNCHANGED <<open, next, transcript, revision, running, job, stored,
                   seen, told, cut>>

\* maybe_stop_after_turn
MaybeStop(h) ==
    /\ At(h, "stop")
    /\ frames' = SetTop(h, [Top(h) EXCEPT !.pc = "save"])
    /\ \/ StopWithReason(h)
       \/ UNCHANGED <<stopped, announced, completions>>
    /\ UNCHANGED <<open, next, transcript, revision, running, job, stored,
                   seen, told, cut>>

(***************************************************************************)
(* Saving and returning                                                    *)
(***************************************************************************)

\* What the call reports: a turn still in the dialog, by its number.
Told(h, f) ==
    told' = [told EXCEPT ![h] =
                IF f.turn /\ f.index < next[h] /\ @ < f.index + 1
                THEN f.index + 1 ELSE @]

\* autosave_if_enabled is off: the call returns without a save.
ReturnUnsaved(h) ==
    /\ At(h, "save") /\ Top(h).auto /\ ~Autosave
    /\ frames' = Pop(h)
    /\ running' = [running EXCEPT ![h] = RunGoesOn(h, Top(h).turn)]
    /\ Told(h, Top(h))
    /\ UNCHANGED <<open, memory, revision, job, stored, completions, seen, cut>>

\* persist: the record is built under the locks and handed to the store; a
\* transcript that does not validate fails the call.
Persist(h) ==
    /\ At(h, "save") /\ (Top(h).auto => Autosave)
    /\ IF ValidTranscript(transcript[h], next[h])
       THEN /\ job' = [job EXCEPT ![h] =
                    [rev |-> revision[h], next |-> next[h],
                     transcript |-> transcript[h], stopped |-> stopped[h]]]
            /\ frames' = SetTop(h, [Top(h) EXCEPT !.pc = "saving"])
            /\ UNCHANGED running
       ELSE /\ frames' = Pop(h)
            /\ running' = [running EXCEPT ![h] = RunGoesOn(h, FALSE)]
            /\ UNCHANGED job
    /\ UNCHANGED <<open, memory, revision, stored, completions, seen, told, cut>>

\* save_dialog_state compares the stored revision with the expected one.
RevisionMatches(h) ==
    \/ stored = NoRecord /\ job[h].rev = 0
    \/ stored # NoRecord /\ stored.rev = job[h].rev

\* A conflict that is logged instead of returned.
SwallowConflict(h) ==
    /\ job[h] # NoRecord
    /\ LET ok == RevisionMatches(h)
           new == [job[h] EXCEPT !.rev = @ + 1]
           live == At(h, "saving")
       IN  /\ ok => new.rev <= MaxRevision
           /\ stored' = IF ok THEN new ELSE stored
           /\ revision' = [revision EXCEPT ![h] =
                                IF ok /\ live THEN new.rev ELSE @]
           /\ seen' = [seen EXCEPT ![h] = IF ok THEN new ELSE @]
           /\ cut' = IF ok THEN cut \ {h} ELSE cut
           /\ frames' = IF live THEN Pop(h) ELSE frames
           /\ running' = [running EXCEPT ![h] =
                                RunGoesOn(h, live /\ Top(h).turn)]
           /\ IF live THEN Told(h, Top(h)) ELSE UNCHANGED told
    /\ job' = [job EXCEPT ![h] = NoRecord]
    /\ UNCHANGED <<open, memory, completions>>

\* The store's transaction; a live handle takes the new revision, or fails
\* with the conflict.
SaveDialogState(h) ==
    /\ job[h] # NoRecord
    /\ LET ok == RevisionMatches(h)
           new == [job[h] EXCEPT !.rev = @ + 1]
           live == At(h, "saving")
       IN  /\ ok => new.rev <= MaxRevision
           /\ stored' = IF ok THEN new ELSE stored
           /\ revision' = [revision EXCEPT ![h] =
                                IF ok /\ live THEN new.rev ELSE @]
           /\ seen' = [seen EXCEPT ![h] = IF ok THEN new ELSE @]
           /\ cut' = IF ok THEN cut \ {h} ELSE cut
           /\ frames' = IF live THEN Pop(h) ELSE frames
           /\ running' = [running EXCEPT ![h] =
                                RunGoesOn(h, ok /\ live /\ Top(h).turn)]
           /\ IF ok /\ live THEN Told(h, Top(h)) ELSE UNCHANGED told
    /\ job' = [job EXCEPT ![h] = NoRecord]
    /\ UNCHANGED <<open, memory, completions>>

\* dialog:save
Save(h) ==
    /\ MayCall(h)
    /\ frames' = [frames EXCEPT ![h] = Append(@, Frame("save", FALSE))]
    /\ UNCHANGED <<open, memory, revision, running, job, stored, completions,
                   seen, told, cut>>

\* dialog:reset clears the turns and leaves the stop state as it is.
Reset(h) ==
    /\ MayCall(h) /\ Deletes
    /\ next' = [next EXCEPT ![h] = 0]
    /\ transcript' = [transcript EXCEPT ![h] = <<>>]
    /\ told' = [told EXCEPT ![h] = 0]
    /\ UNCHANGED <<open, stopped, announced, revision, running, frames, job,
                   stored, completions, seen, cut>>

\* dialog:delete leaves the handle and its revision as they are.
Delete(h) ==
    /\ MayCall(h) /\ Deletes
    /\ DeleteRecord
    /\ told' = [g \in Handles |-> 0]
    /\ cut' = cut \cup {g \in Handles : seen[g] # NoRecord}
    /\ UNCHANGED <<open, memory, revision, running, frames, job, completions,
                   seen>>

Step(h) ==
    \/ NoTurnLeft(h)
    \/ \E s \in 0..Agents - 1 : Selected(h, s)
    \/ Fails(h)
    \/ \E n \in Sizes : ToolRound(h, n) \/ Reply(h, n)
    \/ BlankReply(h) \/ MaybeStop(h)
    \/ ReturnUnsaved(h) \/ Persist(h) \/ SaveDialogState(h)

Next ==
    \E h \in Handles :
        \/ Open(h) \/ Close(h) \/ JobLost(h)
        \/ RunAll(h) \/ RunOneTurn(h)
        \/ \E s \in 0..Agents - 1 : RunTurnFor(h, s)
        \/ Step(h)
        \/ Save(h) \/ Reset(h) \/ Delete(h)

Spec == Init /\ [][Next]_vars

(***************************************************************************)
(* Properties                                                              *)
(***************************************************************************)

\* validate_transcript never refuses what persist stored, so every saved dialog can
\* be resumed, nor what execute_turn built, also when a callback re-enters the dialog
\* at its last turn; but there the turn too many that execute_turn takes back may
\* have pushed the whole history out, and leaves a finished dialog nobody can save.
HistoryResumable ==
    /\ \A h \in Handles :
        open[h] => \/ ValidTranscript(transcript[h], next[h])
                   \/ transcript[h] = <<>> /\ next[h] = MaxTurns
    /\ stored # NoRecord => ValidTranscript(stored.transcript, stored.next)

\* What execute_turn sends to a provider stays in the history budget through
\* every tool round.
PromptWithinBudget ==
    \A h \in Handles : \A i \in DOMAIN frames[h] :
        LET f == frames[h][i] IN
        f.pc = "call" => Base + Weight(f.prompt) + f.active <= Bytes

\* A handle announces dialog_completed at most once, and has announced it
\* when it is idle at the end of a dialog it advanced, whichever of
\* max_turns, should_stop, a blank reply and a reset came first.
CompletedOnce ==
    \A h \in Handles :
        /\ completions[h] <= 1
        /\ open[h] /\ frames[h] = <<>> /\ told[h] > 0 /\ ~Remaining(h)
            => completions[h] = 1

\* Without a turn_selector the speakers alternate by turn number, however
\* the history was trimmed and whichever run resumed the dialog.
SpeakersAlternate ==
    ~Selector =>
        \A h \in Handles : \A i \in DOMAIN transcript[h] :
            transcript[h][i].speaker = transcript[h][i].index % Agents

\* A turn that next_turn or run reported as done is in the store, for the scripts that
\* ask for it with autosave = true.  docs/crews.md has it saved unless the script says
\* autosave = false, but a script without the key is not saved either: LuaBool.
ReportedTurnIsStored ==
    Autosave =>
        \A h \in Handles :
            told[h] > 0 => stored # NoRecord /\ stored.next >= told[h]

\* save_dialog_state replaces only the record its handle last read or wrote:
\* no save, late or from another run, overwrites turns it never saw.  A handle whose
\* record was deleted is not held to it: revisions start again with the next record.
SaveBuildsOnSeen ==
    \A h \in Handles \ cut :
     job[h] # NoRecord /\ job'[h] = NoRecord /\ stored' # stored
         => stored = seen[h]

\* dialog:run comes to an end.
DialogEnds == \A h \in Handles : running[h] ~> ~running[h]
=============================================================================
