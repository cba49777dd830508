------------------------------ MODULE Foreach -------------------------------
(***************************************************************************)
(* execute_foreach_task: src/src/engine/foreach.rs.  The items of a JSON   *)
(* array are executed one after another, or as an ordered buffer of at     *)
(* most max_concurrent futures; each output is counted against the byte    *)
(* limit before it is retained.                                            *)
(***************************************************************************)
EXTENDS Integers, Sequences, FiniteSets

CONSTANTS
    MaxLen,         \* bound: items of the source
    MaxItems,       \* IRONCREW_FOREACH_MAX_ITEMS
    MaxConcurrent,  \* the crew's concurrency limit
    Lengths,        \* encoded lengths of an item's output
    MaxOutputBytes, \* IRONCREW_FOREACH_MAX_OUTPUT_BYTES
    Fields,         \* lengths of the pieces of an item's context
    MaxFieldChars,  \* IRONCREW_MAX_PROMPT_CHARS
    Marker          \* length of the truncation marker

LimitsAssumption ==
    /\ MaxConcurrent \in Nat \ {0} /\ MaxFieldChars \in Nat \ {0}
    /\ MaxOutputBytes \in Nat /\ Lengths \subseteq Nat \ {0, 1}

-----------------------------------------------------------------------------
(* BoundedText: text assembled under a limit of characters.  Only its length *)
(* is kept: what is retained is always a prefix of what was pushed, so that  *)
(* the number of characters says which.                                      *)

Sat(n) == IF n < 0 THEN 0 ELSE n
Least(a, b) == IF a < b THEN a ELSE b

NewText == [chars |-> 0, truncated |-> FALSE]

\* BoundedText::push: nothing follows a truncation.
Push(text, len, max) ==
    IF text.truncated \/ len = 0 THEN text
    ELSE [chars |-> text.chars + Least(len, Sat(max - text.chars)),
          truncated |-> len > Sat(max - text.chars)]

\* The text assembled from the pieces of a sequence of lengths.
PushAll(pieces, max) ==
    LET after[i \in 0 .. Len(pieces)] ==
            IF i = 0 THEN NewText ELSE Push(after[i - 1], pieces[i], max)
    IN  after[Len(pieces)]

\* BoundedText::finish makes room for the marker, as much of it as fits.
FinishText(text, max, marker) ==
    IF ~text.truncated THEN [kept |-> text.chars, marker |-> 0]
    ELSE LET kept == Least(text.chars, Sat(max - marker))
         IN  [kept |-> kept, marker |-> Least(marker, max - kept)]

Total(pieces) ==
    LET sum[i \in 0 .. Len(pieces)] ==
            IF i = 0 THEN 0 ELSE sum[i - 1] + pieces[i]
    IN  sum[Len(pieces)]
-----------------------------------------------------------------------------
VARIABLES
    parallel,   \* foreach_parallel
    count,      \* items of the source, -1 when it is no array
    pc,         \* "source", "items", "ended", "skipped", "error"
    started,    \* items whose future was made
    finished,   \* item -> [ok, len] for futures that completed
    outputs,    \* foreach_outputs, with the item each came from
    encoded,    \* encoded_output_bytes
    failures,   \* failed_items
    fields,     \* per item, the context it was built with
    returned    \* bytes of the combined output, once there is one

vars == <<parallel, count, pc, started, finished, outputs, encoded, failures, fields, returned>>

Init ==
    /\ parallel \in BOOLEAN
    /\ count \in -1 .. MaxLen
    /\ pc = "source"
    /\ started = 0
    /\ finished = <<>>
    /\ outputs = <<>>
    /\ encoded = 2
    /\ failures = 0
    /\ fields = <<>>
    /\ returned = 0

Source ==
    /\ pc = "source"
    /\ pc' = IF count <= 0 THEN "skipped"
             ELSE IF count > MaxItems THEN "error" ELSE "items"
    /\ UNCHANGED <<parallel, count, started, finished, outputs, encoded, failures, fields, returned>>

Slots == IF parallel THEN MaxConcurrent ELSE 1

\* build_item_task and the start of the item's execution.  A future leaves
\* the buffer when its output is consumed, not when it completes.
StartItem ==
    /\ pc = "items"
    /\ started < count
    /\ started - Len(outputs) < Slots
    /\ started' = started + 1
    /\ \E pieces \in Fields :
         fields' = Append(fields, [pieces |-> pieces,
                                   text |-> PushAll(pieces, MaxFieldChars)])
    /\ UNCHANGED <<parallel, count, pc, finished, outputs, encoded, failures, returned>>

EndItem(i) ==
    /\ pc = "items"
    /\ i \in 1 .. started
    /\ i \notin DOMAIN finished
    /\ \E ok \in BOOLEAN, len \in Lengths :
         finished' = [j \in DOMAIN finished \cup {i} |->
                         IF j = i THEN [ok |-> ok, len |-> len] ELSE finished[j]]
    /\ UNCHANGED <<parallel, count, pc, started, outputs, encoded, failures, fields, returned>>

\* reserve_foreach_output: the encoded string and its comma.
Reserved(len) == encoded + (IF encoded > 2 THEN 1 ELSE 0) + len

Fits(len) == Reserved(len) <= MaxOutputBytes

\* The buffer yields its futures in the order of the items.
NextInOrder(i) == i = Len(outputs) + 1 /\ i \in DOMAIN finished

FailureCount(i) == IF finished[i].ok THEN failures ELSE failures + 1

Consume(i) ==
    /\ pc = "items"
    /\ NextInOrder(i)
    /\ IF ~Fits(finished[i].len)
       THEN pc' = "error" /\ UNCHANGED <<outputs, encoded, failures>>
       ELSE /\ encoded' = Reserved(finished[i].len)
            /\ outputs' = Append(outputs, [item |-> i, ok |-> finished[i].ok,
                                           len |-> finished[i].len])
            /\ failures' = FailureCount(i)
            /\ UNCHANGED pc
    /\ UNCHANGED <<parallel, count, started, finished, fields, returned>>

\* serde_json::to_string_pretty of a sequence of strings: brackets and strings on lines
\* of their own, the strings indented by two.
Pretty(out) ==
    IF out = <<>> THEN 2
    ELSE 4 + Total([i \in DOMAIN out |-> 2 + out[i].len]) + 2 * (Len(out) - 1)

Combine ==
    /\ pc = "items"
    /\ Len(outputs) = count
    /\ pc' = "ended"
    /\ returned' = Pretty(outputs)
    /\ UNCHANGED <<parallel, count, started, finished, outputs, encoded, failures, fields>>

Next ==
    \/ Source \/ StartItem \/ Combine
    \/ \E i \in 1 .. MaxLen : EndItem(i) \/ Consume(i)

Spec == Init /\ [][Next]_vars

-----------------------------------------------------------------------------
TypeOK ==
    /\ pc \in {"source", "items", "ended", "skipped", "error"}
    /\ started \in 0 .. MaxLen
    /\ DOMAIN finished \subseteq 1 .. started
    /\ Len(outputs) <= started
    /\ encoded \in 2 .. MaxOutputBytes \/ outputs = <<>>
    /\ failures \in 0 .. MaxLen

\* The i-th output is that of the i-th item, however the items complete.
OutputsInOrder == \A i \in DOMAIN outputs : outputs[i].item = i

\* At most max_concurrent items execute at once, one when not parallel.
FanOutBound ==
    Cardinality((1 .. started) \ DOMAIN finished)
        <= (IF parallel THEN MaxConcurrent ELSE 1)

Compact(out) ==
    2 + Total([i \in DOMAIN out |-> out[i].len])
      + (IF out = <<>> THEN 0 ELSE Len(out) - 1)

\* The bytes counted are those of the outputs as a compact JSON array, and never exceed
\* the limit.  What is returned is the array laid out on lines, so that a result may have
\* more than the "maximum serialized aggregate output" of docs/cli.md:494, by three bytes
\* an item and one.
ResultNearLimit ==
    /\ encoded = Compact(outputs) /\ (outputs # <<>> => encoded <= MaxOutputBytes)
    /\ returned <= MaxOutputBytes + 3 * Len(outputs) + 1

\* is_wholly_failed at the end: exactly when every item that ran failed.
WhollyFailedExact ==
    pc = "ended" =>
        (failures = Len(outputs) <=> \A i \in 1 .. count : ~finished[i].ok)

\* The context of an item is as long as the limit allows and no longer: kept
\* whole when it fits, cut to the limit with its marker when it does not.
FieldsBounded ==
    \A i \in DOMAIN fields :
        LET whole == Total(fields[i].pieces)
            done == FinishText(fields[i].text, MaxFieldChars, Marker)
        IN  /\ done.kept + done.marker <= MaxFieldChars
            /\ whole <= MaxFieldChars => done = [kept |-> whole, marker |-> 0]
            /\ whole > MaxFieldChars =>
                  /\ done.marker = Least(Marker, MaxFieldChars)
                  /\ done.kept = MaxFieldChars - done.marker

\* A foreach ends: with all outputs, skipped, or by a limit.
ForeachEnds == <>(pc \in {"ended", "skipped", "error"})

=============================================================================
