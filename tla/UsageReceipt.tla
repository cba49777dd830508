---------------------------- MODULE UsageReceipt ----------------------------
(***************************************************************************)
(* Provider usage receipts (usage.rs, usage/parsing.rs, usage/aggregate.rs,*)
(* usage/aggregate/validation.rs): how the cumulative counts a provider    *)
(* streams become one receipt, how a receipt is added to a scope's totals, *)
(* and what the reader of a stored total accepts.                          *)
(*                                                                         *)
(* One attempt at a time is streamed; the totals are those of one scope.   *)
(***************************************************************************)
EXTENDS Integers, FiniteSets, Sequences, SequencesExt

CONSTANTS None,        \* an unknown count
          Missing,     \* a field an update does not carry
          Bad,         \* a field an update carries malformed
          MaxCount,    \* u64::MAX
          Providers,   \* subset of {"openai", "anthropic"}
          Usages,      \* usage objects a stream may carry: [Fields -> counts, Missing or Bad]
          MaxUpdates,  \* bound: usage objects per attempt
          MaxAttempts  \* bound: attempts added to the scope

UsageAssumption ==
    /\ MaxCount \in Nat /\ MaxUpdates \in Nat /\ MaxAttempts \in Nat
    /\ Cardinality({None, Missing, Bad}) = 3
    /\ {None, Missing, Bad} \cap Int = {}

VARIABLES
    stream,     \* StreamUsage of the attempt in progress, with its final_receipt flag
    held,       \* UsageAttempt.receipt: the receipt a drop would settle
    settled,    \* State.settled of the scope
    overflowed, \* State.overflowed
    receipts    \* history: every receipt handed to the scope

vars == <<stream, held, settled, overflowed, receipts>>

Fields  == {"prompt", "completion", "total", "cached", "cache_write", "reasoning"}
Primary == {"prompt", "completion", "total"}

Known(n) == n # None

\* u64::checked_add
CheckedAdd(a, b) == IF a + b > MaxCount THEN None ELSE a + b

\* A known part larger than its known whole.
Exceeds(part, whole) == Known(part) /\ Known(whole) /\ part > whole
-----------------------------------------------------------------------------
(* One receipt *)

\* A total smaller than one of its parts, or different from their sum.
ContradictedTotal(c) ==
    \/ Exceeds(c.prompt, c.total) \/ Exceeds(c.completion, c.total)
    \/ /\ \A f \in Primary : Known(c[f])
       /\ CheckedAdd(c.prompt, c.completion) # c.total

\* Cache reads and writes that together exceed the input they are part of.
ContradictedCache(c) ==
    /\ \A f \in {"cached", "cache_write", "prompt"} : Known(c[f])
    /\ LET sum == CheckedAdd(c.cached, c.cache_write)
       IN  sum = None \/ sum > c.prompt

Forget(c, fs) == [f \in Fields |-> IF f \in fs THEN None ELSE c[f]]

\* UsageCounts::normalize: contradictory counts are dropped in this order.
Normalize(c) ==
    LET whole  == IF ContradictedTotal(c) THEN {"total"} ELSE {}
        over   == {f \in {"cached", "cache_write"} : Exceeds(c[f], c.prompt)}
                    \cup {f \in {"reasoning"} : Exceeds(c[f], c.completion)}
        first  == Forget(c, whole \cup over)
        cache  == IF ContradictedCache(first) THEN {"cached", "cache_write"} ELSE {}
    IN  [counts |-> Forget(first, cache), valid |-> whole \cup over \cup cache = {}]

\* UsageReceipt::from_counts
FromCounts(raw, final) ==
    LET n  == Normalize(raw)
        ok == n.valid /\ final
    IN  [counts   |-> n.counts,
         final    |-> ok,
         coverage |-> IF ok /\ \A f \in Primary : Known(n.counts[f]) THEN "complete"
                      ELSE IF \E f \in Fields : Known(n.counts[f]) THEN "partial"
                      ELSE "unavailable"]

NoCounts == [f \in Fields |-> None]

\* UsageReceipt::default
NoReceipt == FromCounts(NoCounts, FALSE)

\* sum_known: the sum of the known counts; None when none is known or it overflows.
SumKnown(counts) ==
    LET add(acc, n) == IF Known(n) THEN acc + n ELSE acc
        sum == FoldLeft(add, 0, counts)
    IN  IF sum > MaxCount \/ \A i \in DOMAIN counts : ~Known(counts[i]) THEN None ELSE sum

\* StreamUsage::snapshot.  Anthropic reports cache input apart from input and
\* no total: both are added up here.
Snapshot(s, final) ==
    LET c == s.fields
        parts == <<c.prompt, c.cached, c.cache_write>>
        input == SumKnown(parts)
        lost  == input = None /\ \E i \in 1..3 : Known(parts[i])
        total == IF lost THEN None ELSE SumKnown(<<input, c.completion>>)
        whole == /\ \A f \in {"prompt", "completion", "cached", "cache_write"} : Known(c[f])
                 /\ Known(input) /\ Known(total)
    IN  IF s.provider = "anthropic"
        THEN FromCounts([c EXCEPT !.prompt = input, !.total = total],
                        final /\ ~s.tainted /\ whole)
        ELSE FromCounts(c, final /\ ~s.tainted)
-----------------------------------------------------------------------------
(* Totals of a scope *)

\* CountTotal::from_receipt
Tally(n, final) == [known |-> n, complete |-> Known(n) /\ final]

\* CountTotal::merge, where the sum fits
MergeCount(a, b) ==
    [known    |-> IF Known(a.known) /\ Known(b.known) THEN CheckedAdd(a.known, b.known)
                  ELSE IF Known(a.known) THEN a.known ELSE b.known,
     complete |-> a.complete /\ b.complete]

CountFits(a, b) ==
    Known(a.known) /\ Known(b.known) => Known(CheckedAdd(a.known, b.known))

\* UsageAggregate::default and UsageAggregate::unavailable
EmptyAggregate ==
    [requests |-> 0, coverage |-> "complete",
     counts   |-> [f \in Fields |-> [known |-> 0, complete |-> TRUE]]]
UnavailableAggregate ==
    [requests |-> 0, coverage |-> "unavailable",
     counts   |-> [f \in Fields |-> [known |-> None, complete |-> FALSE]]]

AggregateOf(r) ==
    [requests |-> 1, coverage |-> r.coverage,
     counts   |-> [f \in Fields |-> Tally(r.counts[f], r.final)]]

\* The merge overflows no count and not the number of requests.
Fits(a, b) ==
    \/ a = EmptyAggregate \/ b = EmptyAggregate
    \/ /\ a.requests + b.requests <= MaxCount
       /\ \A f \in Fields : CountFits(a.counts[f], b.counts[f])

MergeCoverage(a, b) == IF a = b THEN a ELSE "partial"

\* UsageAggregate::merge, where it fits
Merge(a, b) ==
    IF b = EmptyAggregate THEN a
    ELSE IF a = EmptyAggregate THEN b
    ELSE [requests |-> a.requests + b.requests,
          coverage |-> MergeCoverage(a.coverage, b.coverage),
          counts   |-> [f \in Fields |-> MergeCount(a.counts[f], b.counts[f])]]

\* UsageAggregate::validate: what a reader of a stored total accepts.
Validates(a) ==
    LET c == a.counts
        complete == \A f \in Primary : c[f].complete
        within(part, whole) == c[whole].complete => ~Exceeds(c[part].known, c[whole].known)
        addsUp(x, y, whole) ==
            (\A f \in {x, y, whole} : Known(c[f].known))
              => LET sum == CheckedAdd(c[x].known, c[y].known)
                 IN  Known(sum) /\ sum <= c[whole].known
    IN  /\ \A f \in Fields : c[f].complete => Known(c[f].known)
        /\ IF a.requests = 0 THEN a \in {EmptyAggregate, UnavailableAggregate}
           ELSE /\ a.coverage = IF complete THEN "complete"
                                ELSE IF \E f \in Fields : Known(c[f].known) THEN "partial"
                                ELSE "unavailable"
                /\ complete => CheckedAdd(c.prompt.known, c.completion.known) = c.total.known
                /\ c.total.complete => addsUp("prompt", "completion", "total")
                /\ within("prompt", "total") /\ within("completion", "total")
                /\ within("cached", "prompt") /\ within("cache_write", "prompt")
                /\ within("reasoning", "completion")
                /\ c.prompt.complete => addsUp("cached", "cache_write", "prompt")
-----------------------------------------------------------------------------
(* The stream of one attempt, settled into the scope *)

NewStream(p) == [provider |-> p, fields |-> NoCounts, tainted |-> FALSE, final |-> FALSE, updates |-> 0]

Init ==
    /\ stream \in {NewStream(p) : p \in Providers}
    /\ held = NoReceipt
    /\ settled = EmptyAggregate
    /\ overflowed = FALSE
    /\ receipts = <<>>

\* The fields an update reads: Anthropic has no total.
Carried(p, usage) ==
    {f \in Fields : usage[f] # Missing /\ ~(p = "anthropic" /\ f = "total")}

\* A carried count that grows the field; any other carried value taints.
Grows(prior, v) == v # Bad /\ (Known(prior) => v >= prior)

\* StreamUsage::update with a usage object
Update(s, usage) ==
    LET read == Carried(s.provider, usage)
    IN  [s EXCEPT !.fields  = [f \in Fields |-> IF f \in read /\ Grows(s.fields[f], usage[f])
                                                THEN usage[f] ELSE s.fields[f]],
                  !.tainted = s.tainted \/ \E f \in read : ~Grows(s.fields[f], usage[f]),
                  !.updates = s.updates + 1]

\* UsageAttempt::observe: an absent receipt never erases a known one.
Keep(old, new) ==
    IF new.coverage = "unavailable" /\ old.coverage # "unavailable" THEN old ELSE new

\* Bounds: the attempts of the scope and the chunks of an attempt.
Streaming == Len(receipts) < MaxAttempts /\ stream.updates < MaxUpdates

\* ProviderAttempt::observe with a usage object: the final flag is the update's own.
Observe ==
    /\ Streaming
    /\ \E usage \in Usages, final \in BOOLEAN :
         LET s == [Update(stream, usage) EXCEPT !.final = final]
         IN  /\ stream' = s
             /\ held' = Keep(held, Snapshot(s, final))
    /\ UNCHANGED <<settled, overflowed, receipts>>

\* ProviderAttempt::observe of a null chunk or a usage that is not an object.
ObserveNothing ==
    /\ Streaming
    /\ \E final, malformed \in BOOLEAN :
         LET s == [stream EXCEPT !.updates = @ + 1,
                                 !.tainted = @ \/ malformed,
                                 !.final = IF malformed THEN final ELSE @ \/ final]
         IN  /\ stream' = s
             /\ held' = Keep(held, Snapshot(s, s.final))
    /\ UNCHANGED <<settled, overflowed, receipts>>

\* UsageTracker::settle with one scope: all counts or the overflow mark.
Settle(r) ==
    /\ Len(receipts) < MaxAttempts
    /\ receipts' = Append(receipts, r)
    /\ IF ~overflowed /\ Fits(settled, AggregateOf(r))
       THEN settled' = Merge(settled, AggregateOf(r)) /\ UNCHANGED overflowed
       ELSE overflowed' = TRUE /\ UNCHANGED settled
    /\ stream' \in {NewStream(p) : p \in Providers}
    /\ held' = NoReceipt

\* ProviderAttempt::finish
Finish == Settle(Keep(held, Snapshot(stream, stream.final)))

\* The attempt is dropped: UsageAttempt settles the receipt it holds.
Drop == Settle(held)

Next == Observe \/ ObserveNothing \/ Finish \/ Drop

Spec == Init /\ [][Next]_vars
-----------------------------------------------------------------------------
Count == 0..MaxCount \cup {None}

TypeOK ==
    /\ stream \in [provider : Providers, fields : [Fields -> Count], tainted : BOOLEAN,
                   final : BOOLEAN, updates : 0..MaxUpdates]
    /\ held.counts \in [Fields -> Count]
    /\ settled.requests \in 0..MaxAttempts
    /\ \A f \in Fields : settled.counts[f].known \in Count
    /\ overflowed \in BOOLEAN

\* usage/aggregate/validation.rs:57-132: a stored total that does not validate
\* makes the whole run record unreadable.  Whatever a provider reports, the
\* totals of a scope pass the reader's validation.
TotalsAreReadable == Validates(settled)

\* The counts of a complete receipt are the last ones the provider reported,
\* and its total is their sum; an attempt whose reports regressed or were
\* malformed is never complete.
CompleteIsExact ==
    held.coverage = "complete" =>
        /\ ~stream.tainted
        /\ held.counts.total = held.counts.prompt + held.counts.completion
        /\ held.counts.completion = stream.fields.completion
        /\ stream.provider = "anthropic" =>
             /\ \A f \in {"prompt", "cached", "cache_write"} : Known(stream.fields[f])
             /\ held.counts.prompt = stream.fields.prompt + stream.fields.cached
                                       + stream.fields.cache_write

\* Sum over the receipts of one field, counted as the reader of the totals
\* would count it by hand.
Reported(f) ==
    FoldLeft(LAMBDA acc, r : IF Known(r.counts[f]) THEN acc + r.counts[f] ELSE acc, 0, receipts)

\* Until an overflow, the scope's totals are the sums of its receipts in any
\* order of settlement, and are called complete only when every receipt was.
TotalsAreSums ==
    ~overflowed =>
        /\ settled.requests = Len(receipts)
        /\ \A f \in Fields :
             /\ Known(settled.counts[f].known) => settled.counts[f].known = Reported(f)
             /\ ~Known(settled.counts[f].known) => Reported(f) = 0
        /\ settled.coverage = "complete" <=>
             \A i \in DOMAIN receipts : receipts[i].coverage = "complete"

\* aggregate.rs:150 "neither a token overflow nor a request-count overflow
\* can wrap, saturate, or partially mutate this aggregate": the totals never
\* shrink, and never move again once the scope has overflowed.
TotalsOnlyGrow ==
    /\ settled'.requests >= settled.requests
    /\ \A f \in Fields :
         /\ settled.requests > 0 /\ Known(settled.counts[f].known) =>
              /\ Known(settled'.counts[f].known)
              /\ settled'.counts[f].known >= settled.counts[f].known
    /\ overflowed => settled' = settled

\* One update never lowers or forgets a count the stream had: usage already
\* reported survives every later chunk.
ReportedUsageSurvives ==
    \A f \in Fields :
      stream'.updates > stream.updates /\ Known(stream.fields[f]) =>
        /\ Known(stream'.fields[f])
        /\ stream'.fields[f] >= stream.fields[f]
=============================================================================
