---------------------------- MODULE ProviderCalls ---------------------------
(***************************************************************************)
(* Calls to one model provider as they run side by side: the gauge and the *)
(* outcome that ObservedProvider keeps of each (llm/metrics.rs), and the   *)
(* rate limiter they share (llm/provider_http.rs).  A call may be dropped  *)
(* at any await.                                                           *)
(***************************************************************************)
EXTENDS Integers, FiniteSets, FiniteSetsExt, Sequences

CONSTANTS Calls,       \* the calls
          Counted,     \* those that ask for an input count first (token budget)
          MinInterval, \* RateLimiter.min_interval
          MaxTime      \* bound: the clock

CallsAssumption ==
    Counted \subseteq Calls /\ MinInterval \in Nat \ {0} /\ MaxTime \in Nat

VARIABLES
    at,      \* where each call is
    mine,    \* the value of the gauge a call raised it to
    active, peak, \* ProviderCallMetrics
    last,    \* RateLimiter.last_call
    wake,    \* when the sleep of a call in the limiter ends
    uncounted, \* calls whose input count is still to come
    now,
    outcome, \* the outcomes recorded for each call
    top,     \* history: the highest value of the gauge
    passed   \* history: when the limiter let requests pass

vars == <<at, mine, active, peak, last, wake, uncounted, now, outcome, top, passed>>

Goto(c, place) == at' = [at EXCEPT ![c] = place]

\* RateLimiter::new: a minute ago, or now on a clock younger than that.
Init ==
    /\ at = [c \in Calls |-> "idle"] /\ mine = [c \in Calls |-> 0]
    /\ active = 0 /\ peak = 0
    /\ now = 0 /\ last \in {-MinInterval, 0}
    /\ wake = [c \in Calls |-> 0] /\ uncounted = Counted
    /\ outcome = [c \in Calls |-> <<>>]
    /\ top = 0 /\ passed = <<>>

\* The compare-exchange of ProviderCallMetrics::enter succeeds.
Enter(c) ==
    /\ at[c] = "idle" /\ Goto(c, "entered")
    /\ active' = active + 1
    /\ mine' = [mine EXCEPT ![c] = active + 1]
    /\ top' = Max({top, active + 1})
    /\ UNCHANGED <<peak, last, wake, uncounted, now, outcome, passed>>

\* peak.fetch_max, by the thread that raised the gauge, some time later.
RaisePeak(c) ==
    /\ at[c] = "entered" /\ Goto(c, "waiting")
    /\ peak' = Max({peak, mine[c]})
    /\ UNCHANGED <<mine, active, last, wake, uncounted, now, outcome, top, passed>>

\* The mutex of the limiter is free: it is held while a call sleeps.
Free == \A c \in Calls : at[c] # "sleeping"

\* The elapsed time is taken once, under the lock.
Lock(c) ==
    /\ at[c] = "waiting" /\ Free /\ Goto(c, "sleeping")
    /\ wake' = [wake EXCEPT ![c] = Max({now, last + MinInterval})]
    /\ UNCHANGED <<mine, active, peak, last, uncounted, now, outcome, top, passed>>

\* RateLimiter::wait returns and a request goes out: the count, or the call.
Pass(c) ==
    /\ at[c] = "sleeping" /\ now >= wake[c]
    /\ last' = now /\ passed' = Append(passed, now)
    /\ Goto(c, IF c \in uncounted THEN "counting" ELSE "sent")
    /\ UNCHANGED <<mine, active, peak, wake, uncounted, now, outcome, top>>

\* count_input has its answer; the call goes through the limiter again.
CountIn(c) ==
    /\ at[c] = "counting" /\ Goto(c, "waiting")
    /\ uncounted' = uncounted \ {c}
    /\ UNCHANGED <<mine, active, peak, last, wake, now, outcome, top, passed>>

\* The inner call returns: an answer, or an error at any stage of it.
Return(c, result) ==
    /\ at[c] = "sent" \/ (at[c] \in {"waiting", "counting"} /\ result = "error")
    /\ Goto(c, "leaving")
    /\ outcome' = [outcome EXCEPT ![c] = Append(@, result)]
    /\ UNCHANGED <<mine, active, peak, last, wake, uncounted, now, top, passed>>

\* The call is dropped at an await; ProviderObservation::drop.
Cancel(c) ==
    /\ at[c] \in {"waiting", "sleeping", "counting", "sent"} /\ Goto(c, "leaving")
    /\ outcome' = [outcome EXCEPT ![c] = Append(@, "cancelled")]
    /\ UNCHANGED <<mine, active, peak, last, wake, uncounted, now, top, passed>>

\* ProviderCallGuard::drop
Leave(c) ==
    /\ at[c] = "leaving" /\ Goto(c, "left")
    /\ active' = active - 1
    /\ UNCHANGED <<mine, peak, last, wake, uncounted, now, outcome, top, passed>>

Tick ==
    /\ now < MaxTime /\ now' = now + 1
    /\ UNCHANGED <<at, mine, active, peak, last, wake, uncounted, outcome, top, passed>>

Next ==
    \/ Tick
    \/ \E c \in Calls : \/ Enter(c) \/ RaisePeak(c) \/ Lock(c) \/ Pass(c) \/ CountIn(c)
                        \/ Cancel(c) \/ Leave(c)
                        \/ \E result \in {"success", "error"} : Return(c, result)

Spec == Init /\ [][Next]_vars
-----------------------------------------------------------------------------
(* Properties *)

TypeOK ==
    /\ at \in [Calls -> {"idle", "entered", "waiting", "sleeping", "counting", "sent", "leaving", "left"}]
    /\ active \in Nat /\ peak \in Nat /\ now \in 0 .. MaxTime
    /\ \A c \in Calls : mine[c] \in Nat

\* The gauge is the number of calls under way, and once every thread is out of
\* enter() the peak is the highest value it had.
GaugeExact ==
    /\ active = Cardinality({c \in Calls : at[c] \notin {"idle", "left"}})
    /\ (\A c \in Calls : at[c] # "entered") => peak = top

\* Requests pass the limiter at least its interval apart, dropped calls or not.
RequestsSpaced ==
    \A i, j \in DOMAIN passed : i < j => passed[j] - passed[i] >= MinInterval

\* A call that is over was recorded once, whatever ended it.
RecordedOnce == \A c \in Calls : at[c] \in {"leaving", "left"} => Len(outcome[c]) = 1
=============================================================================
