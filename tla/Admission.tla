------------------------------ MODULE Admission -----------------------------
(***************************************************************************)
(* Request admission (api/admission.rs, api/admission_paths.rs): one token *)
(* bucket per principal and class, refilled by elapsed time, taken from    *)
(* under one mutex.  A handler thread reads the clock before it locks the  *)
(* buckets, so two threads may lock in the opposite order of their clocks. *)
(*                                                                         *)
(* Time is in ticks; Units ticks are a second and Units token units are a  *)
(* token, as TOKEN_UNITS and NANOS_PER_SECOND are the same number.         *)
(***************************************************************************)
EXTENDS Integers, FiniteSets, FiniteSetsExt

CONSTANTS Threads,     \* server threads that run the middleware
          Principals,
          None,
          Units,       \* TOKEN_UNITS = NANOS_PER_SECOND
          Minute,      \* SECONDS_PER_MINUTE
          Rate, Burst, \* policy of each class: tokens per minute, capacity
          Routes,      \* requests that may arrive, each a record
          MaxTime      \* bound: ticks

AdmissionAssumption ==
    /\ Units \in Nat \ {0} /\ Minute \in Nat \ {0} /\ MaxTime \in Nat
    /\ \A c \in DOMAIN Rate : Rate[c] \in Nat \ {0} /\ Burst[c] \in Nat \ {0}

VARIABLES
    now,       \* the monotonic clock
    thread,    \* each thread: the request it admits and the clock it read
    bucket,    \* AdmissionController.buckets
    admitted,  \* history: per bucket and tick, requests admitted with that clock
    promise,   \* history: per bucket, when the last Retry-After allows a retry
    rewound    \* history: per bucket, the ticks its clock was set back in all

vars == <<now, thread, bucket, admitted, promise, rewound>>

Classes == {"work", "control", "observation"}

\* classify_mutation
Classify(r) ==
    IF r.method = "GET" /\ r.shape \in {"questions", "validate", "agents"} THEN "observation"
    ELSE IF r.method = "DELETE" THEN "control"
    ELSE IF r.method # "POST" THEN None
    ELSE IF r.shape \in {"abort", "answer"} THEN "control" ELSE "work"

Keys == Principals \X Classes
Policy(k) == k[2]
Capacity(k) == Burst[Policy(k)] * Units

Idle == [key |-> None, at |-> 0]

Init ==
    /\ now = 0
    /\ thread = [t \in Threads |-> Idle]
    /\ bucket = [k \in Keys |-> None]
    /\ admitted = [k \in Keys |-> [t \in 0..MaxTime |-> 0]]
    /\ promise = [k \in Keys |-> None]
    /\ rewound = [k \in Keys |-> 0]

Tick ==
    /\ now < MaxTime
    /\ now' = now + 1
    /\ UNCHANGED <<thread, bucket, admitted, promise, rewound>>

\* enforce_mutation_admission up to the mutex of admit_principal; an
\* unclassified request passes without a token.
Arrive(t) ==
    /\ thread[t] = Idle
    /\ \E p \in Principals, r \in Routes :
         /\ Classify(r) # None
         /\ thread' = [thread EXCEPT ![t] = [key |-> <<p, Classify(r)>>, at |-> now]]
    /\ UNCHANGED <<now, bucket, admitted, promise, rewound>>

\* TokenBucket::full, or the refill of try_take
Refilled(k, at) ==
    LET b == bucket[k]
        elapsed == Max({at - b.updated_at, 0})
    IN  IF b = None THEN Capacity(k)
        ELSE Min({b.tokens + (elapsed * Rate[Policy(k)]) \div Minute, Capacity(k)})

DivCeil(n, d) == (n + d - 1) \div d

\* Mutant: the wait is rounded down
RetryRoundedDown(k, tokens) ==
    Max({((Units - tokens) * Minute) \div (Rate[Policy(k)] * Units), 1})

\* The Retry-After of try_take and rate_limited_response, in seconds
RetryAfter(k, tokens) ==
    Max({DivCeil(DivCeil((Units - tokens) * Minute, Rate[Policy(k)]), Units), 1})

\* admit_principal under the mutex: refill to the clock read before it, take
\* a token or answer 429 with Retry-After.
Admit(t) ==
    LET k == thread[t].key
        at == thread[t].at
        tokens == Refilled(k, at)
        ok == tokens >= Units
    IN  /\ thread[t] # Idle
        /\ bucket' = [bucket EXCEPT ![k] = [tokens |-> IF ok THEN tokens - Units ELSE tokens,
                                            updated_at |-> at]]
        /\ IF ok
           THEN /\ admitted' = [admitted EXCEPT ![k][at] = @ + 1]
                /\ promise' = [promise EXCEPT ![k] = None]
           ELSE /\ promise' = [promise EXCEPT ![k] = at + RetryAfter(k, tokens) * Units]
                /\ UNCHANGED admitted
        /\ rewound' = [rewound EXCEPT ![k] =
                          IF bucket[k] = None THEN @ ELSE @ + Max({bucket[k].updated_at - at, 0})]
        /\ thread' = [thread EXCEPT ![t] = Idle]
        /\ UNCHANGED now

Next == Tick \/ \E t \in Threads : Arrive(t) \/ Admit(t)

Spec == Init /\ [][Next]_vars
-----------------------------------------------------------------------------
TypeOK ==
    /\ now \in 0..MaxTime
    /\ \A k \in Keys : bucket[k] # None =>
         bucket[k].tokens \in 0..Capacity(k) /\ bucket[k].updated_at \in 0..MaxTime

\* Requests of bucket k admitted with a clock in from..to
AdmittedIn(k, from, to) == MapThenSumSet(LAMBDA t : admitted[k][t], from..to)

\* In every window of time a bucket admits no more than its burst, what the window
\* refills, and what is refilled again because a thread that read its clock earlier
\* and locked later set the bucket's clock back.  docs/http-scaling.md:314 knows only
\* the first two ("at most R x burst and R x refill rate"): without the third, two
\* threads exceed the bound.
RateBound ==
    \A k \in Keys : \A from \in 0..now : \A to \in from..now :
      AdmittedIn(k, from, to) * Units * Minute
        <= Burst[Policy(k)] * Units * Minute + (to - from + rewound[k]) * Rate[Policy(k)]

\* A client that waits for the advertised Retry-After while nobody else uses
\* its bucket is admitted: the refill's rounding never outruns the advice.
RetryAfterSuffices ==
    \A t \in Threads :
      LET k == thread[t].key
      IN  (thread[t] # Idle /\ thread'[t] = Idle /\ promise[k] # None
             /\ thread[t].at >= promise[k])
            => admitted'[k] # admitted[k]
=============================================================================
