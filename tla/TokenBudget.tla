----------------------------- MODULE TokenBudget ----------------------------
(***************************************************************************)
(* The token budget of a run and the scopes that count its provider        *)
(* attempts (usage/budget.rs, usage/tracker.rs, llm/accounting.rs,         *)
(* llm/scope.rs, llm/openai_responses/budget.rs).                          *)
(*                                                                         *)
(* Scopes form an immutable graph: a scope has a parent and may have an    *)
(* observer, and an attempt is counted in every scope it can reach.  All   *)
(* the scopes an attempt reaches are locked one by one, in address order,  *)
(* before any of them changes.  A root owns a budget; a child inherits its *)
(* parent's.  Two roots: the run's, with a budget of Limit tokens, and a   *)
(* conversation session's, with none.                                      *)
(*                                                                         *)
(* A receipt is abstracted to its total and whether it is complete:        *)
(* UsageReceipt models how it comes about.                                 *)
(***************************************************************************)
EXTENDS Integers, FiniteSets, FiniteSetsExt, Functions

CONSTANTS Attempts,   \* provider attempts
          Addrs,      \* addresses of scope nodes
          None,
          Limit,      \* IRONCREW_MAX_RUN_TOKENS
          Inputs,     \* counted input tokens
          Outputs,    \* max_output_tokens of a request
          MaxSpend,   \* bound: what a provider that breaks its bound may use
          MaxDepth,   \* 64 levels
          MaxTotal    \* u64::MAX of a scope's total

\* A scope as UsageTracker builds it
Node == [parent : Addrs \cup {None}, observer : Addrs \cup {None}, depth : Nat,
         root : Addrs, lineage : SUBSET Addrs]

BudgetAssumption ==
    /\ IsFiniteSet(Attempts)
    /\ Addrs \subseteq Nat /\ IsFiniteSet(Addrs) /\ Cardinality(Addrs) >= 2
    /\ Limit \in Nat \ {0} /\ MaxDepth \in Nat /\ MaxTotal \in Nat /\ MaxSpend \in Nat
    /\ Inputs \subseteq Nat /\ Outputs \subseteq Nat \ {0}
    /\ None \notin Nat /\ None \notin Attempts /\ None \notin Node

VARIABLES
    scope,   \* Node of each address: parent, observer, depth, root and the nodes it reaches
    state,   \* State of each node: requests and total settled, in_flight, overflowed
    lock,    \* holder of each node's mutex
    budget,  \* BudgetSnapshot of the run
    att      \* each attempt: where it is, its scope, bound, true use and receipt

vars == <<scope, state, lock, budget, att>>

Scopes == {n \in Addrs : scope[n] # None}

Zero == [requests |-> 0, total |-> 0, in_flight |-> 0, overflowed |-> FALSE]

Root(n) == [parent |-> None, observer |-> None, depth |-> 0, root |-> n, lineage |-> {n}]

NoReceipt == [total |-> None, complete |-> FALSE]

Fresh == [pc |-> "idle", at |-> None, input |-> 0, output |-> 0, spent |-> 0,
          receipt |-> NoReceipt, reserved |-> FALSE, dropped |-> FALSE]

\* UsageTracker::with_budget and UsageTracker::default: the two roots.
Init ==
    /\ \E run, session \in Addrs :
         /\ run # session
         /\ scope = [n \in Addrs |-> IF n \in {run, session} THEN Root(n) ELSE None]
         /\ budget = [state |-> "active", root |-> run, charged |-> 0, retained |-> 0,
                      reserved |-> 0, in_flight |-> 0]
    /\ state = [n \in Addrs |-> Zero]
    /\ lock = [n \in Addrs |-> None]
    /\ att = [a \in Attempts |-> Fresh]

DepthOf(n) == IF n = None THEN 0 ELSE scope[n].depth

\* UsageTracker::ancestry: every node reached over parents and observers, once.
Reached(p, o, n) ==
    {n} \cup scope[p].lineage \cup (IF o = None THEN {} ELSE scope[o].lineage)

\* Bound: the graph is built before the first attempt.  A scope exists before
\* its attempts and its links never change, so a later one adds no behaviour.
Building == \A a \in Attempts : att[a].pc = "idle"

\* UsageTracker::new_child (child, child_observed_by) at any free address
NewChild(p, o) ==
    /\ Building
    /\ Max({DepthOf(p), DepthOf(o)}) < MaxDepth
    /\ \E n \in Addrs \ Scopes :
         scope' = [scope EXCEPT ![n] =
                     [parent |-> p, observer |-> o, depth |-> 1 + Max({DepthOf(p), DepthOf(o)}),
                      root |-> scope[p].root, lineage |-> Reached(p, o, n)]]
    /\ UNCHANGED <<state, lock, budget, att>>

Goto(a, pc) == att' = [att EXCEPT ![a].pc = pc]

Budgeted(a) == scope[att[a].at].root = budget.root

\* TokenBudget::block: the first failure stays.
Block(reason) ==
    budget' = [budget EXCEPT !.state = IF @ = "active" THEN reason ELSE @]

\* ScopedProvider::prepare and the head of prepare_dispatch: a blocked budget
\* refuses; a provider that cannot bound its use blocks it.
Prepare(a) ==
    /\ att[a].pc = "idle"
    /\ \E n \in Scopes, supported \in BOOLEAN :
         LET b  == scope[n].root = budget.root
             pc == IF b /\ (budget.state # "active" \/ ~supported) THEN "done" ELSE "counting"
         IN  /\ att' = [att EXCEPT ![a].at = n, ![a].pc = pc]
             /\ IF b /\ budget.state = "active" /\ ~supported
                THEN Block("unsupported") ELSE UNCHANGED budget
    /\ UNCHANGED <<scope, state, lock>>

\* prepare_dispatch awaits the count and the rate limiter before it reserves.
CountInput(a) ==
    /\ att[a].pc = "counting"
    /\ IF Budgeted(a)
       THEN \/ \E i \in Inputs, o \in Outputs :
                 att' = [att EXCEPT ![a].pc = "reserve", ![a].input = i, ![a].output = o]
                 /\ UNCHANGED budget
            \/ /\ Goto(a, "done")
               /\ \E reason \in {"counting_failed", "unsupported"} : Block(reason)
       ELSE Goto(a, "starting") /\ UNCHANGED budget
    /\ UNCHANGED <<scope, state, lock>>

Amount(a) == att[a].input + att[a].output

\* BudgetSnapshot::validate
BudgetValidates(b) ==
    /\ b.charged + b.reserved <= Limit
    /\ b.retained <= b.charged
    /\ (b.in_flight = 0) <=> (b.reserved = 0)
    /\ b.in_flight <= b.reserved

Remaining == Limit - budget.charged - budget.reserved

\* TokenBudget::reserve
Reserve(a) ==
    /\ att[a].pc = "reserve"
    /\ IF budget.state # "active"
       THEN Goto(a, "done") /\ UNCHANGED budget
       ELSE IF Amount(a) > Remaining
       THEN Goto(a, "done") /\ budget' = [budget EXCEPT !.state = "exhausted"]
       ELSE /\ att' = [att EXCEPT ![a].pc = "starting", ![a].reserved = TRUE]
            /\ budget' = [budget EXCEPT !.reserved = @ + Amount(a), !.in_flight = @ + 1]
    /\ UNCHANGED <<scope, state, lock>>

Lineage(a) == scope[att[a].at].lineage

Holds(a) == {n \in Addrs : lock[n] = a}

\* ancestry() sorts the nodes by address.
NextLock(a) == Min(Lineage(a) \ Holds(a))

Lock(a) ==
    /\ att[a].pc \in {"starting", "settling"}
    /\ Lineage(a) # Holds(a)
    /\ lock[NextLock(a)] = None
    /\ lock' = [lock EXCEPT ![NextLock(a)] = a]
    /\ UNCHANGED <<scope, state, budget, att>>

Unlock(a) == lock' = [n \in Addrs |-> IF lock[n] = a THEN None ELSE lock[n]]

\* UsageTracker::start with every lock held: all the nodes or none.
Start(a) ==
    LET L == Lineage(a)
        fails == \E n \in L : \/ state[n].overflowed
                              \/ state[n].requests + state[n].in_flight + 1 > MaxTotal
    IN  /\ att[a].pc = "starting" /\ Holds(a) = L
        /\ Unlock(a)
        /\ IF fails
           THEN Goto(a, "charging") /\ UNCHANGED state
           ELSE /\ state' = [n \in Addrs |-> IF n \in L
                               THEN [state[n] EXCEPT !.in_flight = @ + 1] ELSE state[n]]
                /\ \E s \in 0..MaxSpend : att' = [att EXCEPT ![a].pc = "sent", ![a].spent = s]
        /\ UNCHANGED <<scope, budget>>

\* The provider reports: a part of its use, or all of it in a final receipt.
Observe(a) ==
    /\ att[a].pc = "sent" /\ ~att[a].receipt.complete
    /\ \E n \in 0..att[a].spent, final \in BOOLEAN :
         /\ final => n = att[a].spent
         /\ att' = [att EXCEPT ![a].receipt = [total |-> n, complete |-> final]]
    /\ UNCHANGED <<scope, state, lock, budget>>

\* Mutant: only a complete receipt is charged
ChargeWhatIsKnown(a) ==
    LET r == att[a].receipt
        violated == r.total # None /\ r.total > Amount(a)
        known    == r.complete /\ ~violated
    IN  IF ~att[a].reserved THEN UNCHANGED budget
        ELSE budget' =
          [budget EXCEPT
             !.reserved  = @ - Amount(a),
             !.in_flight = @ - 1,
             !.charged   = @ + (IF r.total = None THEN 0 ELSE r.total),
             !.retained  = IF known THEN @ ELSE @ + Amount(a),
             !.state     = IF violated THEN "bound_violated" ELSE @]

\* Reservation::settle: an incomplete receipt is charged the whole bound.
Charge(a) ==
    LET r == att[a].receipt
        violated == r.total # None /\ r.total > Amount(a)
        known    == r.complete /\ ~violated
    IN  IF ~att[a].reserved THEN UNCHANGED budget
        ELSE budget' =
          [budget EXCEPT
             !.reserved  = @ - Amount(a),
             !.in_flight = @ - 1,
             !.charged   = @ + (IF known THEN r.total ELSE Amount(a)),
             !.retained  = IF known THEN @ ELSE @ + Amount(a),
             !.state     = IF violated THEN "bound_violated" ELSE @]

\* ProviderAttempt::finish settles the scopes first.
Finish(a) ==
    /\ att[a].pc = "sent"
    /\ Goto(a, "settling")
    /\ UNCHANGED <<scope, state, lock, budget>>

\* Drop for ProviderAttempt: the request failed, timed out or was cancelled;
\* the reservation settles first, then the fields drop and settle the scopes.
DropAttempt(a) ==
    /\ att[a].pc = "sent"
    /\ att' = [att EXCEPT ![a].pc = "settling", ![a].dropped = TRUE, ![a].reserved = FALSE]
    /\ Charge(a)
    /\ UNCHANGED <<scope, state, lock>>

Reported(a) == IF att[a].receipt.total = None THEN 0 ELSE att[a].receipt.total

\* The new state of the nodes L: every total grows, or every node is marked.
SettleIn(L, a) ==
    LET fits == \A n \in L : ~state[n].overflowed /\ state[n].total + Reported(a) <= MaxTotal
    IN  [n \in Addrs |->
           IF n \notin L THEN state[n]
           ELSE IF fits
           THEN [state[n] EXCEPT !.in_flight = @ - 1, !.requests = @ + 1, !.total = @ + Reported(a)]
           ELSE [state[n] EXCEPT !.in_flight = @ - 1, !.overflowed = TRUE]]

\* UsageTracker::settle with every lock held
Settle(a) ==
    /\ att[a].pc = "settling" /\ Holds(a) = Lineage(a)
    /\ state' = SettleIn(Lineage(a), a)
    /\ Unlock(a)
    /\ Goto(a, IF att[a].dropped THEN "done" ELSE "charging")
    /\ UNCHANGED <<scope, budget>>

\* The end of finish, and of a start refused by an overflowed scope: the
\* reservation settles, by finish or by its own Drop.
Release(a) ==
    /\ att[a].pc = "charging"
    /\ Charge(a)
    /\ att' = [att EXCEPT ![a].pc = "done", ![a].reserved = FALSE]
    /\ UNCHANGED <<scope, state, lock>>

\* The caller is cancelled while it awaits the count: nothing was taken.
Cancel(a) ==
    /\ att[a].pc = "counting"
    /\ Goto(a, "done")
    /\ UNCHANGED <<scope, state, lock, budget>>

Step(a) ==
    \/ CountInput(a) \/ Reserve(a) \/ Lock(a) \/ Start(a)
    \/ Settle(a) \/ Release(a)

Ends(a) == Finish(a) \/ DropAttempt(a)

Terminated == \A a \in Attempts : att[a].pc = "done"

Done == Terminated /\ UNCHANGED vars

Next ==
    \/ \E p \in Scopes : NewChild(p, None)
    \/ \E p, o \in Scopes : NewChild(p, o)
    \/ \E a \in Attempts : Prepare(a)
    \/ \E a \in Attempts : Step(a)
    \/ \E a \in Attempts : Observe(a)
    \/ \E a \in Attempts : Ends(a)
    \/ \E a \in Attempts : Cancel(a)
    \/ Done

Spec == Init /\ [][Next]_vars

-----------------------------------------------------------------------------
States == {"active", "exhausted", "unsupported", "bound_violated", "counting_failed"}

TypeOK ==
    /\ \A n \in Addrs : /\ lock[n] \in Attempts \cup {None}
                        /\ state[n].requests \in 0..MaxTotal
                        /\ state[n].total \in 0..MaxTotal
                        /\ state[n].in_flight \in 0..Cardinality(Attempts)
    /\ budget.state \in States
    /\ \A a \in Attempts : att[a].pc \in
         {"idle", "counting", "reserve", "starting", "sent", "settling", "charging", "done"}

Live == {a \in Attempts : att[a].reserved}

\* A stored run record is read only if its budget validates.  Whatever the
\* interleaving of reservations and settlements, the counters pass it.
BudgetIsReadable == BudgetValidates(budget)

\* What was reserved is exactly what the unsettled attempts hold, and what
\* the run's attempts truly used within their bounds, reported or not, is
\* covered by what is charged or still reserved.  "Drop retains the whole
\* bound: cancellation never proves zero provider cost" (usage/budget.rs:115).
SpendIsCovered ==
    LET used == {a \in Attempts : /\ att[a].at # None /\ Budgeted(a)
                                  /\ att[a].spent <= Amount(a)}
    IN  /\ budget.reserved = SumFunctionOnSet([a \in Attempts |-> Amount(a)], Live)
        /\ budget.in_flight = Cardinality(Live)
        /\ SumFunctionOnSet([a \in Attempts |-> att[a].spent], used)
             <= budget.charged + budget.reserved

\* Failure is sticky (usage/budget.rs:75 "Failure is sticky even if a
\* concurrent request later releases capacity"): a blocked budget is never
\* active again and admits no further attempt, also not one whose check
\* passed before the failure.
FailureIsSticky ==
    budget.state # "active" =>
      /\ budget'.state # "active"
      /\ budget'.in_flight <= budget.in_flight

\* The nodes inclusive of scope n: the least set closed under its links.
Includes(n) ==
    {m \in Scopes : \A S \in SUBSET Scopes :
       (n \in S /\ \A k \in S : {scope[k].parent, scope[k].observer} \ {None} \subseteq S)
         => m \in S}

Started == {a \in Attempts : att[a].pc \in {"sent", "settling"}}
Settled == {a \in Attempts : att[a].pc = "charging" \/ (att[a].pc = "done" /\ att[a].at # None)}

\* Scopes are inclusive and count each attempt once, however many paths lead
\* from the attempt to the scope: what a scope shows is the sum over the
\* attempts in it, its own in-flight attempts included.
ScopesAreInclusive ==
    LET inside == [a \in {b \in Attempts : att[b].at # None} |-> Includes(att[a].at)]
    IN  \A n \in Scopes :
          LET within == {a \in DOMAIN inside : n \in inside[a]}
          IN  /\ state[n].in_flight = Cardinality(within \cap Started)
              /\ ~state[n].overflowed =>
                   state[n].total = SumFunctionOnSet([a \in Attempts |-> Reported(a)],
                                                     within \cap Settled)

\* usage/tracker.rs:200 "No ancestor or child can advertise a partially applied
\* update": a settlement is counted in every scope that includes the attempt,
\* or leaves every one of them overflowed.
AllOrNothing ==
    \A a \in Attempts :
      att[a].pc = "settling" /\ att'[a].pc # "settling" =>
        LET L == Includes(att[a].at)
        IN  \/ \A n \in L : state'[n].requests = state[n].requests + 1
            \/ \A n \in L : state'[n].overflowed

\* The holder of the lock an attempt needs next.
WaitsFor(a) == IF att[a].pc \in {"starting", "settling"} /\ Lineage(a) # Holds(a)
               THEN lock[NextLock(a)] ELSE None

\* tracker.rs:120 "A global address order prevents opposite observer links
\* from taking the same immutable DAG's locks in different orders": no set of
\* attempts waits for locks held within the set.
NoLockCycle == \A S \in (SUBSET Attempts) \ {{}} : \E a \in S : WaitsFor(a) \notin S

\* What the budget and the scopes promise together.
BudgetSound ==
    /\ [](TypeOK /\ ScopesAreInclusive /\ BudgetIsReadable /\ SpendIsCovered /\ NoLockCycle)
    /\ [][AllOrNothing /\ FailureIsSticky]_vars

=============================================================================
