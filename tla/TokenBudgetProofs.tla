------------------------- MODULE TokenBudgetProofs --------------------------
(***************************************************************************)
(* The token budget and the usage scopes, proved for every finite set of   *)
(* attempts, every scope graph UsageTracker can build and all limits: the  *)
(* counters validate, reservations cover what was used, failure is sticky, *)
(* a scope counts each attempt in it once, settlements are all or nothing  *)
(* and the scope locks never form a cycle.                                 *)
(*                                                                         *)
(* None of these is inductive.  BudgetInv says what an attempt knows at    *)
(* each stage (AttemptsKnown), that a lineage is exactly what the links    *)
(* reach (GraphInv), that an attempt holds the first locks of its lineage  *)
(* (LocksHeld), and what the counters are sums of (CountsKnown,            *)
(* BudgetKnown).  The facts about sums over finite sets are proved first,  *)
(* from a least counterexample among the subsets.                          *)
(***************************************************************************)
EXTENDS TokenBudget, FiniteSetTheorems, WellFoundedInduction, TLAPS

\* What the counters, the budget and an attempt are made of
Counter == [requests : Nat, total : Nat, in_flight : Nat, overflowed : BOOLEAN]
Snapshot == [state : States, root : Addrs, charged : Nat, retained : Nat, reserved : Nat,
             in_flight : Nat]
PCs == {"idle", "counting", "reserve", "starting", "sent", "settling", "charging", "done"}
Receipt == [total : Nat \cup {None}, complete : BOOLEAN]
Attempt == [pc : PCs, at : Addrs \cup {None}, input : Nat, output : Nat, spent : Nat,
            receipt : Receipt, reserved : BOOLEAN, dropped : BOOLEAN]

\* The types of the state, records and functions included
Types ==
    /\ scope \in [Addrs -> Node \cup {None}] /\ state \in [Addrs -> Counter]
    /\ lock \in [Addrs -> Attempts \cup {None}] /\ budget \in Snapshot
    /\ att \in [Attempts -> Attempt]

\* A set that no link leaves
Links(n) == {scope[n].parent, scope[n].observer} \ {None}
Closed(S) == \A k \in S : Links(k) \subseteq S

\* The lineage of a scope is what its links reach.
LineageLeast(n) ==
    /\ n \in scope[n].lineage /\ scope[n].lineage \subseteq Scopes /\ Closed(scope[n].lineage)
    /\ \A S \in SUBSET Scopes : n \in S /\ Closed(S) => scope[n].lineage \subseteq S

GraphInv == \A n \in Scopes : LineageLeast(n)

\* What an attempt knows at each stage.
Untouched(a) == att[a].spent = 0 /\ att[a].receipt = NoReceipt
AttemptKnown(a) ==
    /\ IF att[a].pc = "idle" THEN att[a].at = None ELSE att[a].at \in Scopes
    /\ att[a].pc \in {"idle", "counting", "reserve", "starting"} => Untouched(a) /\ ~att[a].dropped
    /\ att[a].pc \in {"idle", "counting", "reserve", "done"} => ~att[a].reserved
    /\ att[a].pc = "reserve" => Budgeted(a) /\ att[a].output # 0
    /\ att[a].pc \in {"starting", "sent", "settling", "charging"} =>
         (att[a].reserved <=> Budgeted(a) /\ ~att[a].dropped)
    /\ att[a].dropped => att[a].pc \in {"settling", "done"}
    /\ att[a].reserved => att[a].output # 0
    /\ att[a].receipt.total # None => att[a].receipt.total <= att[a].spent
    /\ att[a].receipt.complete => att[a].receipt.total = att[a].spent

AttemptsKnown == \A a \in Attempts : AttemptKnown(a)

\* An attempt holds the first locks of its lineage.
LockHeld(b, n) ==
    lock[n] = b =>
      /\ att[b].pc \in {"starting", "settling"} /\ n \in Lineage(b)
      /\ \A m \in Lineage(b) \ Holds(b) : n < m

LocksHeld == \A b \in Attempts, n \in Addrs : LockHeld(b, n)

\* The attempts in a scope
Within(n) == {a \in Attempts : att[a].at # None /\ n \in Lineage(a)}

\* What is summed: reported totals and bounds, per attempt
ReportedOf == [a \in Attempts |-> Reported(a)]
AmountOf == [a \in Attempts |-> Amount(a)]

\* A scope counts the attempts in it.
Counts(n) ==
    /\ state[n].in_flight = Cardinality(Within(n) \cap Started)
    /\ state[n].requests + state[n].in_flight <= MaxTotal /\ state[n].total <= MaxTotal
    /\ ~state[n].overflowed => state[n].total = SumFunctionOnSet(ReportedOf, Within(n) \cap Settled)

CountsKnown == \A n \in Addrs : Counts(n)

\* What the budget must hold for an attempt: its bound while it is live, then what it used.
Cover(a) ==
    IF att[a].reserved THEN Amount(a)
    ELSE IF att[a].at # None /\ Budgeted(a) /\ att[a].spent <= Amount(a) THEN att[a].spent
    ELSE 0
CoverOf == [a \in Attempts |-> Cover(a)]

\* The budget holds what its live attempts reserved, within the limit, and
\* covers every attempt.
BudgetKnown ==
    /\ budget.reserved = SumFunctionOnSet(AmountOf, Live)
    /\ budget.in_flight = Cardinality(Live)
    /\ budget.charged + budget.reserved <= Limit /\ budget.retained <= budget.charged
    /\ SumFunctionOnSet(CoverOf, Attempts) <= budget.charged + budget.reserved

\* The inductive invariant.
BudgetInv ==
    /\ Types /\ GraphInv /\ AttemptsKnown /\ LocksHeld /\ CountsKnown /\ BudgetKnown
\* The sums of SumFunctionOnSet: it folds over the elements CHOOSE picks one
\* by one.
Pick(T) == CHOOSE x \in T : TRUE

\* s gives every subset of S the sum of f over it.
Sums(s, f, S) ==
    /\ s \in [SUBSET S -> Int]
    /\ s[{}] = 0
    /\ \A T \in SUBSET S : \A x \in S \ T : s[T \cup {x}] = s[T] + f[x]

\* the equation of the fold
FoldsTo(s, f, S) ==
    s = [T \in SUBSET S |-> IF T = {} THEN 0 ELSE f[Pick(T)] + s[T \ {Pick(T)}]]

\* A set of subsets of a finite set has a least one: induction over finite
\* sets.
LEMMA LeastSubset ==
  ASSUME NEW S, IsFiniteSet(S), NEW X \in SUBSET SUBSET S, X # {}
  PROVE  \E T \in X : \A U \in X : U \subseteq T => U = T
<1>1. FiniteSubsetsOf(S) = SUBSET S
  BY FS_FiniteSubsetsOfFinite
<1>2. IsWellFoundedOn(StrictSubsetOrdering(S), SUBSET S)
  BY <1>1, FS_StrictSubsetOrderingWellFounded
<1>3. \E T \in X : \A U \in X : ~(<<U, T>> \in StrictSubsetOrdering(S))
  BY <1>2, WFMin
<1>4. QED
  BY <1>3 DEF StrictSubsetOrdering

\* Every integer function on a finite set has its sums.
LEMMA SumsExist ==
  ASSUME NEW S, IsFiniteSet(S), NEW f, \A x \in S : f[x] \in Int
  PROVE  \E s : Sums(s, f, S)
<1> DEFINE X == {U \in SUBSET S : ~\E s : Sums(s, f, U)}
<1>1. SUFFICES ASSUME X # {} PROVE FALSE
  BY SMT
<1>2. PICK U \in X : \A V \in X : V \subseteq U => V = U
  <2>1. X \in SUBSET SUBSET S
    OBVIOUS
  <2> HIDE DEF X
  <2>2. QED
    BY <1>1, <2>1, LeastSubset
<1>3. CASE U = {}
  <2> DEFINE z == [T \in SUBSET {} |-> 0]
  <2>1. Sums(z, f, {})
    BY DEF Sums
  <2>2. QED
    BY <1>2, <1>3, <2>1
<1>4. CASE U # {}
  <2>1. PICK a \in U : TRUE
    BY <1>4
  <2>2. PICK s : Sums(s, f, U \ {a})
    BY <1>2, <2>1
  <2> DEFINE z == [T \in SUBSET U |-> IF a \in T THEN s[T \ {a}] + f[a] ELSE s[T]]
  <2>3. \A T \in SUBSET U : z[T] = IF a \in T THEN s[T \ {a}] + f[a] ELSE s[T]
    OBVIOUS
  <2>4. z \in [SUBSET U -> Int]
    <3>1. f[a] \in Int
      BY <2>1, <1>2
    <3>2. \A T \in SUBSET U : z[T] \in Int
      BY <2>2, <2>3, <3>1 DEF Sums
    <3>3. QED
      BY <3>2
  <2>5. z[{}] = 0
    BY <2>3, <2>2 DEF Sums
  <2>6. ASSUME NEW T \in SUBSET U, NEW x \in U \ T PROVE z[T \cup {x}] = z[T] + f[x]
    <3>1. CASE x = a
      <4>1. (T \cup {x}) \ {a} = T /\ a \notin T /\ T \cup {x} \in SUBSET U
        BY <3>1, <2>6
      <4>2. QED
        BY <4>1, <3>1, <2>3
    <3>2. CASE x # a /\ a \notin T
      <4>1. T \in SUBSET (U \ {a}) /\ x \in (U \ {a}) \ T /\ T \cup {x} \in SUBSET U /\ a \notin T \cup {x}
        BY <3>2, <2>6
      <4>2. QED
        BY <4>1, <2>2, <2>3, <3>2 DEF Sums
    <3>3. CASE x # a /\ a \in T
      <4>1. /\ T \ {a} \in SUBSET (U \ {a}) /\ x \in (U \ {a}) \ (T \ {a}) /\ T \cup {x} \in SUBSET U
            /\ (T \cup {x}) \ {a} = (T \ {a}) \cup {x} /\ a \in T \cup {x}
        BY <3>3, <2>6
      <4>2. s[(T \ {a}) \cup {x}] = s[T \ {a}] + f[x]
        BY <4>1, <2>2 DEF Sums
      <4>3. s[T \ {a}] \in Int /\ f[a] \in Int /\ f[x] \in Int
        BY <4>1, <2>2, <2>1, <1>2, <2>6 DEF Sums
      <4>4. z[T] = s[T \ {a}] + f[a] /\ z[T \cup {x}] = s[(T \ {a}) \cup {x}] + f[a]
        BY <4>1, <2>3, <3>3
      <4> HIDE DEF z
      <4>5. QED
        BY <4>2, <4>3, <4>4
    <3>4. QED
      BY <3>1, <3>2, <3>3
  <2>7. Sums(z, f, U)
    <3> HIDE DEF z
    <3> QED BY <2>4, <2>5, <2>6 DEF Sums
  <2>8. QED
    BY <2>7, <1>2
<1>5. QED
  BY <1>3, <1>4

\* Sums satisfy the equation of the fold,
LEMMA SumsFold ==
  ASSUME NEW S, NEW f, NEW s, Sums(s, f, S), \A x \in S : f[x] \in Int
  PROVE  FoldsTo(s, f, S)
<1>1. ASSUME NEW T \in SUBSET S, T # {}
      PROVE  s[T] = f[Pick(T)] + s[T \ {Pick(T)}]
  <2>1. Pick(T) \in T
    BY <1>1 DEF Pick
  <2>2. T \ {Pick(T)} \in SUBSET S /\ Pick(T) \in S \ (T \ {Pick(T)})
        /\ (T \ {Pick(T)}) \cup {Pick(T)} = T
    BY <2>1
  <2>3. s[T] = s[T \ {Pick(T)}] + f[Pick(T)]
    BY <2>2 DEF Sums
  <2>4. QED
    BY <2>2, <2>3 DEF Sums
<1>2. QED
  BY <1>1 DEF Sums, FoldsTo

\* whose solution is unique,
LEMMA FoldUnique ==
  ASSUME NEW S, IsFiniteSet(S), NEW f, NEW s, NEW g, FoldsTo(s, f, S), FoldsTo(g, f, S)
  PROVE  s[S] = g[S]
<1> DEFINE X == {T \in SUBSET S : s[T] # g[T]}
<1>1. SUFFICES ASSUME X # {} PROVE FALSE
  BY SMT
<1>2. PICK T \in X : \A V \in X : V \subseteq T => V = T
  <2>1. X \in SUBSET SUBSET S
    OBVIOUS
  <2> HIDE DEF X
  <2>2. QED
    BY <1>1, <2>1, LeastSubset
<1>3. T # {}
  BY <1>2 DEF FoldsTo
<1>4. Pick(T) \in T
  BY <1>3 DEF Pick
<1>5. s[T \ {Pick(T)}] = g[T \ {Pick(T)}]
  BY <1>2, <1>4
<1>6. QED
  BY <1>2, <1>3, <1>5 DEF FoldsTo

\* and which SumFunctionOnSet solves,
LEMMA FoldExpands ==
  ASSUME NEW S, NEW f
  PROVE  SumFunctionOnSet(f, S) = (CHOOSE g : FoldsTo(g, f, S))[S]
BY DEF SumFunctionOnSet, FoldFunctionOnSet, MapThenFoldSet, FoldsTo, Pick

\* once there is a solution.
LEMMA FoldChosen ==
  ASSUME NEW S, NEW f, NEW s, FoldsTo(s, f, S)
  PROVE  FoldsTo(CHOOSE g : FoldsTo(g, f, S), f, S)
BY Zenon

\* SumFunctionOnSet is the sum,
LEMMA SumIs ==
  ASSUME NEW S, IsFiniteSet(S), NEW f, NEW s, Sums(s, f, S), \A x \in S : f[x] \in Int
  PROVE  SumFunctionOnSet(f, S) = s[S]
BY SumsFold, FoldExpands, FoldChosen, FoldUnique

\* on every subset.
LEMMA SumOver ==
  ASSUME NEW S, IsFiniteSet(S), NEW f, \A x \in S : f[x] \in Int
  PROVE  \E s : Sums(s, f, S) /\ \A T \in SUBSET S : SumFunctionOnSet(f, T) = s[T]
<1>1. PICK s : Sums(s, f, S)
  BY SumsExist
<1>2. ASSUME NEW T \in SUBSET S PROVE SumFunctionOnSet(f, T) = s[T]
  <2> DEFINE t == [U \in SUBSET T |-> s[U]]
  <2>1. Sums(t, f, T)
    BY <1>1 DEF Sums
  <2>2. IsFiniteSet(T) /\ t[T] = s[T]
    BY FS_Subset
  <2> HIDE DEF t
  <2>3. QED
    BY <2>1, <2>2, SumIs
<1>3. QED
  BY <1>1, <1>2

\* The sum with one element more
LEMMA SumAdd ==
  ASSUME NEW S, IsFiniteSet(S), NEW f, NEW a, a \notin S, \A x \in S \cup {a} : f[x] \in Int
  PROVE  /\ SumFunctionOnSet(f, S) \in Int
         /\ SumFunctionOnSet(f, S \cup {a}) = SumFunctionOnSet(f, S) + f[a]
<1>1. IsFiniteSet(S \cup {a})
  BY FS_AddElement
<1>2. PICK s : /\ Sums(s, f, S \cup {a})
               /\ \A T \in SUBSET (S \cup {a}) : SumFunctionOnSet(f, T) = s[T]
  BY <1>1, SumOver
<1>3. QED
  BY <1>2 DEF Sums

\* The sum with one element less
LEMMA SumRemove ==
  ASSUME NEW S, IsFiniteSet(S), NEW f, NEW a \in S, \A x \in S : f[x] \in Int
  PROVE  /\ SumFunctionOnSet(f, S \ {a}) \in Int
         /\ SumFunctionOnSet(f, S) = SumFunctionOnSet(f, S \ {a}) + f[a]
<1> DEFINE R == S \ {a}
<1>1. IsFiniteSet(R) /\ a \notin R /\ S = R \cup {a}
  BY FS_RemoveElement
<1> HIDE DEF R
<1>2. SumFunctionOnSet(f, R) \in Int /\ SumFunctionOnSet(f, S) = SumFunctionOnSet(f, R) + f[a]
  BY <1>1, SumAdd
<1>3. QED
  BY <1>2 DEF R

\* A sum of integers is an integer.
LEMMA SumInt ==
  ASSUME NEW S, IsFiniteSet(S), NEW f, \A x \in S : f[x] \in Int
  PROVE  SumFunctionOnSet(f, S) \in Int
<1>1. PICK s : Sums(s, f, S) /\ \A T \in SUBSET S : SumFunctionOnSet(f, T) = s[T]
  BY SumOver
<1>2. S \in SUBSET S
  OBVIOUS
<1>3. QED
  BY <1>1, <1>2 DEF Sums

\* A sum of zeros is zero.
LEMMA SumZero ==
  ASSUME NEW S, IsFiniteSet(S), NEW f, \A x \in S : f[x] = 0
  PROVE  SumFunctionOnSet(f, S) = 0
<1> DEFINE z == [T \in SUBSET S |-> 0]
<1>1. Sums(z, f, S) /\ z[S] = 0
  BY DEF Sums
<1> HIDE DEF z
<1>2. QED
  BY <1>1, SumIs

\* Functions that agree on the set have one sum.
LEMMA SumSame ==
  ASSUME NEW S, IsFiniteSet(S), NEW f, NEW g, \A x \in S : f[x] \in Int /\ g[x] = f[x]
  PROVE  SumFunctionOnSet(g, S) = SumFunctionOnSet(f, S)
<1>1. PICK s : Sums(s, f, S)
  BY SumsExist
<1>2. Sums(s, g, S)
  BY <1>1 DEF Sums
<1>3. QED
  BY <1>1, <1>2, SumIs

\* The sum when one summand changes
LEMMA SumChange ==
  ASSUME NEW S, IsFiniteSet(S), NEW f, NEW g, NEW a \in S,
         \A x \in S : f[x] \in Int /\ g[x] \in Int,
         \A x \in S \ {a} : g[x] = f[x]
  PROVE  SumFunctionOnSet(g, S) = SumFunctionOnSet(f, S) - f[a] + g[a]
<1>1. IsFiniteSet(S \ {a})
  BY FS_RemoveElement
<1>2. SumFunctionOnSet(g, S \ {a}) = SumFunctionOnSet(f, S \ {a})
  BY <1>1, SumSame
<1>3. /\ SumFunctionOnSet(f, S \ {a}) \in Int
      /\ SumFunctionOnSet(f, S) = SumFunctionOnSet(f, S \ {a}) + f[a]
      /\ SumFunctionOnSet(g, S) = SumFunctionOnSet(g, S \ {a}) + g[a]
  BY SumRemove
<1>4. QED
  BY <1>2, <1>3

\* A sum is bounded by one over more, larger summands.
LEMMA SumBound ==
  ASSUME NEW T, IsFiniteSet(T), NEW S \in SUBSET T, NEW f, NEW g,
         \A x \in S : f[x] \in Int /\ f[x] <= g[x],
         \A x \in T : g[x] \in Nat
  PROVE  SumFunctionOnSet(f, S) <= SumFunctionOnSet(g, T)
<1> DEFINE F(U) == SumFunctionOnSet(f, S \cap U)
<1> DEFINE G(U) == SumFunctionOnSet(g, U)
<1> DEFINE X == {U \in SUBSET T : ~(F(U) <= G(U))}
<1>1. SUFFICES ASSUME X # {} PROVE FALSE
  <2>1. S \cap T = S
    OBVIOUS
  <2>2. QED
    BY <2>1
<1>2. PICK U \in X : \A V \in X : V \subseteq U => V = U
  <2>1. X \in SUBSET SUBSET T
    OBVIOUS
  <2> HIDE DEF X
  <2>2. QED
    BY <1>1, <2>1, LeastSubset
<1>3. U # {}
  <2> SUFFICES ASSUME U = {} PROVE FALSE
    OBVIOUS
  <2>1. S \cap U = U /\ IsFiniteSet(U) /\ \A x \in U : f[x] = 0 /\ g[x] = 0
    BY FS_EmptySet
  <2>2. F(U) = 0 /\ G(U) = 0
    BY <2>1, SumZero
  <2>3. QED
    BY <1>2, <2>2
<1>4. PICK x \in U : TRUE
  BY <1>3
<1>5. F(U \ {x}) <= G(U \ {x})
  BY <1>2, <1>4
<1>6. G(U \ {x}) \in Int /\ G(U) = G(U \ {x}) + g[x] /\ g[x] \in Nat
  <2>1. IsFiniteSet(U) /\ \A y \in U : g[y] \in Int
    BY FS_Subset
  <2>2. QED
    BY <1>4, <2>1, SumRemove
<1>7. IsFiniteSet(S \cap U) /\ \A y \in S \cap U : f[y] \in Int
  BY FS_Subset
<1>8. CASE x \in S
  <2>1. (S \cap U) \ {x} = S \cap (U \ {x}) /\ x \in S \cap U
    BY <1>4, <1>8
  <2>2. F(U \ {x}) \in Int /\ F(U) = F(U \ {x}) + f[x] /\ f[x] \in Int /\ f[x] <= g[x]
    BY <1>7, <1>8, <2>1, SumRemove
  <2>3. ~(F(U) <= G(U))
    BY <1>2
  <2> HIDE DEF F, G
  <2>4. QED
    BY <1>5, <1>6, <2>2, <2>3
<1>9. CASE x \notin S
  <2>1. S \cap (U \ {x}) = S \cap U
    BY <1>9
  <2>2. F(U \ {x}) = F(U) /\ F(U) \in Int
    BY <1>7, <2>1, SumInt
  <2>3. ~(F(U) <= G(U))
    BY <1>2
  <2> HIDE DEF F, G
  <2>4. QED
    BY <1>5, <1>6, <2>2, <2>3
<1>10. QED
  BY <1>8, <1>9

\* Positive summands add up to at least their number.
LEMMA SumCount ==
  ASSUME NEW S, IsFiniteSet(S), NEW f, \A x \in S : f[x] \in Nat \ {0}
  PROVE  Cardinality(S) <= SumFunctionOnSet(f, S)
<1> DEFINE G(U) == SumFunctionOnSet(f, U)
<1> DEFINE X == {U \in SUBSET S : ~(Cardinality(U) <= G(U))}
<1>1. SUFFICES ASSUME X # {} PROVE FALSE
  OBVIOUS
<1>2. PICK U \in X : \A V \in X : V \subseteq U => V = U
  <2>1. X \in SUBSET SUBSET S
    OBVIOUS
  <2> HIDE DEF X
  <2>2. QED
    BY <1>1, <2>1, LeastSubset
<1>3. U # {}
  <2> SUFFICES ASSUME U = {} PROVE FALSE
    OBVIOUS
  <2>1. IsFiniteSet(U) /\ Cardinality(U) = 0 /\ \A x \in U : f[x] = 0
    BY FS_EmptySet
  <2>2. G(U) = 0
    BY <2>1, SumZero
  <2>3. QED
    BY <1>2, <2>1, <2>2
<1>4. PICK x \in U : TRUE
  BY <1>3
<1>5. Cardinality(U \ {x}) <= G(U \ {x}) /\ ~(Cardinality(U) <= G(U))
  BY <1>2, <1>4
<1>6. IsFiniteSet(U) /\ \A y \in U : f[y] \in Int
  BY FS_Subset
<1>7. G(U \ {x}) \in Int /\ G(U) = G(U \ {x}) + f[x] /\ f[x] \in Nat \ {0}
  BY <1>4, <1>6, SumRemove
<1>8. Cardinality(U) \in Nat /\ Cardinality(U \ {x}) = Cardinality(U) - 1
  BY <1>4, <1>6, FS_RemoveElement, FS_CardinalityType
<1> HIDE DEF G
<1>9. QED
  BY <1>5, <1>7, <1>8

\* A finite set of numbers has a largest and a least element.
LEMMA Extremes ==
  ASSUME NEW S, \A n \in S : n \in Nat, IsFiniteSet(S), S # {}
  PROVE  /\ \E m \in S : \A n \in S : n <= m
         /\ \E m \in S : \A n \in S : m <= n
<1> DEFINE Has(U) == (\E m \in U : \A n \in U : n <= m) /\ (\E m \in U : \A n \in U : m <= n)
<1> DEFINE X == {U \in SUBSET S : U # {} /\ ~Has(U)}
<1>1. SUFFICES ASSUME X # {} PROVE FALSE
  OBVIOUS
<1>2. PICK U \in X : \A V \in X : V \subseteq U => V = U
  <2>1. X \in SUBSET SUBSET S
    OBVIOUS
  <2>2. X # {}
    BY <1>1
  <2> HIDE DEF X, Has
  <2>3. QED
    BY <2>1, <2>2, LeastSubset
<1>3. PICK x \in U : TRUE
  BY <1>2
<1>4. U \subseteq Nat /\ ~Has(U)
  BY <1>2
<1>5. CASE U = {x}
  BY <1>4, <1>5
<1>6. CASE U # {x}
  <2>1. Has(U \ {x})
    <3>1. U \ {x} \in SUBSET S /\ U \ {x} # {} /\ U \ {x} # U /\ U \ {x} \subseteq U
      BY <1>2, <1>3, <1>6
    <3>2. U \ {x} \notin X
      BY <1>2, <3>1, Zenon
    <3> HIDE DEF Has
    <3>3. QED
      BY <3>1, <3>2
  <2>2. PICK m \in U \ {x} : \A n \in U \ {x} : n <= m
    BY <2>1
  <2>3. PICK l \in U \ {x} : \A n \in U \ {x} : l <= n
    BY <2>1
  <2>4. \E k \in U : \A n \in U : n <= k
    BY <1>3, <1>4, <2>2
  <2>5. \E k \in U : \A n \in U : k <= n
    BY <1>3, <1>4, <2>3
  <2>6. QED
    BY <1>4, <2>4, <2>5
<1>7. QED
  BY <1>5, <1>6
-----------------------------------------------------------------------------
\* The depth of a new scope is a number.
LEMMA MaxOfTwo == ASSUME NEW i \in Nat, NEW j \in Nat PROVE Max({i, j}) \in Nat
<1>1. \E x \in {i, j} : \A y \in {i, j} : x >= y
  BY SMT
<1>2. QED
  BY <1>1, Zenon DEF Max

\* The least lock an attempt lacks.
LEMMA NextLockLeast ==
  ASSUME BudgetAssumption, Types, NEW a \in Attempts, att[a].at \in Scopes, Lineage(a) # Holds(a),
         Holds(a) \subseteq Lineage(a)
  PROVE  NextLock(a) \in Lineage(a) \ Holds(a) /\ \A m \in Lineage(a) \ Holds(a) : NextLock(a) <= m
<1> DEFINE R == Lineage(a) \ Holds(a)
<1>1. R # {} /\ R \subseteq Addrs
  BY DEF Types, Scopes, Node, Lineage
<1>2. IsFiniteSet(R) /\ \A n \in R : n \in Nat
  BY <1>1, FS_Subset DEF BudgetAssumption
<1>3. NextLock(a) = CHOOSE x \in R : \A y \in R : x =< y
  BY DEF NextLock, Min
<1> HIDE DEF R
<1>4. \E m \in R : \A n \in R : m <= n
  BY <1>1, <1>2, Extremes
<1>5. NextLock(a) \in R /\ \A m \in R : NextLock(a) <= m
  BY <1>3, <1>4
<1>6. QED
  BY <1>5 DEF R

\* The reservation of a live attempt is part of what is reserved.
LEMMA LiveSums ==
  ASSUME BudgetAssumption, Types, BudgetKnown
  PROVE  /\ IsFiniteSet(Live) /\ IsFiniteSet(Attempts) /\ Live \subseteq Attempts
         /\ \A a \in Attempts : Amount(a) \in Nat /\ AmountOf[a] = Amount(a)
         /\ \A a \in Live : /\ budget.reserved = SumFunctionOnSet(AmountOf, Live \ {a}) + Amount(a)
                            /\ SumFunctionOnSet(AmountOf, Live \ {a}) \in Nat
                            /\ Cardinality(Live \ {a}) = budget.in_flight - 1
                            /\ Cardinality(Live \ {a}) \in Nat
<1>1. /\ IsFiniteSet(Live) /\ IsFiniteSet(Attempts) /\ Live \subseteq Attempts
      /\ \A a \in Attempts : Amount(a) \in Nat /\ AmountOf[a] = Amount(a)
  BY FS_Subset DEF BudgetAssumption, Types, Attempt, Live, Amount, AmountOf
<1>2. ASSUME NEW a \in Live
      PROVE  /\ budget.reserved = SumFunctionOnSet(AmountOf, Live \ {a}) + Amount(a)
             /\ SumFunctionOnSet(AmountOf, Live \ {a}) \in Nat
             /\ Cardinality(Live \ {a}) = budget.in_flight - 1
             /\ Cardinality(Live \ {a}) \in Nat
  <2>1. /\ SumFunctionOnSet(AmountOf, Live \ {a}) \in Int
        /\ SumFunctionOnSet(AmountOf, Live) = SumFunctionOnSet(AmountOf, Live \ {a}) + AmountOf[a]
    BY <1>1, SumRemove
  <2>2. IsFiniteSet(Live \ {a}) /\ Cardinality(Live \ {a}) = Cardinality(Live) - 1
    BY <1>1, FS_RemoveElement
  <2>3. 0 <= SumFunctionOnSet(AmountOf, Live \ {a})
    <3> DEFINE z == [b \in Attempts |-> 0]
    <3> DEFINE R == Live \ {a}
    <3>1. /\ R \in SUBSET R /\ IsFiniteSet(R)
          /\ \A x \in R : z[x] = 0 /\ z[x] \in Int /\ z[x] <= AmountOf[x] /\ AmountOf[x] \in Nat
      BY <1>1, <2>2
    <3> HIDE DEF z, R
    <3>2. SumFunctionOnSet(z, R) = 0 /\ SumFunctionOnSet(z, R) <= SumFunctionOnSet(AmountOf, R)
      BY <3>1, SumZero, SumBound
    <3>3. QED
      BY <3>2 DEF R
  <2>4. QED
    BY <1>1, <2>1, <2>2, <2>3, FS_CardinalityType DEF BudgetKnown
<1>3. QED
  BY <1>1, <1>2

-----------------------------------------------------------------------------
\* Types.

\* Settling a reservation never takes a counter of the budget below zero.
LEMMA ChargeTypes ==
  ASSUME BudgetAssumption, BudgetInv, NEW a \in Attempts, Charge(a)
  PROVE  budget' \in Snapshot /\ budget'.root = budget.root
<1>1. CASE ~att[a].reserved
  BY <1>1 DEF Charge, BudgetInv, Types
<1>2. CASE att[a].reserved
  <2>1. a \in Live
    BY <1>2 DEF Live
  <2>2. budget \in Snapshot /\ a \in Attempts
    BY DEF BudgetInv, Types
  <2>3. budget.reserved - Amount(a) \in Nat /\ budget.in_flight - 1 \in Nat /\ Amount(a) \in Nat
    <3>1. /\ Amount(a) \in Nat /\ SumFunctionOnSet(AmountOf, Live \ {a}) \in Nat
          /\ budget.reserved = SumFunctionOnSet(AmountOf, Live \ {a}) + Amount(a)
          /\ Cardinality(Live \ {a}) = budget.in_flight - 1 /\ Cardinality(Live \ {a}) \in Nat
      BY <2>1, LiveSums DEF BudgetInv
    <3>2. QED
      BY <3>1
  <2>4. att[a].receipt.complete => att[a].receipt.total \in Nat
    BY DEF BudgetInv, AttemptsKnown, AttemptKnown, Types, Attempt
  <2> DEFINE r == att[a].receipt
  <2> DEFINE violated == r.total # None /\ r.total > Amount(a)
  <2> DEFINE known == r.complete /\ ~violated
  <2> DEFINE gain == IF known THEN r.total ELSE Amount(a)
  <2> DEFINE kept == IF known THEN budget.retained ELSE budget.retained + Amount(a)
  <2> DEFINE st == IF violated THEN "bound_violated" ELSE budget.state
  <2>5. /\ gain \in Nat /\ kept \in Nat /\ st \in States
    BY <2>2, <2>3, <2>4 DEF Snapshot, States
  <2>6. /\ budget' = [budget EXCEPT !.reserved = budget'.reserved, !.in_flight = budget'.in_flight,
                          !.charged = budget'.charged, !.retained = budget'.retained, !.state = budget'.state]
        /\ budget'.reserved = budget.reserved - Amount(a) /\ budget'.in_flight = budget.in_flight - 1
        /\ budget'.charged = budget.charged + gain /\ budget'.retained = kept /\ budget'.state = st
    BY <1>2, <2>2 DEF Charge, Snapshot
  <2> HIDE DEF gain, kept, st, known, violated, r
  <2>7. budget'.charged \in Nat
    BY <2>2, <2>5, <2>6 DEF Snapshot
  <2>8. QED
    BY <2>2, <2>3, <2>5, <2>6, <2>7 DEF Snapshot
<1>3. QED
  BY <1>1, <1>2

\* A new scope is a node.
LEMMA NewChildTypes ==
  ASSUME BudgetAssumption, BudgetInv, NEW p \in Scopes, NEW o \in Scopes \cup {None}, NewChild(p, o)
  PROVE  Types'
<1>1. DepthOf(p) \in Nat /\ DepthOf(o) \in Nat
  BY DEF DepthOf, Scopes, BudgetInv, Types, Node, BudgetAssumption
<1>2. Max({DepthOf(p), DepthOf(o)}) \in Nat
  BY <1>1, MaxOfTwo
<1>3. PICK n \in Addrs \ Scopes :
         scope' = [scope EXCEPT ![n] =
                     [parent |-> p, observer |-> o, depth |-> 1 + Max({DepthOf(p), DepthOf(o)}),
                      root |-> scope[p].root, lineage |-> Reached(p, o, n)]]
  BY DEF NewChild
<1>4. scope[p] \in Node /\ (o # None => scope[o] \in Node) /\ p \in Addrs /\ o \in Addrs \cup {None}
  BY DEF Scopes, BudgetInv, Types
<1>5. Reached(p, o, n) \in SUBSET Addrs
  BY <1>4 DEF Reached, Node
<1>6. scope' \in [Addrs -> Node \cup {None}]
  BY <1>2, <1>3, <1>4, <1>5 DEF BudgetInv, Types, Node
<1>7. QED
  BY <1>6 DEF NewChild, BudgetInv, Types

\* The step of one attempt leaves the others and the scopes alone.
Sets(a, r) == r \in Attempt /\ att' = [att EXCEPT ![a] = r] /\ scope' = scope
SameMoney == budget' \in Snapshot /\ budget' = [budget EXCEPT !.state = budget'.state]

\* What Sets says of each attempt
LEMMA SetsOne ==
  ASSUME Types, NEW a \in Attempts, NEW r, Sets(a, r)
  PROVE  /\ att' \in [Attempts -> Attempt] /\ att'[a] = r /\ r \in Attempt /\ att[a] \in Attempt
         /\ \A b \in Attempts \ {a} : att'[b] = att[b]
BY DEF Types, Sets

\* A step that only blocks the budget keeps its counters.
LEMMA MoneyKept ==
  ASSUME Types, SameMoney
  PROVE  /\ budget'.root = budget.root /\ budget'.charged = budget.charged
         /\ budget'.retained = budget.retained /\ budget'.reserved = budget.reserved
         /\ budget'.in_flight = budget.in_flight
BY DEF Types, SameMoney, Snapshot

\* Each action, as a change of one attempt's record
LEMMA PrepareDoes ==
  ASSUME BudgetAssumption, Types, NEW a \in Attempts, Prepare(a)
  PROVE  /\ att[a].pc = "idle" /\ SameMoney /\ state' = state /\ lock' = lock
         /\ \E n \in Scopes, q \in {"counting", "done"} :
              Sets(a, [att[a] EXCEPT !.at = n, !.pc = q])
<1>1. att \in [Attempts -> Attempt] /\ att[a] \in Attempt /\ budget \in Snapshot
  BY DEF Types
<1>2. PICK n \in Scopes, q \in {"counting", "done"} : att' = [att EXCEPT ![a].at = n, ![a].pc = q]
  BY DEF Prepare
<1>3. [att[a] EXCEPT !.at = n, !.pc = q] \in Attempt
  BY <1>1 DEF Attempt, PCs, Scopes
<1>4. att' = [att EXCEPT ![a] = [att[a] EXCEPT !.at = n, !.pc = q]]
  BY <1>1, <1>2 DEF Attempt
<1>5. SameMoney
  <2>1. budget' = budget \/ Block("unsupported")
    BY DEF Prepare
  <2>2. QED
    BY <1>1, <2>1 DEF SameMoney, Block, Snapshot, States
<1>6. QED
  BY <1>3, <1>4, <1>5 DEF Sets, Prepare

LEMMA CountInputDoes ==
  ASSUME BudgetAssumption, Types, NEW a \in Attempts, CountInput(a)
  PROVE  /\ att[a].pc = "counting" /\ SameMoney /\ state' = state /\ lock' = lock
         /\ \/ \E i \in Inputs, o \in Outputs :
                 Budgeted(a) /\ Sets(a, [att[a] EXCEPT !.pc = "reserve", !.input = i, !.output = o])
            \/ Budgeted(a) /\ Sets(a, [att[a] EXCEPT !.pc = "done"])
            \/ ~Budgeted(a) /\ Sets(a, [att[a] EXCEPT !.pc = "starting"])
<1>1. att \in [Attempts -> Attempt] /\ att[a] \in Attempt /\ budget \in Snapshot
  BY DEF Types
<1>2. CASE \E i \in Inputs, o \in Outputs :
             /\ att' = [att EXCEPT ![a].pc = "reserve", ![a].input = i, ![a].output = o]
             /\ Budgeted(a) /\ UNCHANGED budget
  <2>1. PICK i \in Inputs, o \in Outputs :
               att' = [att EXCEPT ![a].pc = "reserve", ![a].input = i, ![a].output = o]
    BY <1>2
  <2>2. i \in Nat /\ o \in Nat
    BY DEF BudgetAssumption
  <2>3. att' = [att EXCEPT ![a] = [att[a] EXCEPT !.pc = "reserve", !.input = i, !.output = o]]
    BY <1>1, <2>1 DEF Attempt
  <2>4. [att[a] EXCEPT !.pc = "reserve", !.input = i, !.output = o] \in Attempt
    BY <1>1, <2>2 DEF Attempt, PCs
  <2>5. SameMoney
    BY <1>1, <1>2 DEF SameMoney, Snapshot
  <2>6. QED
    BY <1>2, <2>3, <2>4, <2>5 DEF Sets, CountInput
<1>3. CASE Budgeted(a) /\ Goto(a, "done") /\ \E reason \in {"counting_failed", "unsupported"} : Block(reason)
  <2>1. SameMoney
    BY <1>1, <1>3 DEF SameMoney, Block, Snapshot, States
  <2>2. QED
    BY <1>1, <1>3, <2>1 DEF Sets, CountInput, Goto, Attempt, PCs
<1>4. CASE ~Budgeted(a) /\ Goto(a, "starting") /\ UNCHANGED budget
  <2>1. SameMoney
    BY <1>1, <1>4 DEF SameMoney, Snapshot
  <2>2. QED
    BY <1>1, <1>4, <2>1 DEF Sets, CountInput, Goto, Attempt, PCs
<1>5. QED
  BY <1>2, <1>3, <1>4 DEF CountInput

LEMMA ReserveDoes ==
  ASSUME BudgetAssumption, Types, NEW a \in Attempts, Reserve(a)
  PROVE  /\ att[a].pc = "reserve" /\ state' = state /\ lock' = lock
         /\ \/ SameMoney /\ Sets(a, [att[a] EXCEPT !.pc = "done"])
            \/ /\ Sets(a, [att[a] EXCEPT !.pc = "starting", !.reserved = TRUE])
               /\ Amount(a) <= Remaining /\ Amount(a) \in Nat
               /\ budget' \in Snapshot
               /\ budget' = [budget EXCEPT !.reserved = budget.reserved + Amount(a),
                                           !.in_flight = budget.in_flight + 1]
<1>1. att \in [Attempts -> Attempt] /\ att[a] \in Attempt /\ budget \in Snapshot
  BY DEF Types
<1>2. Amount(a) \in Nat
  BY <1>1 DEF Amount, Attempt
<1>3. CASE Goto(a, "done") /\ budget' \in {budget, [budget EXCEPT !.state = "exhausted"]}
  <2>1. SameMoney
    BY <1>1, <1>3 DEF SameMoney, Snapshot, States
  <2>2. QED
    BY <1>1, <1>3, <2>1 DEF Sets, Reserve, Goto, Attempt, PCs
<1>4. CASE /\ ~(Amount(a) > Remaining)
           /\ att' = [att EXCEPT ![a].pc = "starting", ![a].reserved = TRUE]
           /\ budget' = [budget EXCEPT !.reserved = @ + Amount(a), !.in_flight = @ + 1]
  <2>1. [att[a] EXCEPT !.pc = "starting", !.reserved = TRUE] \in Attempt
    BY <1>1 DEF Attempt, PCs
  <2>2. att' = [att EXCEPT ![a] = [att[a] EXCEPT !.pc = "starting", !.reserved = TRUE]]
    BY <1>1, <1>4 DEF Attempt
  <2>3. Amount(a) <= Remaining
    BY <1>1, <1>2, <1>4 DEF Remaining, Snapshot, BudgetAssumption
  <2>4. budget' = [budget EXCEPT !.reserved = budget.reserved + Amount(a),
                                 !.in_flight = budget.in_flight + 1]
    BY <1>4
  <2>5. budget' \in Snapshot
    <3>1. budget.reserved + Amount(a) \in Nat /\ budget.in_flight + 1 \in Nat
      BY <1>1, <1>2 DEF Snapshot
    <3>2. QED
      BY <1>1, <2>4, <3>1 DEF Snapshot
  <2>6. QED
    BY <1>2, <2>1, <2>2, <2>3, <2>4, <2>5 DEF Sets, Reserve
<1>5. QED
  BY <1>3, <1>4 DEF Reserve

\* The counters when start has counted the attempt
Counted(a) ==
    [n \in Addrs |-> IF n \in Lineage(a) THEN [state[n] EXCEPT !.in_flight = @ + 1] ELSE state[n]]

LEMMA StartDoes ==
  ASSUME BudgetAssumption, Types, NEW a \in Attempts, Start(a)
  PROVE  /\ att[a].pc = "starting" /\ Holds(a) = Lineage(a) /\ budget' = budget /\ Unlock(a)
         /\ \/ state' = state /\ Sets(a, [att[a] EXCEPT !.pc = "charging"])
            \/ /\ \A n \in Lineage(a) : /\ ~state[n].overflowed
                                        /\ ~(state[n].requests + state[n].in_flight + 1 > MaxTotal)
               /\ state' = Counted(a)
               /\ \E s \in 0 .. MaxSpend : Sets(a, [att[a] EXCEPT !.pc = "sent", !.spent = s])
<1>1. att \in [Attempts -> Attempt] /\ att[a] \in Attempt
  BY DEF Types
<1>2. CASE Goto(a, "charging") /\ state' = state
  BY <1>1, <1>2 DEF Start, Goto, Sets, Attempt, PCs
<1>3. CASE ~(Goto(a, "charging") /\ state' = state)
  <2>1. /\ \A n \in Lineage(a) : /\ ~state[n].overflowed
                                 /\ ~(state[n].requests + state[n].in_flight + 1 > MaxTotal)
        /\ state' = Counted(a)
        /\ \E s \in 0 .. MaxSpend : att' = [att EXCEPT ![a].pc = "sent", ![a].spent = s]
    BY <1>3 DEF Start, Counted
  <2>2. PICK s \in 0 .. MaxSpend : att' = [att EXCEPT ![a].pc = "sent", ![a].spent = s]
    BY <2>1
  <2>3. s \in Nat
    BY DEF BudgetAssumption
  <2>4. att' = [att EXCEPT ![a] = [att[a] EXCEPT !.pc = "sent", !.spent = s]]
    BY <1>1, <2>2 DEF Attempt
  <2>5. [att[a] EXCEPT !.pc = "sent", !.spent = s] \in Attempt
    BY <1>1, <2>3 DEF Attempt, PCs
  <2>6. QED
    BY <2>1, <2>4, <2>5 DEF Start, Sets
<1>4. QED
  BY <1>2, <1>3

LEMMA ObserveDoes ==
  ASSUME BudgetAssumption, Types, NEW a \in Attempts, Observe(a)
  PROVE  /\ att[a].pc = "sent" /\ budget' = budget /\ state' = state /\ lock' = lock
         /\ \E n \in 0 .. att[a].spent, final \in BOOLEAN :
              /\ final => n = att[a].spent
              /\ Sets(a, [att[a] EXCEPT !.receipt = [total |-> n, complete |-> final]])
<1>1. att \in [Attempts -> Attempt] /\ att[a] \in Attempt
  BY DEF Types
<1>2. PICK n \in 0 .. att[a].spent, final \in BOOLEAN :
         /\ final => n = att[a].spent
         /\ att' = [att EXCEPT ![a].receipt = [total |-> n, complete |-> final]]
  BY DEF Observe
<1>3. n \in Nat
  BY <1>1 DEF Attempt
<1>4. [att[a] EXCEPT !.receipt = [total |-> n, complete |-> final]] \in Attempt
  BY <1>1, <1>3 DEF Attempt, Receipt
<1>5. att' = [att EXCEPT ![a] = [att[a] EXCEPT !.receipt = [total |-> n, complete |-> final]]]
  BY <1>1, <1>2 DEF Attempt
<1>6. QED
  BY <1>2, <1>4, <1>5 DEF Observe, Sets

LEMMA SettleDoes ==
  ASSUME BudgetAssumption, Types, NEW a \in Attempts, Settle(a)
  PROVE  /\ att[a].pc = "settling" /\ Holds(a) = Lineage(a) /\ budget' = budget /\ Unlock(a)
         /\ state' = SettleIn(Lineage(a), a)
         /\ Sets(a, [att[a] EXCEPT !.pc = IF att[a].dropped THEN "done" ELSE "charging"])
<1>1. att \in [Attempts -> Attempt] /\ att[a] \in Attempt
  BY DEF Types
<1>2. [att[a] EXCEPT !.pc = IF att[a].dropped THEN "done" ELSE "charging"] \in Attempt
  BY <1>1 DEF Attempt, PCs
<1>3. QED
  BY <1>1, <1>2 DEF Settle, Goto, Sets

LEMMA EndsDoes ==
  ASSUME BudgetAssumption, Types, NEW a \in Attempts
  PROVE  /\ Finish(a) => /\ att[a].pc = "sent" /\ UNCHANGED <<state, lock, budget>>
                         /\ Sets(a, [att[a] EXCEPT !.pc = "settling"])
         /\ Cancel(a) => /\ att[a].pc = "counting" /\ UNCHANGED <<state, lock, budget>>
                         /\ Sets(a, [att[a] EXCEPT !.pc = "done"])
         /\ DropAttempt(a) =>
              /\ att[a].pc = "sent" /\ UNCHANGED <<state, lock>> /\ Charge(a)
              /\ Sets(a, [att[a] EXCEPT !.pc = "settling", !.dropped = TRUE, !.reserved = FALSE])
         /\ Release(a) =>
              /\ att[a].pc = "charging" /\ UNCHANGED <<state, lock>> /\ Charge(a)
              /\ Sets(a, [att[a] EXCEPT !.pc = "done", !.reserved = FALSE])
<1>1. att \in [Attempts -> Attempt] /\ att[a] \in Attempt
  BY DEF Types
<1>2. /\ [att[a] EXCEPT !.pc = "settling"] \in Attempt
      /\ [att[a] EXCEPT !.pc = "done"] \in Attempt
      /\ [att[a] EXCEPT !.pc = "settling", !.dropped = TRUE, !.reserved = FALSE] \in Attempt
      /\ [att[a] EXCEPT !.pc = "done", !.reserved = FALSE] \in Attempt
  BY <1>1 DEF Attempt, PCs
<1>3. CASE Finish(a)
  BY <1>1, <1>2, <1>3 DEF Finish, Goto, Sets, Cancel, DropAttempt, Release
<1>4. CASE Cancel(a)
  BY <1>1, <1>2, <1>4 DEF Finish, Goto, Sets, Cancel, DropAttempt, Release
<1>5. ASSUME DropAttempt(a)
      PROVE  Sets(a, [att[a] EXCEPT !.pc = "settling", !.dropped = TRUE, !.reserved = FALSE])
  <2>1. att' = [att EXCEPT ![a] =
                  [att[a] EXCEPT !.pc = "settling", !.dropped = TRUE, !.reserved = FALSE]]
    BY <1>1, <1>5 DEF DropAttempt, Attempt
  <2>2. QED
    BY <1>2, <1>5, <2>1 DEF DropAttempt, Sets
<1>6. ASSUME Release(a) PROVE Sets(a, [att[a] EXCEPT !.pc = "done", !.reserved = FALSE])
  <2>1. att' = [att EXCEPT ![a] = [att[a] EXCEPT !.pc = "done", !.reserved = FALSE]]
    BY <1>1, <1>6 DEF Release, Attempt
  <2>2. QED
    BY <1>2, <1>6, <2>1 DEF Release, Sets
<1>7. QED
  BY <1>3, <1>4, <1>5, <1>6 DEF Finish, Cancel, DropAttempt, Release

\* A reported total is a number.
LEMMA ReportedNat == ASSUME Types, NEW a \in Attempts PROVE Reported(a) \in Nat /\ ReportedOf[a] = Reported(a)
BY DEF Types, Attempt, Receipt, Reported, ReportedOf

\* An attempt that was started is counted in every scope of its lineage.
LEMMA StartedCounts ==
  ASSUME BudgetAssumption, BudgetInv, NEW a \in Started, NEW n \in Lineage(a)
  PROVE  /\ n \in Addrs /\ a \in Within(n) \cap Started /\ IsFiniteSet(Within(n) \cap Started)
         /\ state[n].in_flight - 1 \in Nat
<1>1. att[a].at \in Scopes /\ a \in Attempts
  BY DEF BudgetInv, AttemptsKnown, AttemptKnown, Started
<1>2. scope[att[a].at] \in Node /\ att[a].at # None
  BY <1>1 DEF BudgetInv, Types, Scopes, BudgetAssumption
<1>3. n \in Addrs
  BY <1>2 DEF Lineage, Node
<1>4. a \in Within(n) \cap Started /\ IsFiniteSet(Within(n) \cap Started)
  BY <1>1, <1>2, FS_Subset DEF Within, BudgetAssumption
<1>5. Cardinality(Within(n) \cap Started) \in Nat /\ Cardinality(Within(n) \cap Started) # 0
  BY <1>4, FS_EmptySet, FS_CardinalityType
<1>6. state[n].in_flight = Cardinality(Within(n) \cap Started)
  BY <1>3 DEF BudgetInv, CountsKnown, Counts
<1>7. QED
  BY <1>3, <1>4, <1>5, <1>6

\* A step of attempt a
Acts(a) == Prepare(a) \/ Step(a) \/ Observe(a) \/ Ends(a) \/ Cancel(a)

\* Every step of an attempt keeps the types, the graph, the budget's root and
\* the other attempts.
LEMMA ActsTyped ==
  ASSUME BudgetAssumption, BudgetInv, NEW a \in Attempts, Acts(a)
  PROVE  /\ Types' /\ budget'.root = budget.root /\ scope' = scope
         /\ \A b \in Attempts \ {a} : att'[b] = att[b]
<1>0. /\ scope \in [Addrs -> Node \cup {None}] /\ state \in [Addrs -> Counter]
      /\ lock \in [Addrs -> Attempts \cup {None}] /\ budget \in Snapshot
      /\ att \in [Attempts -> Attempt] /\ att[a] \in Attempt /\ Types
  BY DEF BudgetInv, Types
<1>1. CASE (Prepare(a) \/ CountInput(a)) \/ (Reserve(a) /\ SameMoney)
  <2>1. (\E r : Sets(a, r)) /\ SameMoney /\ state' = state /\ lock' = lock
    BY <1>0, <1>1, PrepareDoes, CountInputDoes, ReserveDoes
  <2>2. QED
    BY <1>0, <2>1, SetsOne, MoneyKept DEF Types, Sets, SameMoney
<1>2. CASE Reserve(a) /\ ~SameMoney
  <2>1. (\E r : Sets(a, r)) /\ state' = state /\ lock' = lock /\ budget' \in Snapshot
        /\ budget'.root = budget.root
    BY <1>0, <1>2, ReserveDoes DEF Snapshot
  <2>2. QED
    BY <1>0, <2>1, SetsOne DEF Types, Sets
<1>3. CASE Lock(a)
  BY <1>0, <1>3 DEF Lock, Types
<1>4. CASE Start(a)
  <2>1. (\E r : Sets(a, r)) /\ budget' = budget
    BY <1>0, <1>4, StartDoes
  <2>2. lock' \in [Addrs -> Attempts \cup {None}]
    BY <1>0, <1>4 DEF Start, Unlock
  <2>3. state' \in [Addrs -> Counter]
    BY <1>0, <1>4 DEF Start, Counter
  <2>4. QED
    BY <1>0, <2>1, <2>2, <2>3, SetsOne DEF Types, Sets
<1>5. CASE Settle(a)
  <2>1. (\E r : Sets(a, r)) /\ budget' = budget
    BY <1>0, <1>5, SettleDoes
  <2>2. lock' \in [Addrs -> Attempts \cup {None}]
    BY <1>0, <1>5 DEF Settle, Unlock
  <2>3. ASSUME NEW n \in Addrs PROVE state'[n] \in Counter
    <3>1. n \in Lineage(a) => state[n].in_flight - 1 \in Nat
      BY <1>5, StartedCounts DEF Settle, Started
    <3>2. Reported(a) \in Nat /\ state[n] \in Counter
      BY <1>0, ReportedNat
    <3>3. state'[n] \in {state[n], [state[n] EXCEPT !.in_flight = @ - 1, !.overflowed = TRUE],
            [state[n] EXCEPT !.in_flight = @ - 1, !.requests = @ + 1, !.total = @ + Reported(a)]}
          /\ (n \notin Lineage(a) => state'[n] = state[n])
      BY <1>0, <1>5, <2>3 DEF Settle, SettleIn
    <3>4. CASE state'[n] = state[n]
      BY <3>2, <3>4
    <3>5. CASE state'[n] # state[n]
      <4>1. state[n].in_flight - 1 \in Nat /\ state[n].requests + 1 \in Nat
            /\ state[n].total + Reported(a) \in Nat
        BY <3>1, <3>2, <3>3, <3>5 DEF Counter
      <4>2. QED
        BY <3>2, <3>3, <3>5, <4>1 DEF Counter
    <3>6. QED
      BY <3>4, <3>5
  <2>4. state' \in [Addrs -> Counter]
    BY <1>5, <2>3 DEF Settle, SettleIn
  <2>5. QED
    BY <1>0, <2>1, <2>2, <2>4, SetsOne DEF Types, Sets
<1>6. CASE Release(a) \/ DropAttempt(a)
  <2>1. (\E r : Sets(a, r)) /\ state' = state /\ lock' = lock /\ Charge(a)
    BY <1>0, <1>6, EndsDoes
  <2>2. QED
    BY <1>0, <2>1, SetsOne, ChargeTypes DEF Types, Sets
<1>7. CASE Observe(a) \/ Finish(a) \/ Cancel(a)
  <2>1. (\E r : Sets(a, r)) /\ state' = state /\ lock' = lock /\ budget' = budget
    BY <1>0, <1>7, EndsDoes, ObserveDoes
  <2>2. QED
    BY <1>0, <2>1, SetsOne DEF Types, Sets
<1>8. QED
  BY <1>1, <1>2, <1>3, <1>4, <1>5, <1>6, <1>7 DEF Acts, Step, Ends

-----------------------------------------------------------------------------
\* The graph of the scopes: only NewChild changes it.

\* A new scope at a free address, its links and its lineage
LEMMA NewChildDoes ==
  ASSUME BudgetAssumption, BudgetInv, NEW p \in Scopes, NEW o \in Scopes \cup {None}, NewChild(p, o)
  PROVE  \E n \in Addrs \ Scopes :
           /\ Scopes' = Scopes \cup {n}
           /\ \A k \in Scopes : scope'[k] = scope[k]
           /\ scope'[n] \in Node /\ scope'[n].parent = p /\ scope'[n].observer = o
           /\ scope'[n].lineage = Reached(p, o, n)
<1>1. PICK n \in Addrs \ Scopes :
         scope' = [scope EXCEPT ![n] =
                     [parent |-> p, observer |-> o, depth |-> 1 + Max({DepthOf(p), DepthOf(o)}),
                      root |-> scope[p].root, lineage |-> Reached(p, o, n)]]
  BY DEF NewChild
<1>2. scope \in [Addrs -> Node \cup {None}] /\ scope' \in [Addrs -> Node \cup {None}]
  BY NewChildTypes DEF BudgetInv, Types
<1>3. DepthOf(p) \in Nat /\ DepthOf(o) \in Nat
  BY DEF DepthOf, Scopes, BudgetInv, Types, Node, BudgetAssumption
<1>4. Max({DepthOf(p), DepthOf(o)}) \in Nat
  BY <1>3, MaxOfTwo
<1>5. scope[p] \in Node /\ (o # None => scope[o] \in Node) /\ p \in Addrs /\ o \in Addrs \cup {None}
  BY <1>2 DEF Scopes
<1>6. Reached(p, o, n) \in SUBSET Addrs
  BY <1>5 DEF Reached, Node
<1>7. scope'[n] = [parent |-> p, observer |-> o, depth |-> 1 + Max({DepthOf(p), DepthOf(o)}),
                   root |-> scope[p].root, lineage |-> Reached(p, o, n)]
      /\ \A k \in Addrs \ {n} : scope'[k] = scope[k]
  BY <1>1, <1>2
<1>8. scope'[n] \in Node
  BY <1>4, <1>5, <1>6, <1>7 DEF Node
<1>9. scope'[n] # None
  BY <1>8 DEF BudgetAssumption
<1>10. Scopes' = Scopes \cup {n}
  BY <1>7, <1>9 DEF Scopes
<1>11. QED
  BY <1>7, <1>8, <1>10 DEF Scopes

\* Links lead to scopes.
LEMMA LinksInside ==
  ASSUME GraphInv, NEW n \in Scopes
  PROVE  Links(n) \subseteq Scopes
BY DEF GraphInv, LineageLeast, Closed

\* The lineage of a new scope is what its links reach, and the lineages of the
\* others stay so.
LEMMA NewChildGraph ==
  ASSUME BudgetAssumption, BudgetInv, NEW p \in Scopes, NEW o \in Scopes \cup {None}, NewChild(p, o)
  PROVE  GraphInv'
<1>1. PICK n \in Addrs \ Scopes :
           /\ Scopes' = Scopes \cup {n}
           /\ \A k \in Scopes : scope'[k] = scope[k]
           /\ scope'[n] \in Node /\ scope'[n].parent = p /\ scope'[n].observer = o
           /\ scope'[n].lineage = Reached(p, o, n)
  BY NewChildDoes
<1>2. /\ \A k \in Scopes : Links(k)' = Links(k) /\ scope'[k].lineage = scope[k].lineage
      /\ Links(n)' = {p, o} \ {None}
  BY <1>1 DEF Links
<1>3. GraphInv
  BY DEF BudgetInv
<1>4. \A k \in Scopes : Links(k) \subseteq Scopes
  BY <1>3, LinksInside
<1>5. ASSUME NEW k \in Scopes PROVE LineageLeast(k)'
  <2>1. LineageLeast(k)
    BY <1>3 DEF GraphInv
  <2>2. k \in scope'[k].lineage /\ scope'[k].lineage \subseteq Scopes'
    BY <1>1, <1>2, <2>1 DEF LineageLeast
  <2>3. ASSUME NEW j \in scope'[k].lineage PROVE Links(j)' \subseteq scope'[k].lineage
    BY <1>2, <2>1 DEF LineageLeast, Closed
  <2>4. ASSUME NEW S \in SUBSET Scopes', k \in S, \A j \in S : Links(j)' \subseteq S
        PROVE  scope'[k].lineage \subseteq S
    <3>1. S \cap Scopes \in SUBSET Scopes /\ k \in S \cap Scopes
      BY <2>4
    <3>2. Closed(S \cap Scopes)
      BY <1>2, <1>4, <2>4 DEF Closed
    <3>3. scope[k].lineage \subseteq S \cap Scopes
      BY <2>1, <3>1, <3>2 DEF LineageLeast
    <3>4. QED
      BY <1>2, <3>3
  <2>5. QED
    BY <2>2, <2>3, <2>4 DEF LineageLeast, Closed
<1>6. LineageLeast(n)'
  <2>1. LineageLeast(p) /\ (o # None => LineageLeast(o))
    BY <1>3 DEF GraphInv
  <2> DEFINE L == scope'[n].lineage
  <2>2. L = {n} \cup scope[p].lineage \cup (IF o = None THEN {} ELSE scope[o].lineage)
    BY <1>1 DEF Reached
  <2>3. n \in L /\ L \subseteq Scopes'
    BY <1>1, <2>1, <2>2 DEF LineageLeast
  <2>4. ASSUME NEW j \in L PROVE Links(j)' \subseteq L
    <3>1. CASE j = n
      BY <1>2, <2>1, <2>2, <3>1 DEF LineageLeast
    <3>2. CASE j \in scope[p].lineage
      <4>1. j \in Scopes /\ Links(j) \subseteq scope[p].lineage
        BY <2>1, <3>2 DEF LineageLeast, Closed
      <4>2. QED
        BY <1>2, <2>2, <4>1
    <3>3. CASE o # None /\ j \in scope[o].lineage
      <4>1. j \in Scopes /\ Links(j) \subseteq scope[o].lineage
        BY <2>1, <3>3 DEF LineageLeast, Closed
      <4>2. QED
        BY <1>2, <2>2, <3>3, <4>1
    <3>4. QED
      BY <2>2, <3>1, <3>2, <3>3
  <2>5. ASSUME NEW S \in SUBSET Scopes', n \in S, \A j \in S : Links(j)' \subseteq S
        PROVE  L \subseteq S
    <3>1. p \in S /\ (o # None => o \in S)
      BY <1>2, <2>5 DEF BudgetInv, BudgetAssumption, Scopes
    <3>2. S \cap Scopes \in SUBSET Scopes /\ p \in S \cap Scopes /\ (o # None => o \in S \cap Scopes)
      BY <3>1
    <3>3. Closed(S \cap Scopes)
      BY <1>2, <1>4, <2>5 DEF Closed
    <3>4. scope[p].lineage \subseteq S /\ (o # None => scope[o].lineage \subseteq S)
      BY <2>1, <3>2, <3>3 DEF LineageLeast
    <3>5. QED
      BY <2>2, <2>5, <3>4
  <2> HIDE DEF L
  <2>6. QED
    BY <2>3, <2>4, <2>5 DEF L, LineageLeast, Closed
<1>7. QED
  BY <1>1, <1>5, <1>6 DEF GraphInv

\* While the graph is built no attempt has begun.
LEMMA NewChildRest ==
  ASSUME BudgetAssumption, BudgetInv, NEW p \in Scopes, NEW o \in Scopes \cup {None}, NewChild(p, o)
  PROVE  AttemptsKnown' /\ LocksHeld' /\ CountsKnown' /\ BudgetKnown'
<1>1. UNCHANGED <<state, lock, budget, att>> /\ \A a \in Attempts : att[a].pc = "idle"
  BY DEF NewChild, Building
<1>2. \A a \in Attempts : att[a].at = None /\ AttemptKnown(a)
  BY <1>1 DEF BudgetInv, AttemptsKnown, AttemptKnown
<1>3. AttemptsKnown'
  <2>1. ASSUME NEW a \in Attempts PROVE AttemptKnown(a)'
    BY <1>1, <1>2 DEF AttemptKnown, Untouched, NoReceipt
  <2>2. QED
    BY <2>1 DEF AttemptsKnown
<1>4. \A b \in Attempts, n \in Addrs : lock[n] # b
  BY <1>1 DEF BudgetInv, LocksHeld, LockHeld
<1>5. LocksHeld'
  BY <1>1, <1>4 DEF LocksHeld, LockHeld
<1>6. \A n \in Addrs : Within(n) = {} /\ Within(n)' = {}
  BY <1>1, <1>2 DEF Within
<1>7. ReportedOf' = ReportedOf /\ Started' = Started /\ Settled' = Settled /\ Live' = Live /\ AmountOf' = AmountOf
  BY <1>1 DEF ReportedOf, Reported, Started, Settled, Live, AmountOf, Amount
<1>8. CountsKnown'
  <2>1. ASSUME NEW n \in Addrs PROVE Counts(n)'
    <3>1. Counts(n)
      BY DEF BudgetInv, CountsKnown
    <3>2. QED
      BY <1>1, <1>6, <1>7, <3>1 DEF Counts
  <2>2. QED
    BY <2>1 DEF CountsKnown
<1>9. CoverOf' = CoverOf
  <2>1. \A a \in Attempts : Cover(a)' = Cover(a)
    BY <1>1, <1>2 DEF Cover, Amount
  <2>2. QED
    BY <2>1 DEF CoverOf
<1>10. BudgetKnown'
  BY <1>1, <1>7, <1>9 DEF BudgetInv, BudgetKnown
<1>11. QED
  BY <1>3, <1>5, <1>8, <1>10

-----------------------------------------------------------------------------
\* What an attempt knows.

\* Every step of an attempt keeps what each stage knows.
LEMMA ActsKnown ==
  ASSUME BudgetAssumption, BudgetInv, NEW a \in Attempts, Acts(a)
  PROVE  AttemptsKnown'
<1>1. /\ Types /\ Types' /\ budget'.root = budget.root /\ scope' = scope
      /\ \A b \in Attempts \ {a} : att'[b] = att[b]
  BY ActsTyped DEF BudgetInv
<1>2. \A b \in Attempts : AttemptKnown(b)
  BY DEF BudgetInv, AttemptsKnown
<1>3. Scopes' = Scopes /\ None \notin Scopes
  BY <1>1 DEF Scopes, BudgetAssumption
<1>4. ASSUME NEW b \in Attempts \ {a} PROVE AttemptKnown(b)'
  <2>1. att'[b] = att[b] /\ AttemptKnown(b)
    BY <1>1, <1>2
  <2>2. QED
    BY <1>1, <1>3, <2>1 DEF AttemptKnown, Untouched, NoReceipt, Budgeted
<1>5. AttemptKnown(a)'
  <2>0. AttemptKnown(a) /\ att[a] \in Attempt /\ att'[a] \in Attempt
    BY <1>1, <1>2 DEF Types
  <2>1. ASSUME NEW r, Sets(a, r) PROVE att'[a] = r
    BY <1>1, <2>1, SetsOne
  <2>2. att'[a].at = att[a].at => (Budgeted(a)' <=> Budgeted(a))
    BY <1>1 DEF Budgeted
  <2> USE DEF AttemptKnown, Untouched, NoReceipt
  <2>3. CASE Prepare(a)
    <3>0. PICK n \in Scopes, q \in {"counting", "done"} : Sets(a, [att[a] EXCEPT !.at = n, !.pc = q])
      BY <1>1, <2>3, PrepareDoes
    <3>1. att'[a] = [att[a] EXCEPT !.at = n, !.pc = q]
      BY <2>1, <3>0
    <3>2. att[a].pc = "idle"
      BY <1>1, <2>3, PrepareDoes
    <3>3. QED
      BY <1>3, <2>0, <3>1, <3>2 DEF Attempt, Receipt
  <2>4. CASE CountInput(a)
    <3>1. att[a].pc = "counting"
      BY <1>1, <2>4, CountInputDoes
    <3>2. CASE \E i \in Inputs, o \in Outputs :
                 Budgeted(a) /\ Sets(a, [att[a] EXCEPT !.pc = "reserve", !.input = i, !.output = o])
      <4>1. PICK i \in Inputs, o \in Outputs :
                 Budgeted(a) /\ att'[a] = [att[a] EXCEPT !.pc = "reserve", !.input = i, !.output = o]
        BY <2>1, <3>2
      <4>2. o # 0
        BY DEF BudgetAssumption
      <4>3. QED
        BY <1>3, <2>0, <2>2, <3>1, <4>1, <4>2 DEF Attempt
    <3>3. CASE Budgeted(a) /\ Sets(a, [att[a] EXCEPT !.pc = "done"])
      BY <1>3, <2>0, <2>1, <2>2, <3>1, <3>3 DEF Attempt
    <3>4. CASE ~Budgeted(a) /\ Sets(a, [att[a] EXCEPT !.pc = "starting"])
      BY <1>3, <2>0, <2>1, <2>2, <3>1, <3>4 DEF Attempt
    <3>5. QED
      BY <1>1, <2>4, <3>2, <3>3, <3>4, CountInputDoes
  <2>5. CASE Reserve(a)
    <3>1. att[a].pc = "reserve"
      BY <1>1, <2>5, ReserveDoes
    <3>2. \/ att'[a] = [att[a] EXCEPT !.pc = "done"]
          \/ att'[a] = [att[a] EXCEPT !.pc = "starting", !.reserved = TRUE]
      BY <1>1, <2>1, <2>5, ReserveDoes
    <3>3. CASE att'[a] = [att[a] EXCEPT !.pc = "done"]
      BY <1>3, <2>0, <2>2, <3>1, <3>3 DEF Attempt
    <3>4. CASE att'[a] = [att[a] EXCEPT !.pc = "starting", !.reserved = TRUE]
      BY <1>3, <2>0, <2>2, <3>1, <3>4 DEF Attempt
    <3>5. QED
      BY <3>2, <3>3, <3>4
  <2>6. CASE Lock(a)
    BY <1>3, <2>0, <2>2, <2>6 DEF Lock
  <2>7. CASE Start(a)
    <3>1. att[a].pc = "starting"
      BY <1>1, <2>7, StartDoes
    <3>2. \/ att'[a] = [att[a] EXCEPT !.pc = "charging"]
          \/ \E s \in 0 .. MaxSpend : att'[a] = [att[a] EXCEPT !.pc = "sent", !.spent = s]
      BY <1>1, <2>1, <2>7, StartDoes
    <3>3. CASE att'[a] = [att[a] EXCEPT !.pc = "charging"]
      BY <1>3, <2>0, <2>2, <3>1, <3>3 DEF Attempt
    <3>4. CASE \E s \in 0 .. MaxSpend : att'[a] = [att[a] EXCEPT !.pc = "sent", !.spent = s]
      BY <1>3, <2>0, <2>2, <3>1, <3>4 DEF Attempt
    <3>5. QED
      BY <3>2, <3>3, <3>4
  <2>8. CASE Settle(a)
    <3>1. /\ att[a].pc = "settling"
          /\ att'[a] = [att[a] EXCEPT !.pc = IF att[a].dropped THEN "done" ELSE "charging"]
      BY <1>1, <2>1, <2>8, SettleDoes
    <3>2. QED
      BY <1>3, <2>0, <2>2, <3>1 DEF Attempt
  <2>9. CASE Observe(a)
    <3>1. /\ att[a].pc = "sent"
          /\ \E n \in 0 .. att[a].spent, final \in BOOLEAN :
               /\ final => n = att[a].spent
               /\ att'[a] = [att[a] EXCEPT !.receipt = [total |-> n, complete |-> final]]
      BY <1>1, <2>1, <2>9, ObserveDoes
    <3>2. PICK n \in 0 .. att[a].spent, final \in BOOLEAN :
               /\ final => n = att[a].spent
               /\ att'[a] = [att[a] EXCEPT !.receipt = [total |-> n, complete |-> final]]
      BY <3>1
    <3>3. n \in Nat /\ n <= att[a].spent
      BY <2>0 DEF Attempt
    <3>4. QED
      BY <1>3, <2>0, <2>2, <3>1, <3>2, <3>3 DEF Attempt
  <2>10. CASE Finish(a) \/ Cancel(a) \/ DropAttempt(a) \/ Release(a)
    <3>1. \/ att[a].pc = "sent" /\ att'[a] = [att[a] EXCEPT !.pc = "settling"]
          \/ att[a].pc = "counting" /\ att'[a] = [att[a] EXCEPT !.pc = "done"]
          \/ /\ att[a].pc = "sent"
             /\ att'[a] = [att[a] EXCEPT !.pc = "settling", !.dropped = TRUE, !.reserved = FALSE]
          \/ /\ att[a].pc = "charging"
             /\ att'[a] = [att[a] EXCEPT !.pc = "done", !.reserved = FALSE]
      BY <1>1, <2>1, <2>10, EndsDoes
    <3>2. CASE att[a].pc = "sent" /\ att'[a] = [att[a] EXCEPT !.pc = "settling"]
      BY <1>3, <2>0, <2>2, <3>2 DEF Attempt
    <3>3. CASE att[a].pc = "counting" /\ att'[a] = [att[a] EXCEPT !.pc = "done"]
      BY <1>3, <2>0, <2>2, <3>3 DEF Attempt
    <3>4. CASE /\ att[a].pc = "sent"
               /\ att'[a] = [att[a] EXCEPT !.pc = "settling", !.dropped = TRUE, !.reserved = FALSE]
      BY <1>3, <2>0, <2>2, <3>4 DEF Attempt
    <3>5. CASE att[a].pc = "charging" /\ att'[a] = [att[a] EXCEPT !.pc = "done", !.reserved = FALSE]
      BY <1>3, <2>0, <2>2, <3>5 DEF Attempt
    <3>6. QED
      BY <3>1, <3>2, <3>3, <3>4, <3>5
  <2>11. QED
    BY <2>3, <2>4, <2>5, <2>6, <2>7, <2>8, <2>9, <2>10 DEF Acts, Step, Ends
<1>6. QED
  BY <1>4, <1>5 DEF AttemptsKnown

-----------------------------------------------------------------------------
\* The locks.

\* A step that moves no attempt that holds a lock
LEMMA LocksKept ==
  ASSUME LocksHeld, lock' = lock, scope' = scope,
         \A b \in Attempts, n \in Addrs : lock[n] = b => att'[b] = att[b]
  PROVE  LocksHeld'
<1>1. ASSUME NEW b \in Attempts, NEW n \in Addrs, lock[n] = b PROVE LockHeld(b, n)'
  <2>1. LockHeld(b, n) /\ att'[b] = att[b]
    BY <1>1 DEF LocksHeld
  <2>2. Lineage(b)' = Lineage(b) /\ Holds(b)' = Holds(b)
    BY <2>1 DEF Lineage, Holds
  <2>3. QED
    BY <2>1, <2>2 DEF LockHeld
<1>2. QED
  BY <1>1 DEF LocksHeld, LockHeld

\* An attempt that has changed its lineage's counters releases all its locks.
LEMMA LocksReleased ==
  ASSUME BudgetAssumption, Types, LocksHeld, NEW a \in Attempts, Unlock(a), scope' = scope,
         \A b \in Attempts \ {a} : att'[b] = att[b]
  PROVE  LocksHeld'
<1>1. ASSUME NEW b \in Attempts, NEW n \in Addrs, lock'[n] = b PROVE LockHeld(b, n)'
  <2>1. b # a /\ lock[n] = b
    BY <1>1 DEF Unlock, BudgetAssumption
  <2>2. LockHeld(b, n) /\ att'[b] = att[b]
    BY <2>1 DEF LocksHeld
  <2>3. \A m \in Addrs : lock'[m] = b <=> lock[m] = b
    BY <2>1 DEF Unlock, BudgetAssumption
  <2>4. Lineage(b)' = Lineage(b) /\ Holds(b)' = Holds(b)
    BY <2>2, <2>3 DEF Lineage, Holds
  <2>5. QED
    BY <2>1, <2>2, <2>4 DEF LockHeld
<1>2. QED
  BY <1>1 DEF LocksHeld, LockHeld

\* Locks are taken in the order of their addresses.
LEMMA LockTaken ==
  ASSUME BudgetAssumption, BudgetInv, NEW a \in Attempts, Lock(a)
  PROVE  LocksHeld'
<1>1. Types /\ LocksHeld /\ UNCHANGED <<scope, att>>
  BY DEF BudgetInv, Lock
<1>2. att[a].at \in Scopes /\ att[a].pc \in {"starting", "settling"}
  BY DEF Lock, BudgetInv, AttemptsKnown, AttemptKnown
<1>3. Holds(a) \subseteq Lineage(a)
  BY <1>1 DEF Holds, LocksHeld, LockHeld
<1> DEFINE x == NextLock(a)
<1>4. x \in Lineage(a) \ Holds(a) /\ \A m \in Lineage(a) \ Holds(a) : x <= m
  BY <1>1, <1>2, <1>3, NextLockLeast DEF Lock
<1>5. /\ \A m \in Lineage(a) : m \in Addrs
      /\ \A m \in Addrs : m \in Nat
  BY <1>1, <1>2 DEF Lineage, Types, Scopes, Node, BudgetAssumption
<1>6. lock' = [lock EXCEPT ![x] = a] /\ lock[x] = None /\ x \in Addrs
  BY <1>4, <1>5 DEF Lock
<1> HIDE DEF x
<1>7. /\ lock'[x] = a /\ \A n \in Addrs \ {x} : lock'[n] = lock[n]
      /\ Holds(a)' = Holds(a) \cup {x}
      /\ \A b \in Attempts \ {a} : Holds(b)' = Holds(b)
  BY <1>1, <1>6 DEF Types, Holds, BudgetAssumption
<1>8. \A b \in Attempts : Lineage(b)' = Lineage(b)
  BY <1>1 DEF Lineage
<1>9. ASSUME NEW b \in Attempts, NEW n \in Addrs, lock'[n] = b PROVE LockHeld(b, n)'
  <2>1. CASE n = x
    <3>1. b = a
      BY <1>7, <1>9, <2>1
    <3>2. ASSUME NEW m \in Lineage(a) \ Holds(a)' PROVE n < m
      <4>1. m \in Lineage(a) \ Holds(a) /\ m # x
        BY <1>7
      <4>2. x <= m /\ x \in Nat /\ m \in Nat
        BY <1>4, <1>5, <1>6, <4>1
      <4>3. QED
        BY <2>1, <4>1, <4>2
    <3>3. QED
      BY <1>1, <1>2, <1>4, <1>8, <2>1, <3>1, <3>2 DEF LockHeld
  <2>2. CASE n # x
    <3>1. lock[n] = b /\ LockHeld(b, n) /\ Holds(b) \subseteq Holds(b)'
      BY <1>1, <1>7, <1>9, <2>2 DEF LocksHeld
    <3>2. QED
      BY <1>1, <1>8, <3>1 DEF LockHeld
  <2>3. QED
    BY <2>1, <2>2
<1>10. QED
  BY <1>9 DEF LocksHeld, LockHeld

\* Locks are taken in order and given up together.
LEMMA ActsLocks ==
  ASSUME BudgetAssumption, BudgetInv, NEW a \in Attempts, Acts(a)
  PROVE  LocksHeld'
<1>1. /\ Types /\ LocksHeld /\ scope' = scope /\ \A b \in Attempts \ {a} : att'[b] = att[b]
  BY ActsTyped DEF BudgetInv
<1>2. CASE Lock(a)
  BY <1>2, LockTaken
<1>3. CASE Start(a) \/ Settle(a)
  <2>1. Unlock(a)
    BY <1>3 DEF Start, Settle
  <2>2. QED
    BY <1>1, <2>1, LocksReleased
<1>4. CASE ~(Lock(a) \/ Start(a) \/ Settle(a))
  <2>1. att[a].pc \notin {"starting", "settling"} /\ lock' = lock
    BY <1>4 DEF Acts, Step, Ends, Prepare, CountInput, Reserve, Observe, Finish, DropAttempt,
                Release, Cancel
  <2>2. \A n \in Addrs : lock[n] # a
    BY <1>1, <2>1 DEF LocksHeld, LockHeld
  <2>3. QED
    BY <1>1, <2>1, <2>2, LocksKept
<1>5. QED
  BY <1>2, <1>3, <1>4

-----------------------------------------------------------------------------
\* What the scopes count.

\* The attempts that are counted settled, and what the attempt that settles adds.
LEMMA SumGrows ==
  ASSUME NEW S, IsFiniteSet(S), NEW a, a \notin S, NEW f, NEW g, NEW T, T = S \cup {a},
         \A b \in S : f[b] \in Int /\ g[b] = f[b], g[a] \in Int
  PROVE  SumFunctionOnSet(g, T) = SumFunctionOnSet(f, S) + g[a] /\ SumFunctionOnSet(f, S) \in Int
<1>1. SumFunctionOnSet(g, S) = SumFunctionOnSet(f, S)
  BY SumSame
<1>2. \A b \in S \cup {a} : g[b] \in Int
  OBVIOUS
<1>3. SumFunctionOnSet(g, S) \in Int /\ SumFunctionOnSet(g, S \cup {a}) = SumFunctionOnSet(g, S) + g[a]
  BY <1>2, SumAdd
<1>4. QED
  BY <1>1, <1>3

\* A step that changes no counter: the attempt stays where it is counted, or ends with
\* nothing reported.
Quiet(a) ==
    /\ state' = state /\ (a \in Started' <=> a \in Started)
    /\ a \in Started => att'[a].at = att[a].at
    /\ \/ a \notin Settled /\ a \notin Settled'
       \/ /\ a \in Settled /\ a \in Settled' /\ att'[a].at = att[a].at
          /\ att'[a].receipt = att[a].receipt
       \/ a \notin Settled /\ a \in Settled' /\ Reported(a)' = 0

\* A step of one attempt keeps what the others contribute to the scopes.
LEMMA OthersCounted ==
  ASSUME Types, Types', NEW a \in Attempts, scope' = scope, \A b \in Attempts \ {a} : att'[b] = att[b]
  PROVE  /\ \A b \in Attempts \ {a} : /\ b \in Started' <=> b \in Started
                                      /\ b \in Settled' <=> b \in Settled
                                      /\ ReportedOf'[b] = ReportedOf[b]
                                      /\ \A n \in Addrs : b \in Within(n)' <=> b \in Within(n)
         /\ \A b \in Attempts : ReportedOf[b] \in Nat /\ ReportedOf'[b] \in Nat
         /\ ReportedOf[a] = Reported(a) /\ ReportedOf'[a] = Reported(a)'
<1>1. \A b \in Attempts : /\ Reported(b) \in Nat /\ ReportedOf[b] = Reported(b)
                          /\ Reported(b)' \in Nat /\ ReportedOf'[b] = Reported(b)'
  BY DEF Types, Attempt, Receipt, Reported, ReportedOf
<1>2. \A b \in Attempts \ {a} : /\ Reported(b)' = Reported(b)
                                /\ b \in Started' <=> b \in Started
                                /\ b \in Settled' <=> b \in Settled
                                /\ \A n \in Addrs : b \in Within(n)' <=> b \in Within(n)
  BY DEF Reported, Started, Settled, Within, Lineage
<1>3. QED
  BY <1>1, <1>2

\* A step that neither starts nor settles keeps the counts.
LEMMA QuietCounts ==
  ASSUME BudgetAssumption, Types, Types', CountsKnown, NEW a \in Attempts, Quiet(a), scope' = scope,
         \A b \in Attempts \ {a} : att'[b] = att[b]
  PROVE  CountsKnown'
<1>1. SUFFICES ASSUME NEW n \in Addrs PROVE Counts(n)'
  BY DEF CountsKnown
<1>2. Counts(n) /\ state' = state /\ IsFiniteSet(Attempts)
  BY DEF CountsKnown, Quiet, BudgetAssumption
<1>3. /\ \A b \in Attempts \ {a} : /\ b \in Started' <=> b \in Started
                                   /\ b \in Settled' <=> b \in Settled
                                   /\ ReportedOf'[b] = ReportedOf[b]
                                   /\ b \in Within(n)' <=> b \in Within(n)
      /\ \A b \in Attempts : ReportedOf[b] \in Nat /\ ReportedOf'[b] \in Nat
      /\ ReportedOf[a] = Reported(a) /\ ReportedOf'[a] = Reported(a)'
  BY OthersCounted
<1>4. att'[a].at = att[a].at => (a \in Within(n)' <=> a \in Within(n))
  BY DEF Within, Lineage
<1>5. Within(n)' \cap Started' = Within(n) \cap Started
  <2>1. a \in Within(n)' \cap Started' <=> a \in Within(n) \cap Started
    BY <1>4 DEF Quiet
  <2>2. Started \subseteq Attempts /\ Started' \subseteq Attempts
    BY DEF Started
  <2>3. QED
    BY <1>3, <2>1, <2>2
<1> DEFINE S == Within(n) \cap Settled
<1> DEFINE T == Within(n)' \cap Settled'
<1>6. S \subseteq Attempts /\ T \subseteq Attempts /\ \A b \in Attempts \ {a} : b \in T <=> b \in S
  BY <1>3 DEF Within
<1>7. IsFiniteSet(S)
  BY <1>2, <1>6, FS_Subset
<1>8. SumFunctionOnSet(ReportedOf', T) = SumFunctionOnSet(ReportedOf, S)
  <2>1. CASE a \in T /\ a \notin S
    <3>0. ReportedOf'[a] = 0
      BY <1>3, <1>4, <2>1 DEF Quiet
    <3>1. T = S \cup {a} /\ ReportedOf'[a] \in Int
          /\ \A b \in S : ReportedOf[b] \in Int /\ ReportedOf'[b] = ReportedOf[b]
      BY <1>3, <1>4, <1>6, <2>1 DEF Quiet
    <3> HIDE DEF S, T
    <3>2. /\ SumFunctionOnSet(ReportedOf', T) = SumFunctionOnSet(ReportedOf, S) + ReportedOf'[a]
          /\ SumFunctionOnSet(ReportedOf, S) \in Int
      BY <1>7, <2>1, <3>1, SumGrows
    <3>3. QED
      BY <3>0, <3>2
  <2>2. CASE a \in T <=> a \in S
    <3>1. T = S
      BY <1>6, <2>2
    <3>2. a \in S => ReportedOf'[a] = ReportedOf[a]
      BY <1>3, <2>2 DEF Quiet, Reported
    <3>3. \A b \in S : ReportedOf[b] \in Int /\ ReportedOf'[b] = ReportedOf[b]
      BY <1>3, <1>6, <3>2
    <3> HIDE DEF S, T
    <3>4. QED
      BY <1>7, <3>1, <3>3, SumSame
  <2>3. CASE a \notin T /\ a \in S
    BY <1>4, <2>3 DEF Quiet
  <2>4. QED
    BY <2>1, <2>2, <2>3
<1>9. QED
  BY <1>2, <1>5, <1>8 DEF Counts

\* start counts the attempt in flight in all the scopes of its lineage.
LEMMA StartCounts ==
  ASSUME BudgetAssumption, BudgetInv, NEW a \in Attempts, Start(a), Types', state' # state
  PROVE  CountsKnown'
<1>1. /\ Types /\ scope' = scope /\ \A b \in Attempts \ {a} : att'[b] = att[b]
      /\ att[a] \in Attempt /\ att[a].at \in Scopes /\ None \notin Scopes
  <2>1. att[a].pc = "starting"
    BY DEF Start
  <2>2. QED
    BY <2>1, ActsTyped DEF BudgetInv, Acts, Step, Types, AttemptsKnown, AttemptKnown, Scopes, BudgetAssumption
<1>2. /\ att[a].pc = "starting" /\ att'[a].pc = "sent" /\ att'[a].at = att[a].at
      /\ att'[a].receipt = att[a].receipt
      /\ \A n \in Lineage(a) : ~(state[n].requests + state[n].in_flight + 1 > MaxTotal)
      /\ state' = Counted(a)
  <2>1. PICK s \in 0 .. MaxSpend : Sets(a, [att[a] EXCEPT !.pc = "sent", !.spent = s])
    BY <1>1, StartDoes
  <2>2. att'[a] = [att[a] EXCEPT !.pc = "sent", !.spent = s]
    BY <1>1, <2>1, SetsOne
  <2>3. QED
    BY <1>1, <2>2, StartDoes DEF Attempt
<1>3. SUFFICES ASSUME NEW n \in Addrs PROVE Counts(n)'
  BY DEF CountsKnown
<1>4. Counts(n) /\ IsFiniteSet(Attempts) /\ state[n] \in Counter
  BY DEF BudgetInv, CountsKnown, BudgetAssumption, Types
<1>5. /\ \A b \in Attempts \ {a} : /\ b \in Started' <=> b \in Started
                                   /\ b \in Settled' <=> b \in Settled
                                   /\ ReportedOf'[b] = ReportedOf[b]
                                   /\ b \in Within(n)' <=> b \in Within(n)
      /\ \A b \in Attempts : ReportedOf[b] \in Nat /\ ReportedOf'[b] \in Nat
  BY <1>1, OthersCounted
<1>6. /\ a \notin Started /\ a \in Started' /\ a \notin Settled /\ a \notin Settled'
      /\ (a \in Within(n)' <=> n \in Lineage(a)) /\ Started \subseteq Attempts /\ Started' \subseteq Attempts
      /\ Settled \subseteq Attempts /\ Settled' \subseteq Attempts
  BY <1>1, <1>2 DEF Started, Settled, Within, Lineage
<1>7. SumFunctionOnSet(ReportedOf', Within(n)' \cap Settled')
        = SumFunctionOnSet(ReportedOf, Within(n) \cap Settled)
  <2> DEFINE S == Within(n) \cap Settled
  <2>1. Within(n)' \cap Settled' = S /\ IsFiniteSet(S)
        /\ \A b \in S : ReportedOf[b] \in Int /\ ReportedOf'[b] = ReportedOf[b]
    BY <1>4, <1>5, <1>6, FS_Subset
  <2> HIDE DEF S
  <2>2. SumFunctionOnSet(ReportedOf', S) = SumFunctionOnSet(ReportedOf, S)
    BY <2>1, SumSame
  <2>3. QED
    BY <2>1, <2>2 DEF S
<1> DEFINE W == Within(n) \cap Started
<1>8. IsFiniteSet(W) /\ a \notin W
  BY <1>4, <1>6, FS_Subset
<1>9. CASE n \in Lineage(a)
  <2>1. Within(n)' \cap Started' = W \cup {a}
    BY <1>5, <1>6, <1>9
  <2>2. Cardinality(W \cup {a}) = Cardinality(W) + 1
    BY <1>8, FS_AddElement
  <2>3. /\ state'[n].in_flight = state[n].in_flight + 1 /\ state'[n].requests = state[n].requests
        /\ state'[n].total = state[n].total /\ state'[n].overflowed = state[n].overflowed
    BY <1>2, <1>4, <1>9 DEF Counter, Counted
  <2>4. state'[n].requests + state'[n].in_flight <= MaxTotal
    BY <1>2, <1>4, <1>9, <2>3 DEF Counter, BudgetAssumption
  <2>5. QED
    BY <1>4, <1>7, <2>1, <2>2, <2>3, <2>4 DEF Counts
<1>10. CASE n \notin Lineage(a)
  <2>1. Within(n)' \cap Started' = W
    BY <1>5, <1>6, <1>10
  <2>2. state'[n] = state[n]
    BY <1>2, <1>10 DEF Counted
  <2>3. QED
    BY <1>4, <1>7, <2>1, <2>2 DEF Counts
<1>11. QED
  BY <1>9, <1>10

\* settle moves the attempt from in flight to settled in all of them.
LEMMA SettleCounts ==
  ASSUME BudgetAssumption, BudgetInv, NEW a \in Attempts, Settle(a), Types'
  PROVE  CountsKnown'
<1>1. /\ Types /\ scope' = scope /\ \A b \in Attempts \ {a} : att'[b] = att[b]
      /\ att[a] \in Attempt /\ att[a].at \in Scopes /\ None \notin Scopes
  <2>1. att[a].pc = "settling"
    BY DEF Settle
  <2>2. QED
    BY <2>1, ActsTyped DEF BudgetInv, Acts, Step, Types, AttemptsKnown, AttemptKnown, Scopes, BudgetAssumption
<1>2. /\ att[a].pc = "settling" /\ att'[a].pc \in {"charging", "done"} /\ att'[a].at = att[a].at
      /\ att'[a].receipt = att[a].receipt /\ state' = SettleIn(Lineage(a), a)
  <2>1. att'[a] = [att[a] EXCEPT !.pc = IF att[a].dropped THEN "done" ELSE "charging"]
    BY <1>1, SettleDoes, SetsOne
  <2>2. QED
    BY <1>1, <2>1, SettleDoes DEF Attempt
<1>3. SUFFICES ASSUME NEW n \in Addrs PROVE Counts(n)'
  BY DEF CountsKnown
<1>4. Counts(n) /\ IsFiniteSet(Attempts) /\ state[n] \in Counter
  BY DEF BudgetInv, CountsKnown, BudgetAssumption, Types
<1>5. /\ \A b \in Attempts \ {a} : /\ b \in Started' <=> b \in Started
                                   /\ b \in Settled' <=> b \in Settled
                                   /\ ReportedOf'[b] = ReportedOf[b]
                                   /\ b \in Within(n)' <=> b \in Within(n)
      /\ \A b \in Attempts : ReportedOf[b] \in Nat /\ ReportedOf'[b] \in Nat
      /\ ReportedOf[a] = Reported(a) /\ ReportedOf'[a] = Reported(a)'
  BY <1>1, OthersCounted
<1>6. /\ a \in Started /\ a \notin Started' /\ a \notin Settled /\ a \in Settled'
      /\ (a \in Within(n)' <=> n \in Lineage(a)) /\ (a \in Within(n) <=> n \in Lineage(a))
      /\ Started \subseteq Attempts /\ Started' \subseteq Attempts
      /\ Settled \subseteq Attempts /\ Settled' \subseteq Attempts
      /\ Reported(a)' = Reported(a)
  BY <1>1, <1>2 DEF Started, Settled, Within, Lineage, Reported
<1> DEFINE W == Within(n) \cap Started
<1> DEFINE S == Within(n) \cap Settled
<1> DEFINE T == Within(n)' \cap Settled'
<1>7. IsFiniteSet(W) /\ IsFiniteSet(S) /\ a \notin S /\ S \in SUBSET Attempts
  BY <1>4, <1>6, FS_Subset
<1>8. CASE n \in Lineage(a)
  <2>1. Within(n)' \cap Started' = W \ {a} /\ T = S \cup {a} /\ a \in W
    BY <1>5, <1>6, <1>8
  <2>2. Cardinality(W \ {a}) = Cardinality(W) - 1
    BY <1>7, <2>1, FS_RemoveElement
  <2>3. state[n].in_flight - 1 \in Nat /\ Reported(a) \in Nat
    BY <1>1, <1>6, <1>8, StartedCounts, ReportedNat
  <2>4. CASE \A k \in Lineage(a) : ~state[k].overflowed /\ state[k].total + Reported(a) <= MaxTotal
    <3>1. state'[n] = [state[n] EXCEPT !.in_flight = @ - 1, !.requests = @ + 1, !.total = @ + Reported(a)]
      BY <1>2, <1>8, <2>4 DEF SettleIn
    <3>2. /\ state'[n].in_flight = state[n].in_flight - 1 /\ state'[n].requests = state[n].requests + 1
          /\ state'[n].total = state[n].total + Reported(a)
      BY <1>4, <3>1 DEF Counter
    <3>3. state[n].total = SumFunctionOnSet(ReportedOf, S)
      BY <1>4, <1>8, <2>4 DEF Counts
    <3>4. SumFunctionOnSet(ReportedOf', T) = SumFunctionOnSet(ReportedOf, S) + Reported(a)
      <4>1. T = S \cup {a} /\ ReportedOf'[a] = Reported(a) /\ Reported(a) \in Int
            /\ \A b \in S : ReportedOf[b] \in Int /\ ReportedOf'[b] = ReportedOf[b]
        BY <1>5, <1>6, <1>7, <2>1, <2>3
      <4> HIDE DEF S, T
      <4>2. SumFunctionOnSet(ReportedOf', T) = SumFunctionOnSet(ReportedOf, S) + ReportedOf'[a]
        BY <1>7, <4>1, SumGrows
      <4>3. QED
        BY <4>1, <4>2
    <3>5. state'[n].total <= MaxTotal
      BY <1>8, <2>4, <3>2
    <3>6. state'[n].requests + state'[n].in_flight <= MaxTotal
      BY <1>4, <2>3, <3>2 DEF Counts, Counter
    <3>7. QED
      BY <1>4, <2>1, <2>2, <3>2, <3>3, <3>4, <3>5, <3>6 DEF Counts
  <2>5. CASE ~\A k \in Lineage(a) : ~state[k].overflowed /\ state[k].total + Reported(a) <= MaxTotal
    <3>1. state'[n] = [state[n] EXCEPT !.in_flight = @ - 1, !.overflowed = TRUE]
      BY <1>2, <1>8, <2>5 DEF SettleIn
    <3>2. /\ state'[n].in_flight = state[n].in_flight - 1 /\ state'[n].requests = state[n].requests
          /\ state'[n].total = state[n].total /\ state'[n].overflowed
      BY <1>4, <3>1 DEF Counter
    <3>3. state'[n].requests + state'[n].in_flight <= MaxTotal
      BY <1>4, <2>3, <3>2 DEF Counts, Counter, BudgetAssumption
    <3>4. QED
      BY <1>4, <2>1, <2>2, <3>2, <3>3 DEF Counts
  <2>6. QED
    BY <2>4, <2>5
<1>9. CASE n \notin Lineage(a)
  <2>1. Within(n)' \cap Started' = W /\ T = S
    BY <1>5, <1>6, <1>9
  <2>2. state'[n] = state[n]
    BY <1>2, <1>9 DEF SettleIn
  <2>3. \A b \in S : ReportedOf[b] \in Int /\ ReportedOf'[b] = ReportedOf[b]
    BY <1>5, <1>7
  <2>4. SumFunctionOnSet(ReportedOf', S) = SumFunctionOnSet(ReportedOf, S)
    <3> HIDE DEF S
    <3> QED BY <1>7, <2>3, SumSame
  <2>5. QED
    BY <1>4, <2>1, <2>2, <2>4 DEF Counts
<1>10. QED
  BY <1>8, <1>9

\* Every step of an attempt keeps the counts of the scopes.
LEMMA ActsCounts ==
  ASSUME BudgetAssumption, BudgetInv, NEW a \in Attempts, Acts(a)
  PROVE  CountsKnown'
<1>1. /\ Types /\ Types' /\ CountsKnown /\ AttemptKnown(a) /\ AttemptKnown(a)'
      /\ scope' = scope /\ \A b \in Attempts \ {a} : att'[b] = att[b]
      /\ att[a] \in Attempt /\ att'[a] \in Attempt
  BY ActsTyped, ActsKnown DEF BudgetInv, AttemptsKnown, Types
<1>2. ASSUME NEW r, Sets(a, r) PROVE att'[a] = r
  BY <1>1, <1>2, SetsOne
<1>3. CASE Settle(a)
  BY <1>1, <1>3, SettleCounts
<1>4. CASE Start(a) /\ state' # state
  BY <1>1, <1>4, StartCounts
<1>5. ASSUME ~Settle(a), ~(Start(a) /\ state' # state) PROVE Quiet(a)
  <2> USE DEF Quiet, Started, Settled
  <2>1. CASE Prepare(a)
    <3>0. PICK n \in Scopes, q \in {"counting", "done"} : Sets(a, [att[a] EXCEPT !.at = n, !.pc = q])
      BY <1>1, <2>1, PrepareDoes
    <3>1. att'[a] = [att[a] EXCEPT !.at = n, !.pc = q]
      BY <1>2, <3>0
    <3>2. att[a].pc = "idle" /\ state' = state
      BY <1>1, <2>1, PrepareDoes
    <3>3. att'[a].receipt = NoReceipt /\ att'[a].pc \in {"counting", "done"}
      BY <1>1, <3>1, <3>2 DEF Attempt, AttemptKnown, Untouched
    <3>4. Reported(a)' = 0
      BY <3>3 DEF Reported, NoReceipt
    <3>5. QED
      BY <3>2, <3>3, <3>4
  <2>2. CASE CountInput(a) \/ Reserve(a) \/ Cancel(a) \/ Start(a)
    <3>1. /\ att[a].pc \in {"counting", "reserve", "starting"} /\ state' = state
          /\ att'[a].pc \in {"reserve", "done", "starting", "charging"} /\ att'[a].receipt = att[a].receipt
      <4>1. CASE CountInput(a)
        <5>1. att[a].pc = "counting" /\ state' = state
          BY <1>1, <4>1, CountInputDoes
        <5>2. CASE \E i \in Inputs, o \in Outputs : Sets(a, [att[a] EXCEPT !.pc = "reserve", !.input = i, !.output = o])
          <6>1. PICK i \in Inputs, o \in Outputs : Sets(a, [att[a] EXCEPT !.pc = "reserve", !.input = i, !.output = o])
            BY <5>2
          <6>2. att'[a] = [att[a] EXCEPT !.pc = "reserve", !.input = i, !.output = o]
            BY <1>2, <6>1
          <6>3. QED
            BY <1>1, <5>1, <6>2 DEF Attempt
        <5>3. CASE Sets(a, [att[a] EXCEPT !.pc = "done"])
          BY <1>1, <1>2, <5>1, <5>3 DEF Attempt
        <5>4. CASE Sets(a, [att[a] EXCEPT !.pc = "starting"])
          BY <1>1, <1>2, <5>1, <5>4 DEF Attempt
        <5>5. QED
          BY <1>1, <4>1, <5>2, <5>3, <5>4, CountInputDoes
      <4>2. CASE Reserve(a)
        <5>1. \/ att'[a] = [att[a] EXCEPT !.pc = "done"]
              \/ att'[a] = [att[a] EXCEPT !.pc = "starting", !.reserved = TRUE]
          BY <1>1, <1>2, <4>2, ReserveDoes
        <5>2. att[a].pc = "reserve" /\ state' = state
          BY <1>1, <4>2, ReserveDoes
        <5>3. QED
          BY <1>1, <5>1, <5>2 DEF Attempt
      <4>3. CASE Cancel(a)
        BY <1>1, <1>2, <4>3, EndsDoes DEF Attempt
      <4>4. CASE Start(a)
        <5>1. state' = state
          BY <1>5, <4>4
        <5>2. \/ att'[a] = [att[a] EXCEPT !.pc = "charging"]
              \/ \E s \in 0 .. MaxSpend : /\ att'[a] = [att[a] EXCEPT !.pc = "sent", !.spent = s]
                                          /\ att[a].at \in Scopes
                                          /\ state' = Counted(a)
          BY <1>1, <1>2, <4>4, StartDoes DEF AttemptKnown
        <5>3. ~\E s \in 0 .. MaxSpend : /\ att'[a] = [att[a] EXCEPT !.pc = "sent", !.spent = s]
                                        /\ att[a].at \in Scopes
                                        /\ state' = Counted(a)
          <6> SUFFICES ASSUME att[a].at \in Scopes, state' = Counted(a)
                       PROVE  FALSE
            OBVIOUS
          <6>1. att[a].at \in Lineage(a) /\ att[a].at \in Addrs
            BY DEF BudgetInv, GraphInv, LineageLeast, Lineage, Scopes
          <6>2. state'[att[a].at].in_flight = state[att[a].at].in_flight + 1 /\ state[att[a].at] \in Counter
            BY <1>1, <6>1 DEF Types, Counter, Counted
          <6>3. QED
            BY <5>1, <6>2 DEF Counter
        <5>4. QED
          BY <1>1, <4>4, <5>1, <5>2, <5>3, StartDoes DEF Attempt
      <4>5. QED
        BY <2>2, <4>1, <4>2, <4>3, <4>4
    <3>2. att'[a].receipt = NoReceipt
      BY <1>1, <3>1 DEF AttemptKnown, Untouched
    <3>3. Reported(a)' = 0
      BY <3>2 DEF Reported, NoReceipt
    <3>4. QED
      BY <3>1, <3>3
  <2>3. CASE Lock(a)
    BY <1>1, <2>3 DEF Lock
  <2>4. CASE Observe(a) \/ Finish(a) \/ DropAttempt(a)
    <3>1. /\ att[a].pc = "sent" /\ att'[a].pc \in {"sent", "settling"} /\ att'[a].at = att[a].at
          /\ state' = state
      <4>1. CASE Observe(a)
        <5>1. \E t : att'[a] = [att[a] EXCEPT !.receipt = t]
          BY <1>1, <1>2, <4>1, ObserveDoes
        <5>2. att[a].pc = "sent" /\ state' = state
          BY <1>1, <4>1, ObserveDoes
        <5>3. QED
          BY <1>1, <5>1, <5>2 DEF Attempt
      <4>2. CASE Finish(a) \/ DropAttempt(a)
        <5>1. \/ att'[a] = [att[a] EXCEPT !.pc = "settling"]
              \/ att'[a] = [att[a] EXCEPT !.pc = "settling", !.dropped = TRUE, !.reserved = FALSE]
          BY <1>1, <1>2, <4>2, EndsDoes
        <5>2. att[a].pc = "sent" /\ state' = state
          BY <1>1, <4>2, EndsDoes
        <5>3. QED
          BY <1>1, <5>1, <5>2 DEF Attempt
      <4>3. QED
        BY <2>4, <4>1, <4>2
    <3>2. QED
      BY <3>1
  <2>5. CASE Release(a)
    <3>1. /\ att[a].pc = "charging" /\ att'[a].pc = "done" /\ att'[a].at = att[a].at
          /\ att'[a].receipt = att[a].receipt /\ state' = state
      BY <1>1, <1>2, <2>5, EndsDoes DEF Attempt
    <3>2. att[a].at # None
      BY <1>1, <3>1 DEF AttemptKnown, Scopes, Types, BudgetAssumption
    <3>3. QED
      BY <3>1, <3>2
  <2>6. QED
    BY <1>5, <2>1, <2>2, <2>3, <2>4, <2>5 DEF Acts, Step, Ends
<1>6. QED
  BY <1>1, <1>3, <1>4, <1>5, QuietCounts

-----------------------------------------------------------------------------
\* The budget.

\* What settling a reservation charges: at most the bound, at least the use within it.
LEMMA ChargeDoes ==
  ASSUME BudgetAssumption, BudgetInv, NEW a \in Live, Charge(a)
  PROVE  \E gain \in Nat :
           /\ gain <= Amount(a) /\ (att[a].spent <= Amount(a) => att[a].spent <= gain)
           /\ budget'.charged = budget.charged + gain
           /\ budget'.reserved = budget.reserved - Amount(a)
           /\ budget'.in_flight = budget.in_flight - 1
           /\ budget'.retained <= budget'.charged
<1>1. a \in Attempts /\ att[a].reserved /\ budget \in Snapshot /\ att[a] \in Attempt
  BY DEF Live, BudgetInv, Types
<1>2. Amount(a) \in Nat /\ budget.retained <= budget.charged
  BY <1>1, LiveSums DEF BudgetInv, BudgetKnown
<1>3. /\ att[a].receipt.complete => att[a].receipt.total = att[a].spent
      /\ att[a].spent \in Nat
  BY <1>1 DEF BudgetInv, AttemptsKnown, AttemptKnown, Attempt
<1> DEFINE r == att[a].receipt
<1> DEFINE violated == r.total # None /\ r.total > Amount(a)
<1> DEFINE known == r.complete /\ ~violated
<1> DEFINE gain == IF known THEN r.total ELSE Amount(a)
<1> DEFINE kept == IF known THEN budget.retained ELSE budget.retained + Amount(a)
<1>4. /\ budget'.reserved = budget.reserved - Amount(a) /\ budget'.in_flight = budget.in_flight - 1
      /\ budget'.charged = budget.charged + gain /\ budget'.retained = kept
  BY <1>1 DEF Charge, Snapshot
<1>5. /\ gain \in Nat /\ gain <= Amount(a) /\ (att[a].spent <= Amount(a) => att[a].spent <= gain)
      /\ kept <= budget.charged + gain
  <2>1. CASE known
    <3>1. r.total = att[a].spent /\ ~(r.total > Amount(a))
      BY <1>3, <2>1 DEF BudgetAssumption
    <3>2. gain = att[a].spent /\ kept = budget.retained
      BY <2>1, <3>1
    <3> HIDE DEF gain, kept, known, violated, r
    <3>3. QED
      BY <1>1, <1>2, <1>3, <3>1, <3>2 DEF Snapshot
  <2>2. CASE ~known
    <3>1. gain = Amount(a) /\ kept = budget.retained + Amount(a)
      BY <2>2
    <3> HIDE DEF gain, kept, known, violated, r
    <3>2. QED
      BY <1>1, <1>2, <1>3, <3>1 DEF Snapshot
  <2>3. QED
    BY <2>1, <2>2
<1> HIDE DEF gain, kept, known, violated, r
<1>6. QED
  BY <1>4, <1>5

\* Covers and bounds are numbers.
LEMMA CoverNat ==
  ASSUME Types, NEW b \in Attempts
  PROVE  Cover(b) \in Nat /\ CoverOf[b] = Cover(b) /\ Amount(b) \in Nat /\ AmountOf[b] = Amount(b)
<1>1. att[b] \in Attempt
  BY DEF Types
<1>2. Amount(b) \in Nat
  BY <1>1 DEF Amount, Attempt
<1>3. QED
  BY <1>1, <1>2 DEF Cover, CoverOf, AmountOf, Attempt

\* A step of one attempt keeps what the others need of the budget.
LEMMA OthersCovered ==
  ASSUME Types, Types', NEW a \in Attempts, scope' = scope, budget'.root = budget.root,
         \A b \in Attempts \ {a} : att'[b] = att[b]
  PROVE  /\ \A b \in Attempts \ {a} : /\ CoverOf'[b] = CoverOf[b] /\ AmountOf'[b] = AmountOf[b]
                                      /\ b \in Live' <=> b \in Live
         /\ \A b \in Attempts : /\ CoverOf[b] \in Int /\ CoverOf'[b] \in Int
                                /\ AmountOf[b] \in Int /\ AmountOf'[b] \in Int
         /\ CoverOf[a] = Cover(a) /\ CoverOf'[a] = Cover(a)'
         /\ AmountOf[a] = Amount(a) /\ AmountOf'[a] = Amount(a)'
<1>1. \A b \in Attempts : /\ Cover(b) \in Nat /\ CoverOf[b] = Cover(b)
                          /\ Amount(b) \in Nat /\ AmountOf[b] = Amount(b)
  BY CoverNat
<1>2. \A b \in Attempts : /\ Cover(b)' \in Nat /\ CoverOf'[b] = Cover(b)'
                          /\ Amount(b)' \in Nat /\ AmountOf'[b] = Amount(b)'
  <2>1. ASSUME NEW b \in Attempts
        PROVE  /\ Cover(b)' \in Nat /\ CoverOf'[b] = Cover(b)'
               /\ Amount(b)' \in Nat /\ AmountOf'[b] = Amount(b)'
    <3>1. att'[b] \in Attempt
      BY DEF Types
    <3>2. Amount(b)' \in Nat
      BY <3>1 DEF Amount, Attempt
    <3>3. QED
      BY <3>1, <3>2 DEF Cover, CoverOf, AmountOf, Attempt
  <2>2. QED
    BY <2>1
<1>3. \A b \in Attempts \ {a} : /\ Cover(b)' = Cover(b) /\ Amount(b)' = Amount(b)
                                /\ b \in Live' <=> b \in Live
  BY DEF Cover, Amount, Budgeted, Live
<1>4. QED
  BY <1>1, <1>2, <1>3

\* A step that neither reserves nor settles
LEMMA MoneyKeeps ==
  ASSUME BudgetAssumption, Types, Types', BudgetKnown, NEW a \in Attempts, scope' = scope,
         \A b \in Attempts \ {a} : att'[b] = att[b],
         budget'.root = budget.root, budget'.charged = budget.charged,
         budget'.retained = budget.retained, budget'.reserved = budget.reserved,
         budget'.in_flight = budget.in_flight,
         att'[a].reserved <=> att[a].reserved,
         att[a].reserved => Amount(a)' = Amount(a),
         Cover(a)' = Cover(a)
  PROVE  BudgetKnown'
<1>1. /\ \A b \in Attempts \ {a} : /\ CoverOf'[b] = CoverOf[b] /\ AmountOf'[b] = AmountOf[b]
                                   /\ b \in Live' <=> b \in Live
      /\ \A b \in Attempts : CoverOf[b] \in Int /\ AmountOf[b] \in Int
      /\ CoverOf[a] = Cover(a) /\ CoverOf'[a] = Cover(a)'
      /\ AmountOf[a] = Amount(a) /\ AmountOf'[a] = Amount(a)'
  BY OthersCovered
<1>2. Live' = Live /\ (a \in Live => AmountOf'[a] = AmountOf[a])
  BY <1>1 DEF Live
<1>3. IsFiniteSet(Attempts) /\ IsFiniteSet(Live) /\ Live \subseteq Attempts
  BY LiveSums
<1>4. \A b \in Live : AmountOf[b] \in Int /\ AmountOf'[b] = AmountOf[b]
  BY <1>1, <1>2, <1>3
<1>5. SumFunctionOnSet(AmountOf', Live) = SumFunctionOnSet(AmountOf, Live)
  BY <1>3, <1>4, SumSame
<1>6. \A b \in Attempts : CoverOf[b] \in Int /\ CoverOf'[b] = CoverOf[b]
  BY <1>1
<1>7. SumFunctionOnSet(CoverOf', Attempts) = SumFunctionOnSet(CoverOf, Attempts)
  BY <1>3, <1>6, SumSame
<1>8. QED
  BY <1>2, <1>5, <1>7 DEF BudgetKnown

\* A reservation takes no more than remains.
LEMMA MoneyReserves ==
  ASSUME BudgetAssumption, BudgetInv, Types', NEW a \in Attempts, Reserve(a), ~SameMoney
  PROVE  BudgetKnown'
<1>1. /\ Types /\ BudgetKnown /\ AttemptKnown(a) /\ att[a] \in Attempt /\ budget \in Snapshot
      /\ scope' = scope /\ budget'.root = budget.root /\ \A b \in Attempts \ {a} : att'[b] = att[b]
  BY ActsTyped DEF BudgetInv, AttemptsKnown, Types, Acts, Step
<1>2. /\ Sets(a, [att[a] EXCEPT !.pc = "starting", !.reserved = TRUE])
      /\ att[a].pc = "reserve" /\ Amount(a) <= Remaining /\ Amount(a) \in Nat
      /\ budget' = [budget EXCEPT !.reserved = budget.reserved + Amount(a),
                                  !.in_flight = budget.in_flight + 1]
  BY <1>1, ReserveDoes
<1>3. att'[a] = [att[a] EXCEPT !.pc = "starting", !.reserved = TRUE]
  BY <1>1, <1>2, SetsOne
<1>4. /\ att'[a].reserved /\ Amount(a)' = Amount(a) /\ ~att[a].reserved /\ att[a].spent = 0
  BY <1>1, <1>2, <1>3 DEF Amount, Attempt, AttemptKnown, Untouched
<1>5. Cover(a) = 0 /\ Cover(a)' = Amount(a)
  BY <1>4 DEF Cover
<1>6. /\ budget'.reserved = budget.reserved + Amount(a) /\ budget'.in_flight = budget.in_flight + 1
      /\ budget'.charged = budget.charged /\ budget'.retained = budget.retained
  BY <1>1, <1>2 DEF Snapshot
<1>7. /\ \A b \in Attempts \ {a} : /\ CoverOf'[b] = CoverOf[b] /\ AmountOf'[b] = AmountOf[b]
                                   /\ b \in Live' <=> b \in Live
      /\ \A b \in Attempts : CoverOf[b] \in Int /\ CoverOf'[b] \in Int /\ AmountOf[b] \in Int
      /\ CoverOf[a] = Cover(a) /\ CoverOf'[a] = Cover(a)'
      /\ AmountOf[a] = Amount(a) /\ AmountOf'[a] = Amount(a)'
  BY <1>1, OthersCovered
<1>8. IsFiniteSet(Attempts) /\ IsFiniteSet(Live) /\ Live \subseteq Attempts
  BY <1>1, LiveSums
<1>9. Live' = Live \cup {a} /\ a \notin Live
  BY <1>4, <1>7 DEF Live
<1>10. Cardinality(Live') = Cardinality(Live) + 1
  BY <1>8, <1>9, FS_AddElement
<1>11. (\A b \in Live : AmountOf[b] \in Int /\ AmountOf'[b] = AmountOf[b]) /\ AmountOf'[a] \in Int
  BY <1>2, <1>4, <1>7, <1>8, <1>9
<1>12. SumFunctionOnSet(AmountOf', Live') = SumFunctionOnSet(AmountOf, Live) + AmountOf'[a]
  <2>1. IsFiniteSet(Live) /\ \A b \in Live : AmountOf[b] \in Int /\ AmountOf'[b] = AmountOf[b]
    BY <1>8, <1>11
  <2>2. SumFunctionOnSet(AmountOf', Live) = SumFunctionOnSet(AmountOf, Live)
    BY <2>1, SumSame
  <2>3. \A b \in Live \cup {a} : AmountOf'[b] \in Int
    BY <1>11
  <2>4. SumFunctionOnSet(AmountOf', Live \cup {a}) = SumFunctionOnSet(AmountOf', Live) + AmountOf'[a]
    BY <2>1, <2>3, <1>9, SumAdd
  <2>5. QED
    BY <1>9, <2>2, <2>4
<1>13. /\ \A b \in Attempts : CoverOf[b] \in Int /\ CoverOf'[b] \in Int
       /\ \A b \in Attempts \ {a} : CoverOf'[b] = CoverOf[b]
       /\ IsFiniteSet(Attempts)
  BY <1>7, <1>8
<1>14. SumFunctionOnSet(CoverOf', Attempts) = SumFunctionOnSet(CoverOf, Attempts) - CoverOf[a] + CoverOf'[a]
       /\ SumFunctionOnSet(CoverOf, Attempts) \in Int
  <2>1. SumFunctionOnSet(CoverOf', Attempts) = SumFunctionOnSet(CoverOf, Attempts) - CoverOf[a] + CoverOf'[a]
    BY <1>13, SumChange
  <2>2. SumFunctionOnSet(CoverOf, Attempts) \in Int
    BY <1>13, SumInt
  <2>3. QED
    BY <2>1, <2>2
<1>15. SumFunctionOnSet(CoverOf', Attempts) <= budget'.charged + budget'.reserved
  <2>1. SumFunctionOnSet(CoverOf, Attempts) <= budget.charged + budget.reserved
    BY <1>1 DEF BudgetKnown
  <2>2. CoverOf[a] = 0 /\ CoverOf'[a] = Amount(a)
    BY <1>5, <1>7
  <2>3. QED
    BY <1>1, <1>2, <1>6, <1>14, <2>1, <2>2 DEF Snapshot
<1>16. budget'.charged + budget'.reserved <= Limit
  BY <1>1, <1>2, <1>6 DEF Remaining, Snapshot, BudgetAssumption
<1>17. budget'.reserved = SumFunctionOnSet(AmountOf', Live')
  BY <1>1, <1>4, <1>6, <1>7, <1>12 DEF BudgetKnown
<1>18. QED
  BY <1>1, <1>6, <1>10, <1>15, <1>16, <1>17 DEF BudgetKnown

\* A settlement gives the bound back and charges what covers the use.
LEMMA MoneySettles ==
  ASSUME BudgetAssumption, BudgetInv, Types', NEW a \in Attempts, att[a].reserved, Charge(a),
         scope' = scope, budget'.root = budget.root, \A b \in Attempts \ {a} : att'[b] = att[b],
         ~att'[a].reserved, Amount(a)' = Amount(a), att'[a].spent = att[a].spent
  PROVE  BudgetKnown'
<1>1. Types /\ BudgetKnown /\ att[a] \in Attempt /\ budget \in Snapshot /\ a \in Live
  BY DEF BudgetInv, Types, Live
<1>2. PICK gain \in Nat :
           /\ gain <= Amount(a) /\ (att[a].spent <= Amount(a) => att[a].spent <= gain)
           /\ budget'.charged = budget.charged + gain
           /\ budget'.reserved = budget.reserved - Amount(a)
           /\ budget'.in_flight = budget.in_flight - 1
           /\ budget'.retained <= budget'.charged
  BY <1>1, ChargeDoes
<1>3. /\ Amount(a) \in Nat /\ IsFiniteSet(Attempts) /\ IsFiniteSet(Live) /\ Live \subseteq Attempts
      /\ budget.reserved = SumFunctionOnSet(AmountOf, Live \ {a}) + Amount(a)
      /\ SumFunctionOnSet(AmountOf, Live \ {a}) \in Nat
      /\ Cardinality(Live \ {a}) = budget.in_flight - 1
  BY <1>1, LiveSums
<1>4. Cover(a) = Amount(a) /\ Cover(a)' \in Nat /\ Cover(a)' <= gain
  BY <1>1, <1>2 DEF Cover, Attempt
<1>5. /\ \A b \in Attempts \ {a} : /\ CoverOf'[b] = CoverOf[b] /\ AmountOf'[b] = AmountOf[b]
                                   /\ b \in Live' <=> b \in Live
      /\ \A b \in Attempts : CoverOf[b] \in Int /\ CoverOf'[b] \in Int /\ AmountOf[b] \in Int
      /\ CoverOf[a] = Cover(a) /\ CoverOf'[a] = Cover(a)'
  BY <1>1, OthersCovered
<1> DEFINE R == Live \ {a}
<1>6. Live' = R /\ IsFiniteSet(R) /\ \A b \in R : AmountOf[b] \in Int /\ AmountOf'[b] = AmountOf[b]
  BY <1>3, <1>5, FS_Subset DEF Live
<1> HIDE DEF R
<1>7. SumFunctionOnSet(AmountOf', R) = SumFunctionOnSet(AmountOf, R)
  BY <1>6, SumSame
<1>8. budget'.reserved = SumFunctionOnSet(AmountOf', Live') /\ budget'.in_flight = Cardinality(Live')
  BY <1>2, <1>3, <1>6, <1>7 DEF R
<1>9. /\ \A b \in Attempts : CoverOf[b] \in Int /\ CoverOf'[b] \in Int
      /\ \A b \in Attempts \ {a} : CoverOf'[b] = CoverOf[b]
  BY <1>5
<1>10. SumFunctionOnSet(CoverOf', Attempts) = SumFunctionOnSet(CoverOf, Attempts) - CoverOf[a] + CoverOf'[a]
       /\ SumFunctionOnSet(CoverOf, Attempts) \in Int
  BY <1>3, <1>9, SumChange, SumInt
<1>11. SumFunctionOnSet(CoverOf', Attempts) <= budget'.charged + budget'.reserved
  <2>1. SumFunctionOnSet(CoverOf, Attempts) <= budget.charged + budget.reserved
    BY <1>1 DEF BudgetKnown
  <2>2. CoverOf[a] = Amount(a) /\ CoverOf'[a] \in Nat /\ CoverOf'[a] <= gain
    BY <1>4, <1>5
  <2>3. QED
    BY <1>1, <1>2, <1>3, <1>10, <2>1, <2>2 DEF Snapshot
<1>12. budget'.charged + budget'.reserved <= Limit
  <2>1. budget.charged + budget.reserved <= Limit
    BY <1>1 DEF BudgetKnown
  <2>2. QED
    BY <1>1, <1>2, <1>3, <2>1 DEF Snapshot, BudgetAssumption
<1>13. QED
  BY <1>2, <1>8, <1>11, <1>12 DEF BudgetKnown

\* What an attempt is covered for depends on its bound, its use and its scope.
LEMMA CoverSame ==
  ASSUME NEW a \in Attempts, scope' = scope, budget'.root = budget.root,
         att'[a].at = att[a].at, att'[a].input = att[a].input, att'[a].output = att[a].output,
         att'[a].spent = att[a].spent, att'[a].reserved = att[a].reserved
  PROVE  Cover(a)' = Cover(a) /\ Amount(a)' = Amount(a)
BY DEF Cover, Amount, Budgeted

\* An attempt that has nothing yet
LEMMA CoverNothing ==
  ASSUME NEW a \in Attempts, ~att[a].reserved, ~att'[a].reserved, att[a].spent = 0, att'[a].spent = 0
  PROVE  Cover(a) = 0 /\ Cover(a)' = 0
BY DEF Cover

\* Every step of an attempt keeps the budget.
LEMMA ActsMoney ==
  ASSUME BudgetAssumption, BudgetInv, NEW a \in Attempts, Acts(a)
  PROVE  BudgetKnown'
<1>1. /\ Types /\ Types' /\ BudgetKnown /\ AttemptKnown(a) /\ AttemptKnown(a)'
      /\ scope' = scope /\ budget'.root = budget.root /\ \A b \in Attempts \ {a} : att'[b] = att[b]
      /\ att[a] \in Attempt /\ att'[a] \in Attempt
  BY ActsTyped, ActsKnown DEF BudgetInv, AttemptsKnown, Types
<1>2. ASSUME NEW r, Sets(a, r) PROVE att'[a] = r
  BY <1>1, <1>2, SetsOne
<1>3. ASSUME SameMoney, att'[a].reserved = att[a].reserved, att[a].reserved => Amount(a)' = Amount(a),
             Cover(a)' = Cover(a)
      PROVE  BudgetKnown'
  BY <1>1, <1>3, MoneyKept, MoneyKeeps
<1>4. ASSUME UNCHANGED budget PROVE SameMoney
  BY <1>1, <1>4 DEF SameMoney, Types, Snapshot
<1>5. CASE Prepare(a) \/ CountInput(a) \/ Cancel(a) \/ (Reserve(a) /\ SameMoney)
  <2>1. /\ att[a].pc \in {"idle", "counting", "reserve"} /\ SameMoney
        /\ att'[a].reserved = att[a].reserved /\ att'[a].spent = att[a].spent
    <3>1. CASE Prepare(a)
      <4>1. PICK n \in Scopes, q \in {"counting", "done"} : Sets(a, [att[a] EXCEPT !.at = n, !.pc = q])
        BY <1>1, <3>1, PrepareDoes
      <4>2. att[a].pc = "idle" /\ SameMoney
        BY <1>1, <3>1, PrepareDoes
      <4>3. QED
        BY <1>1, <1>2, <4>1, <4>2 DEF Attempt
    <3>2. CASE CountInput(a)
      <4>1. att[a].pc = "counting" /\ SameMoney
        BY <1>1, <3>2, CountInputDoes
      <4>2. CASE \E i \in Inputs, o \in Outputs : Sets(a, [att[a] EXCEPT !.pc = "reserve", !.input = i, !.output = o])
        <5>1. PICK i \in Inputs, o \in Outputs : Sets(a, [att[a] EXCEPT !.pc = "reserve", !.input = i, !.output = o])
          BY <4>2
        <5>2. att'[a] = [att[a] EXCEPT !.pc = "reserve", !.input = i, !.output = o]
          BY <1>2, <5>1
        <5>3. QED
          BY <1>1, <4>1, <5>2 DEF Attempt
      <4>3. CASE Sets(a, [att[a] EXCEPT !.pc = "done"])
        BY <1>1, <1>2, <4>1, <4>3 DEF Attempt
      <4>4. CASE Sets(a, [att[a] EXCEPT !.pc = "starting"])
        BY <1>1, <1>2, <4>1, <4>4 DEF Attempt
      <4>5. QED
        BY <1>1, <3>2, <4>2, <4>3, <4>4, CountInputDoes
    <3>3. CASE Cancel(a)
      <4>1. att[a].pc = "counting" /\ UNCHANGED budget /\ Sets(a, [att[a] EXCEPT !.pc = "done"])
        BY <1>1, <3>3, EndsDoes
      <4>2. QED
        BY <1>1, <1>2, <1>4, <4>1 DEF Attempt
    <3>4. CASE Reserve(a) /\ SameMoney
      <4>1. budget \in Snapshot /\ budget'.in_flight = budget.in_flight
        BY <1>1, <3>4, MoneyKept DEF Types
      <4>2. ASSUME budget' = [budget EXCEPT !.reserved = budget.reserved + Amount(a),
                                            !.in_flight = budget.in_flight + 1]
            PROVE  FALSE
        <5>1. budget'.in_flight = budget.in_flight + 1 /\ budget.in_flight \in Nat
          BY <4>1, <4>2 DEF Snapshot
        <5>2. QED
          BY <4>1, <5>1
      <4>3. att[a].pc = "reserve" /\ Sets(a, [att[a] EXCEPT !.pc = "done"])
        BY <1>1, <3>4, <4>2, ReserveDoes
      <4>4. QED
        BY <1>1, <1>2, <3>4, <4>3 DEF Attempt
    <3>5. QED
      BY <1>5, <3>1, <3>2, <3>3, <3>4
  <2>2. ~att[a].reserved /\ att[a].spent = 0
    BY <1>1, <2>1 DEF AttemptKnown, Untouched
  <2>3. Cover(a)' = Cover(a)
    BY <2>1, <2>2, CoverNothing
  <2>4. QED
    BY <1>3, <2>1, <2>2, <2>3
<1>6. CASE Reserve(a) /\ ~SameMoney
  BY <1>1, <1>6, MoneyReserves
<1>7. CASE Start(a)
  <2>1. att[a].pc = "starting" /\ UNCHANGED budget
    BY <1>1, <1>7, StartDoes
  <2>2. /\ att'[a].at = att[a].at /\ att'[a].input = att[a].input /\ att'[a].output = att[a].output
        /\ att'[a].reserved = att[a].reserved
    <3>1. CASE Sets(a, [att[a] EXCEPT !.pc = "charging"])
      BY <1>1, <1>2, <3>1 DEF Attempt
    <3>2. CASE \E s \in 0 .. MaxSpend : Sets(a, [att[a] EXCEPT !.pc = "sent", !.spent = s])
      <4>1. PICK s \in 0 .. MaxSpend : Sets(a, [att[a] EXCEPT !.pc = "sent", !.spent = s])
        BY <3>2
      <4>2. att'[a] = [att[a] EXCEPT !.pc = "sent", !.spent = s]
        BY <1>2, <4>1
      <4>3. QED
        BY <1>1, <4>2 DEF Attempt
    <3>3. QED
      BY <1>1, <1>7, <3>1, <3>2, StartDoes
  <2>3. Amount(a)' = Amount(a) /\ (Budgeted(a)' <=> Budgeted(a))
    BY <1>1, <2>2 DEF Amount, Budgeted
  <2>4. att[a].reserved <=> Budgeted(a)
    BY <1>1, <2>1 DEF AttemptKnown
  <2>5. Cover(a)' = Cover(a)
    BY <2>2, <2>3, <2>4 DEF Cover
  <2>6. QED
    BY <1>3, <1>4, <2>1, <2>2, <2>3, <2>5
<1>8. CASE Lock(a) \/ Settle(a) \/ Finish(a) \/ Observe(a)
  <2>1. /\ UNCHANGED budget
        /\ att'[a].at = att[a].at /\ att'[a].input = att[a].input /\ att'[a].output = att[a].output
        /\ att'[a].spent = att[a].spent /\ att'[a].reserved = att[a].reserved
    <3>1. CASE Lock(a)
      BY <3>1 DEF Lock
    <3>2. CASE Settle(a) \/ Finish(a)
      <4>1. UNCHANGED budget /\ \E q : Sets(a, [att[a] EXCEPT !.pc = q])
        BY <1>1, <3>2, SettleDoes, EndsDoes
      <4>2. PICK q : Sets(a, [att[a] EXCEPT !.pc = q])
        BY <4>1
      <4>3. att'[a] = [att[a] EXCEPT !.pc = q]
        BY <1>2, <4>2
      <4>4. QED
        BY <1>1, <4>1, <4>3 DEF Attempt
    <3>3. CASE Observe(a)
      <4>1. UNCHANGED budget /\ \E t : Sets(a, [att[a] EXCEPT !.receipt = t])
        BY <1>1, <3>3, ObserveDoes
      <4>2. PICK t : Sets(a, [att[a] EXCEPT !.receipt = t])
        BY <4>1
      <4>3. att'[a] = [att[a] EXCEPT !.receipt = t]
        BY <1>2, <4>2
      <4>4. QED
        BY <1>1, <4>1, <4>3 DEF Attempt
    <3>4. QED
      BY <1>8, <3>1, <3>2, <3>3
  <2>2. QED
    BY <1>1, <1>3, <1>4, <2>1, CoverSame
<1>9. CASE Release(a) \/ DropAttempt(a)
  <2>1. /\ Charge(a)
        /\ att'[a].at = att[a].at /\ att'[a].input = att[a].input /\ att'[a].output = att[a].output
        /\ att'[a].spent = att[a].spent /\ ~att'[a].reserved
    <3>1. CASE Release(a)
      <4>1. Charge(a) /\ Sets(a, [att[a] EXCEPT !.pc = "done", !.reserved = FALSE])
        BY <1>1, <3>1, EndsDoes
      <4>2. att'[a] = [att[a] EXCEPT !.pc = "done", !.reserved = FALSE]
        BY <1>2, <4>1
      <4>3. QED
        BY <1>1, <4>1, <4>2 DEF Attempt
    <3>2. CASE DropAttempt(a)
      <4>1. Charge(a) /\ Sets(a, [att[a] EXCEPT !.pc = "settling", !.dropped = TRUE, !.reserved = FALSE])
        BY <1>1, <3>2, EndsDoes
      <4>2. att'[a] = [att[a] EXCEPT !.pc = "settling", !.dropped = TRUE, !.reserved = FALSE]
        BY <1>2, <4>1
      <4>3. QED
        BY <1>1, <4>1, <4>2 DEF Attempt
    <3>3. QED
      BY <1>9, <3>1, <3>2
  <2>2. CASE att[a].reserved
    <3>1. Amount(a)' = Amount(a)
      BY <2>1 DEF Amount
    <3>2. QED
      BY <1>1, <2>1, <2>2, <3>1, MoneySettles
  <2>3. CASE ~att[a].reserved
    <3>1. UNCHANGED budget
      BY <2>1, <2>3 DEF Charge
    <3>2. att[a].reserved = FALSE /\ att'[a].reserved = FALSE
      BY <1>1, <2>1, <2>3 DEF Attempt
    <3>3. QED
      BY <1>1, <1>3, <1>4, <2>1, <3>1, <3>2, CoverSame
  <2>4. QED
    BY <2>2, <2>3
<1>10. QED
  BY <1>5, <1>6, <1>7, <1>8, <1>9 DEF Acts, Step, Ends

-----------------------------------------------------------------------------
\* The invariant is inductive.

\* Two roots and nothing dispatched
LEMMA BudgetInitially == ASSUME BudgetAssumption, Init PROVE BudgetInv
<1>1. PICK run \in Addrs, session \in Addrs :
         /\ scope = [n \in Addrs |-> IF n \in {run, session} THEN Root(n) ELSE None]
         /\ budget = [state |-> "active", root |-> run, charged |-> 0, retained |-> 0,
                      reserved |-> 0, in_flight |-> 0]
  BY DEF Init
<1>2. /\ state = [n \in Addrs |-> Zero] /\ lock = [n \in Addrs |-> None]
      /\ att = [a \in Attempts |-> Fresh]
  BY DEF Init
<1>3. Types
  <2>1. scope \in [Addrs -> Node \cup {None}]
    BY <1>1 DEF Root, Node
  <2>2. state \in [Addrs -> Counter] /\ lock \in [Addrs -> Attempts \cup {None}]
    BY <1>2 DEF Zero, Counter
  <2>3. budget \in Snapshot
    BY <1>1 DEF Snapshot, States
  <2>4. att \in [Attempts -> Attempt]
    BY <1>2 DEF Fresh, NoReceipt, Attempt, Receipt, PCs
  <2>5. QED
    BY <2>1, <2>2, <2>3, <2>4 DEF Types
<1>4. GraphInv
  <2>1. \A n \in Addrs : Root(n) \in Node
    BY DEF Root, Node
  <2>2. Scopes = {run, session} /\ \A n \in Scopes : scope[n] = Root(n)
    BY <1>1, <2>1 DEF Scopes, BudgetAssumption
  <2>3. ASSUME NEW n \in Scopes PROVE LineageLeast(n)
    <3>1. scope[n].lineage = {n} /\ Links(n) = {}
      BY <2>2, <2>3 DEF Root, Links
    <3>2. QED
      BY <2>3, <3>1 DEF LineageLeast, Closed
  <2>4. QED
    BY <2>3 DEF GraphInv
<1>5. \A a \in Attempts : att[a] = Fresh
  BY <1>2
<1>6. AttemptsKnown
  <2>1. ASSUME NEW a \in Attempts PROVE AttemptKnown(a)
    <3>1. /\ att[a].pc = "idle" /\ att[a].at = None /\ att[a].spent = 0 /\ ~att[a].reserved
          /\ ~att[a].dropped /\ att[a].receipt = NoReceipt
      BY <1>5 DEF Fresh
    <3>2. NoReceipt.total = None /\ ~NoReceipt.complete
      BY DEF NoReceipt
    <3>3. QED
      BY <3>1, <3>2 DEF AttemptKnown, Untouched
  <2>2. QED
    BY <2>1 DEF AttemptsKnown
<1>7. LocksHeld
  BY <1>2 DEF LocksHeld, LockHeld, BudgetAssumption
<1>8. IsFiniteSet({}) /\ Cardinality({}) = 0 /\ IsFiniteSet(Attempts)
  BY FS_EmptySet DEF BudgetAssumption
<1>9. SumFunctionOnSet(ReportedOf, {}) = 0 /\ SumFunctionOnSet(AmountOf, {}) = 0
  <2> HIDE DEF BudgetAssumption
  <2>1. /\ \A x \in {} : ReportedOf[x] = 0
        /\ \A x \in {} : AmountOf[x] = 0
    OBVIOUS
  <2>2. QED
    BY <1>8, <2>1, SumZero
<1>10. CountsKnown
  <2>1. Started = {} /\ Settled = {}
    BY <1>5 DEF Started, Settled, Fresh
  <2>2. ASSUME NEW n \in Addrs PROVE Counts(n)
    <3>1. Within(n) \cap Started = {} /\ Within(n) \cap Settled = {} /\ state[n] = Zero
      BY <1>2, <2>1
    <3>2. QED
      BY <1>8, <1>9, <3>1 DEF Counts, Zero, BudgetAssumption
  <2>3. QED
    BY <2>2 DEF CountsKnown
<1>11. BudgetKnown
  <2>1. Live = {}
    BY <1>5 DEF Live, Fresh
  <2>2. \A x \in Attempts : CoverOf[x] = 0
    BY <1>5 DEF CoverOf, Cover, Fresh
  <2>3. SumFunctionOnSet(CoverOf, Attempts) = 0
    BY <1>8, <2>2, SumZero
  <2>4. QED
    BY <1>1, <1>8, <1>9, <2>1, <2>3 DEF BudgetKnown, BudgetAssumption
<1>12. QED
  BY <1>3, <1>4, <1>6, <1>7, <1>10, <1>11 DEF BudgetInv

\* A step that changes nothing
LEMMA BudgetStutters == ASSUME BudgetInv, UNCHANGED vars PROVE BudgetInv'
<1>1. UNCHANGED <<scope, state, lock, budget, att>>
  BY DEF vars
<1>2. Types'
  BY <1>1 DEF BudgetInv, Types
<1>3. GraphInv'
  BY <1>1 DEF BudgetInv, GraphInv, LineageLeast, Closed, Links, Scopes
<1>4. AttemptsKnown'
  BY <1>1 DEF BudgetInv, AttemptsKnown, AttemptKnown, Untouched, Budgeted, Scopes
<1>5. LocksHeld'
  BY <1>1 DEF BudgetInv, LocksHeld, LockHeld, Holds, Lineage
<1>6. CountsKnown'
  <2>1. \A n \in Addrs : Counts(n)
    BY DEF BudgetInv, CountsKnown
  <2>2. ASSUME NEW n \in Addrs PROVE Counts(n)' <=> Counts(n)
    <3>1. Within(n)' = Within(n) /\ Started' = Started /\ Settled' = Settled /\ ReportedOf' = ReportedOf
      BY <1>1 DEF Within, Lineage, Started, Settled, ReportedOf, Reported
    <3>2. QED
      BY <1>1, <3>1 DEF Counts
  <2>3. QED
    BY <2>1, <2>2 DEF CountsKnown
<1>7. BudgetKnown'
  <2>1. Live' = Live /\ AmountOf' = AmountOf /\ CoverOf' = CoverOf
    BY <1>1 DEF Live, AmountOf, CoverOf, Amount, Cover, Budgeted
  <2>2. QED
    BY <1>1, <2>1 DEF BudgetInv, BudgetKnown
<1>8. QED
  BY <1>2, <1>3, <1>4, <1>5, <1>6, <1>7 DEF BudgetInv

\* A step builds the graph, is one attempt's, or changes nothing.
LEMMA NextSplits ==
  ASSUME Next
  PROVE  \/ \E p \in Scopes, o \in Scopes \cup {None} : NewChild(p, o)
         \/ \E a \in Attempts : Acts(a)
         \/ UNCHANGED vars
BY DEF Next, Acts, Done

\* Every step keeps the invariant,
LEMMA BudgetNext == ASSUME BudgetAssumption, BudgetInv, [Next]_vars PROVE BudgetInv'
<1>1. CASE UNCHANGED vars
  BY <1>1, BudgetStutters
<1>2. CASE \E p \in Scopes, o \in Scopes \cup {None} : NewChild(p, o)
  BY <1>2, NewChildTypes, NewChildGraph, NewChildRest DEF BudgetInv
<1>3. CASE \E a \in Attempts : Acts(a)
  <2>1. PICK a \in Attempts : Acts(a)
    BY <1>3
  <2>2. Types' /\ AttemptsKnown' /\ LocksHeld' /\ CountsKnown' /\ BudgetKnown' /\ scope' = scope
    BY <2>1, ActsTyped, ActsKnown, ActsLocks, ActsCounts, ActsMoney
  <2>3. GraphInv'
    BY <2>2 DEF BudgetInv, GraphInv, LineageLeast, Closed, Links, Scopes
  <2>4. QED
    BY <2>2, <2>3 DEF BudgetInv
<1>4. QED
  BY <1>1, <1>2, <1>3, NextSplits

\* which therefore always holds.
LEMMA BudgetInductive == ASSUME BudgetAssumption PROVE Spec => []BudgetInv
<1>1. Init => BudgetInv
  BY BudgetInitially
<1>2. BudgetInv /\ [Next]_vars => BudgetInv'
  BY BudgetNext
<1>3. QED
  BY <1>1, <1>2, PTL DEF Spec

-----------------------------------------------------------------------------
\* What the invariant implies.

\* A scope has at most as many attempts in flight as there are.
LEMMA TypeImplied == ASSUME BudgetAssumption, BudgetInv PROVE TypeOK
<1>1. Types /\ CountsKnown /\ IsFiniteSet(Attempts) /\ MaxTotal \in Nat
  BY DEF BudgetInv, BudgetAssumption
<1>2. ASSUME NEW n \in Addrs
      PROVE  /\ lock[n] \in Attempts \cup {None}
             /\ state[n].requests \in 0 .. MaxTotal
             /\ state[n].total \in 0 .. MaxTotal
             /\ state[n].in_flight \in 0 .. Cardinality(Attempts)
  <2>1. state[n] \in Counter /\ lock[n] \in Attempts \cup {None} /\ Counts(n)
    BY <1>1 DEF Types, CountsKnown
  <2>2. Cardinality(Within(n) \cap Started) <= Cardinality(Attempts) /\ Cardinality(Attempts) \in Nat
    <3>1. Within(n) \cap Started \in SUBSET Attempts
      BY DEF Within
    <3>2. QED
      BY <1>1, <3>1, FS_Subset, FS_CardinalityType
  <2>3. /\ state[n].requests \in Nat /\ state[n].total \in Nat /\ state[n].in_flight \in Nat
        /\ state[n].requests + state[n].in_flight <= MaxTotal /\ state[n].total <= MaxTotal
        /\ state[n].in_flight = Cardinality(Within(n) \cap Started)
    BY <2>1 DEF Counter, Counts
  <2>4. QED
    BY <1>1, <2>1, <2>2, <2>3
<1>3. budget.state \in States /\ \A a \in Attempts : att[a].pc \in PCs
  BY <1>1 DEF Types, Snapshot, Attempt
<1>4. QED
  BY <1>2, <1>3 DEF TypeOK, PCs

\* Every bound is positive, so the reserved sum counts the attempts in flight.
LEMMA ReadableImplied == ASSUME BudgetAssumption, BudgetInv PROVE BudgetIsReadable
<1>1. Types /\ BudgetKnown /\ budget \in Snapshot
  BY DEF BudgetInv, Types
<1>2. /\ IsFiniteSet(Live) /\ Live \subseteq Attempts
      /\ \A a \in Attempts : Amount(a) \in Nat /\ AmountOf[a] = Amount(a)
  BY <1>1, LiveSums
<1>3. \A a \in Live : AmountOf[a] \in Nat \ {0}
  <2>1. ASSUME NEW a \in Live PROVE Amount(a) \in Nat \ {0}
    <3>1. a \in Attempts /\ att[a].reserved /\ att[a] \in Attempt
      BY <1>1 DEF Live, Types
    <3>2. att[a].output # 0
      BY <3>1 DEF BudgetInv, AttemptsKnown, AttemptKnown
    <3>3. QED
      BY <3>1, <3>2 DEF Amount, Attempt
  <2>2. QED
    BY <1>2, <2>1
<1>4. Cardinality(Live) <= SumFunctionOnSet(AmountOf, Live)
  BY <1>2, <1>3, SumCount
<1>5. budget.in_flight <= budget.reserved
  BY <1>1, <1>4 DEF BudgetKnown
<1>6. ASSUME budget.in_flight = 0 PROVE budget.reserved = 0
  <2>1. Live = {}
    BY <1>1, <1>2, <1>6, FS_EmptySet DEF BudgetKnown
  <2>2. \A x \in Live : AmountOf[x] = 0
    BY <2>1
  <2>3. SumFunctionOnSet(AmountOf, Live) = 0
    BY <1>2, <2>2, SumZero
  <2>4. QED
    BY <1>1, <2>3 DEF BudgetKnown
<1>7. /\ budget.charged + budget.reserved <= Limit /\ budget.retained <= budget.charged
      /\ budget.in_flight \in Nat /\ budget.reserved \in Nat
  BY <1>1 DEF BudgetKnown, Snapshot
<1>8. QED
  BY <1>5, <1>6, <1>7 DEF BudgetIsReadable, BudgetValidates

\* An attempt is covered for at least its use within the bound.
LEMMA CoveredImplied == ASSUME BudgetAssumption, BudgetInv PROVE SpendIsCovered
<1>1. Types /\ BudgetKnown /\ IsFiniteSet(Attempts) /\ budget \in Snapshot
  BY DEF BudgetInv, BudgetAssumption, Types
<1> DEFINE used == {a \in Attempts : att[a].at # None /\ Budgeted(a) /\ att[a].spent <= Amount(a)}
<1> DEFINE spent == [a \in Attempts |-> att[a].spent]
<1>2. \A a \in Attempts : Cover(a) \in Nat /\ CoverOf[a] = Cover(a)
  BY <1>1, CoverNat
<1>3. \A a \in used : spent[a] \in Int /\ spent[a] <= CoverOf[a]
  <2>1. ASSUME NEW a \in used PROVE att[a].spent \in Int /\ att[a].spent <= Cover(a)
    <3>1. att[a] \in Attempt /\ att[a].spent <= Amount(a) /\ att[a].at # None /\ Budgeted(a)
      BY <1>1 DEF Types
    <3>2. QED
      BY <3>1 DEF Cover, Attempt
  <2>2. QED
    BY <1>2, <2>1
<1>4. used \in SUBSET Attempts /\ \A a \in Attempts : CoverOf[a] \in Nat
  BY <1>2
<1> HIDE DEF used, spent
<1>5. SumFunctionOnSet(spent, used) <= SumFunctionOnSet(CoverOf, Attempts)
  BY <1>1, <1>3, <1>4, SumBound
<1>6. SumFunctionOnSet(spent, used) <= budget.charged + budget.reserved
  <2>1. \A a \in Attempts : CoverOf[a] \in Int
    BY <1>4
  <2>2. SumFunctionOnSet(CoverOf, Attempts) \in Int
    BY <1>1, <2>1, SumInt
  <2>3. SumFunctionOnSet(spent, used) \in Int
    <3>1. IsFiniteSet(used) /\ \A a \in used : spent[a] \in Int
      BY <1>1, <1>3, <1>4, FS_Subset
    <3>2. QED
      BY <3>1, SumInt
  <2>4. SumFunctionOnSet(CoverOf, Attempts) <= budget.charged + budget.reserved
    BY <1>1 DEF BudgetKnown
  <2>5. QED
    BY <1>1, <1>5, <2>2, <2>3, <2>4 DEF Snapshot
<1>7. QED
  BY <1>1, <1>6 DEF SpendIsCovered, BudgetKnown, AmountOf, used, spent

\* What a scope includes is its lineage.
LEMMA IncludesLineage == ASSUME GraphInv, NEW n \in Scopes PROVE Includes(n) = scope[n].lineage
<1>1. /\ n \in scope[n].lineage /\ scope[n].lineage \in SUBSET Scopes /\ Closed(scope[n].lineage)
      /\ \A S \in SUBSET Scopes : n \in S /\ Closed(S) => scope[n].lineage \subseteq S
  BY DEF GraphInv, LineageLeast
<1>2. Includes(n) = {m \in Scopes : \A S \in SUBSET Scopes : n \in S /\ Closed(S) => m \in S}
  BY DEF Includes, Closed, Links
<1>3. QED
  BY <1>1, <1>2

\* The attempts in a scope are those whose links reach it.
LEMMA InclusiveImplied == ASSUME BudgetAssumption, BudgetInv PROVE ScopesAreInclusive
<1>1. GraphInv /\ CountsKnown /\ None \notin Scopes
  BY DEF BudgetInv, Scopes, BudgetAssumption
<1> DEFINE placed == {b \in Attempts : att[b].at # None}
<1> DEFINE inside == [a \in placed |-> Includes(att[a].at)]
<1>2. \A a \in placed : inside[a] = Lineage(a)
  <2>1. ASSUME NEW a \in placed PROVE Includes(att[a].at) = Lineage(a)
    <3>1. att[a].at \in Scopes
      BY DEF BudgetInv, AttemptsKnown, AttemptKnown
    <3>2. QED
      BY <1>1, <3>1, IncludesLineage DEF Lineage
  <2>2. QED
    BY <2>1
<1>3. ASSUME NEW n \in Scopes
      PROVE  LET within == {a \in DOMAIN inside : n \in inside[a]}
             IN  /\ state[n].in_flight = Cardinality(within \cap Started)
                 /\ ~state[n].overflowed =>
                      state[n].total = SumFunctionOnSet([a \in Attempts |-> Reported(a)], within \cap Settled)
  <2>1. {a \in DOMAIN inside : n \in inside[a]} = Within(n)
    BY <1>2 DEF Within
  <2>2. Counts(n)
    BY <1>1, <1>3 DEF CountsKnown, Scopes
  <2> HIDE DEF inside
  <2>3. QED
    BY <2>1, <2>2 DEF Counts, ReportedOf
<1>4. QED
  BY <1>3 DEF ScopesAreInclusive

\* Of attempts that wait for each other the one that waits for the highest
\* lock waits for a holder that waits for a higher one.
LEMMA NoCycleImplied == ASSUME BudgetAssumption, BudgetInv PROVE NoLockCycle
<1>1. Types /\ LocksHeld /\ None \notin Attempts /\ None \notin Scopes
  BY DEF BudgetInv, BudgetAssumption, Scopes
<1>2. SUFFICES ASSUME NEW S \in SUBSET Attempts, S # {}, \A a \in S : WaitsFor(a) \in S
               PROVE  FALSE
  BY DEF NoLockCycle
<1>3. ASSUME NEW a \in S
      PROVE  /\ NextLock(a) \in Lineage(a) \ Holds(a) /\ NextLock(a) \in Addrs
             /\ lock[NextLock(a)] \in S
  <2>1. WaitsFor(a) \in S /\ a \in Attempts /\ S \subseteq Attempts
    BY <1>2, <1>3
  <2>2. /\ att[a].pc \in {"starting", "settling"} /\ Lineage(a) # Holds(a)
        /\ lock[NextLock(a)] \in S
    BY <1>1, <2>1 DEF WaitsFor
  <2>3. att[a].at \in Scopes
    BY <2>1, <2>2 DEF BudgetInv, AttemptsKnown, AttemptKnown
  <2>4. Holds(a) \subseteq Lineage(a)
    BY <1>1, <2>1 DEF Holds, LocksHeld, LockHeld
  <2>5. NextLock(a) \in Lineage(a) \ Holds(a)
    BY <1>1, <2>1, <2>2, <2>3, <2>4, NextLockLeast
  <2>6. Lineage(a) \subseteq Addrs
    BY <1>1, <2>3 DEF Lineage, Types, Scopes, Node
  <2>7. QED
    BY <2>2, <2>5, <2>6
<1> DEFINE N == {NextLock(a) : a \in S}
<1>4. PICK m \in N : \A n \in N : n <= m
  <2>1. N \in SUBSET Addrs /\ N # {}
    BY <1>2, <1>3
  <2>2. IsFiniteSet(N) /\ \A n \in N : n \in Nat
    BY <2>1, FS_Subset DEF BudgetAssumption
  <2> HIDE DEF N
  <2>3. QED
    BY <2>1, <2>2, Extremes
<1>5. PICK a \in S : m = NextLock(a)
  OBVIOUS
<1> DEFINE h == lock[NextLock(a)]
<1>6. h \in S /\ h \in Attempts /\ NextLock(a) \in Addrs /\ NextLock(h) \in Lineage(h) \ Holds(h)
  BY <1>2, <1>3, <1>5
<1>7. NextLock(a) < NextLock(h)
  <2>1. LockHeld(h, NextLock(a))
    BY <1>1, <1>6 DEF LocksHeld
  <2>2. QED
    BY <1>6, <2>1 DEF LockHeld
<1>8. NextLock(h) <= NextLock(a) /\ NextLock(h) \in Nat /\ NextLock(a) \in Nat
  <2>1. NextLock(h) \in N /\ NextLock(h) \in Addrs
    BY <1>3, <1>6
  <2>2. QED
    BY <1>4, <1>5, <1>6, <2>1 DEF BudgetAssumption
<1>9. QED
  BY <1>7, <1>8

\* Only an active budget admits, and none becomes active.
LEMMA StickyStep ==
  ASSUME BudgetAssumption, BudgetInv, [Next]_vars, budget.state # "active"
  PROVE  budget'.state # "active" /\ budget'.in_flight <= budget.in_flight
<1>1. Types /\ budget \in Snapshot
  BY DEF BudgetInv, Types
<1>2. CASE UNCHANGED budget
  BY <1>1, <1>2 DEF Snapshot
<1>3. ASSUME NEW reason, Block(reason) PROVE UNCHANGED budget
  BY <1>1, <1>3 DEF Block, Snapshot
<1>4. CASE \E a \in Attempts : Acts(a)
  <2>1. PICK a \in Attempts : Acts(a)
    BY <1>4
  <2>2. CASE Prepare(a)
    BY <1>2, <2>2 DEF Prepare
  <2>3. CASE CountInput(a)
    <3>1. UNCHANGED budget \/ \E reason : Block(reason)
      BY <2>3 DEF CountInput
    <3>2. QED
      BY <1>2, <1>3, <3>1
  <2>4. CASE Reserve(a)
    BY <1>2, <2>4 DEF Reserve
  <2>5. CASE Lock(a) \/ Start(a) \/ Settle(a) \/ Observe(a) \/ Finish(a) \/ Cancel(a)
    BY <1>2, <2>5 DEF Lock, Start, Settle, Observe, Finish, Cancel
  <2>6. CASE Release(a) \/ DropAttempt(a)
    <3>1. Charge(a)
      BY <2>6 DEF Release, DropAttempt
    <3>2. CASE ~att[a].reserved
      BY <1>2, <3>1, <3>2 DEF Charge
    <3>3. CASE att[a].reserved
      <4>1. budget'.state \in {"bound_violated", budget.state} /\ budget'.in_flight = budget.in_flight - 1
        BY <1>1, <3>1, <3>3 DEF Charge, Snapshot
      <4>2. QED
        BY <1>1, <4>1 DEF Snapshot
    <3>4. QED
      BY <3>2, <3>3
  <2>7. QED
    BY <2>1, <2>2, <2>3, <2>4, <2>5, <2>6 DEF Acts, Step, Ends
<1>5. QED
  BY <1>2, <1>4, NextSplits DEF vars, NewChild

\* An attempt leaves the settling stage by its own settlement alone.
LEMMA SettlingEnds ==
  ASSUME BudgetAssumption, BudgetInv, [Next]_vars, NEW a \in Attempts,
         att[a].pc = "settling", att'[a].pc # "settling"
  PROVE  Settle(a)
<1>1. Types /\ att[a] \in Attempt
  BY DEF BudgetInv, Types
<1>2. PICK b \in Attempts : Acts(b)
  BY NextSplits DEF vars, NewChild
<1>3. b = a
  BY <1>2, ActsTyped
<1>4. att[a].pc \notin {"idle", "counting", "reserve", "starting", "sent", "charging"}
  OBVIOUS
<1>5. ~Lock(a)
  BY DEF Lock
<1>6. QED
  BY <1>2, <1>3, <1>4, <1>5
     DEF Acts, Step, Ends, Prepare, CountInput, Reserve, Start, Release, Observe, Finish, DropAttempt, Cancel

\* A settlement treats the whole lineage alike.
LEMMA AllOrNothingStep ==
  ASSUME BudgetAssumption, BudgetInv, [Next]_vars PROVE AllOrNothing
<1>1. SUFFICES ASSUME NEW a \in Attempts, att[a].pc = "settling", att'[a].pc # "settling"
               PROVE  \/ \A n \in Includes(att[a].at) : state'[n].requests = state[n].requests + 1
                      \/ \A n \in Includes(att[a].at) : state'[n].overflowed
  BY DEF AllOrNothing
<1>2. Settle(a)
  BY <1>1, SettlingEnds
<1>3. att[a].at \in Scopes
  BY <1>1 DEF BudgetInv, AttemptsKnown, AttemptKnown
<1>4. Includes(att[a].at) = Lineage(a) /\ Lineage(a) \subseteq Addrs /\ Types
  <2>1. Types /\ GraphInv /\ scope[att[a].at] \in Node
    BY <1>3 DEF BudgetInv, Types, Scopes
  <2>2. QED
    BY <1>3, <2>1, IncludesLineage DEF Lineage, Node
<1>5. state' = SettleIn(Lineage(a), a)
  BY <1>2 DEF Settle
<1> DEFINE fits == \A n \in Lineage(a) : ~state[n].overflowed /\ state[n].total + Reported(a) <= MaxTotal
<1>6. \A n \in Lineage(a) :
        state'[n] = IF fits THEN [state[n] EXCEPT !.in_flight = @ - 1, !.requests = @ + 1,
                                                  !.total = @ + Reported(a)]
                    ELSE [state[n] EXCEPT !.in_flight = @ - 1, !.overflowed = TRUE]
  BY <1>4, <1>5 DEF SettleIn
<1> HIDE DEF fits
<1>7. \A n \in Lineage(a) : state[n] \in Counter
  BY <1>4 DEF Types
<1>8. CASE fits
  <2>1. ASSUME NEW n \in Lineage(a) PROVE state'[n].requests = state[n].requests + 1
    <3>1. state[n] \in Counter
      BY <1>7
    <3>2. state'[n] = [state[n] EXCEPT !.in_flight = state[n].in_flight - 1, !.requests = state[n].requests + 1,
                                       !.total = state[n].total + Reported(a)]
      BY <1>6, <1>8
    <3>3. QED
      BY <3>1, <3>2 DEF Counter
  <2>2. QED
    BY <1>4, <2>1
<1>9. CASE ~fits
  <2>1. ASSUME NEW n \in Lineage(a) PROVE state'[n].overflowed
    <3>1. state[n] \in Counter
      BY <1>7
    <3>2. state'[n] = [state[n] EXCEPT !.in_flight = state[n].in_flight - 1, !.overflowed = TRUE]
      BY <1>6, <1>9
    <3>3. QED
      BY <3>1, <3>2 DEF Counter
  <2>2. QED
    BY <1>4, <2>1
<1>10. QED
  BY <1>8, <1>9

-----------------------------------------------------------------------------
(***************************************************************************)
(* The types of the budget and of the scopes: counters never pass the      *)
(* u64 range of usage/tracker.rs and in_flight never goes below zero.      *)
(***************************************************************************)
THEOREM BudgetTypeCorrect == ASSUME BudgetAssumption PROVE Spec => []TypeOK
<1>1. BudgetInv => TypeOK
  BY TypeImplied
<1>2. QED
  BY <1>1, BudgetInductive, PTL

(***************************************************************************)
(* BudgetSnapshot::validate accepts the counters after any interleaving    *)
(* of reserve and settle: a saved run record can always be read back.      *)
(***************************************************************************)
THEOREM BudgetReadable == ASSUME BudgetAssumption PROVE Spec => []BudgetIsReadable
<1>1. BudgetInv => BudgetIsReadable
  BY ReadableImplied
<1>2. QED
  BY <1>1, BudgetInductive, PTL

(***************************************************************************)
(* Reservation::settle and its Drop: what is reserved is what the live     *)
(* attempts hold, and the true use within the bounds is always covered by  *)
(* what is charged or reserved.                                            *)
(***************************************************************************)
THEOREM BudgetCovers == ASSUME BudgetAssumption PROVE Spec => []SpendIsCovered
<1>1. BudgetInv => SpendIsCovered
  BY CoveredImplied
<1>2. QED
  BY <1>1, BudgetInductive, PTL

(***************************************************************************)
(* TokenBudget::reserve and block: a blocked budget stays blocked and      *)
(* admits no further attempt.                                              *)
(***************************************************************************)
THEOREM BudgetSticky == ASSUME BudgetAssumption PROVE Spec => [][FailureIsSticky]_vars
<1>1. BudgetInv /\ [Next]_vars => [FailureIsSticky]_vars
  BY StickyStep DEF FailureIsSticky
<1>2. QED
  BY <1>1, BudgetInductive, PTL DEF Spec

(***************************************************************************)
(* UsageTracker::ancestry, start and settle: a scope counts each attempt   *)
(* that reaches it over parents and observers exactly once.                *)
(***************************************************************************)
THEOREM ScopesInclusive == ASSUME BudgetAssumption PROVE Spec => []ScopesAreInclusive
<1>1. BudgetInv => ScopesAreInclusive
  BY InclusiveImplied
<1>2. QED
  BY <1>1, BudgetInductive, PTL

(***************************************************************************)
(* UsageTracker::settle: a settlement is counted in every scope of the     *)
(* attempt or leaves every one of them overflowed.                         *)
(***************************************************************************)
THEOREM ScopesAllOrNothing == ASSUME BudgetAssumption PROVE Spec => [][AllOrNothing]_vars
<1>1. BudgetInv /\ [Next]_vars => [AllOrNothing]_vars
  BY AllOrNothingStep
<1>2. QED
  BY <1>1, BudgetInductive, PTL DEF Spec

(***************************************************************************)
(* UsageTracker::ancestry sorts by address: no set of attempts waits for   *)
(* scope locks held within the set, whatever graph the links build.        *)
(***************************************************************************)
THEOREM ScopeLocksOrdered == ASSUME BudgetAssumption PROVE Spec => []NoLockCycle
<1>1. BudgetInv => NoLockCycle
  BY NoCycleImplied
<1>2. QED
  BY <1>1, BudgetInductive, PTL

\* The promises of the budget and the scopes together, for any attempts, scope graph and
\* limits (usage/budget.rs, usage/tracker.rs).
THEOREM BudgetHolds == ASSUME BudgetAssumption PROVE Spec => BudgetSound
<1>1. Spec => [](TypeOK /\ ScopesAreInclusive /\ BudgetIsReadable /\ SpendIsCovered /\ NoLockCycle)
  BY BudgetTypeCorrect, ScopesInclusive, BudgetReadable, BudgetCovers, ScopeLocksOrdered, PTL
<1>2. Spec => [][AllOrNothing /\ FailureIsSticky]_vars
  BY BudgetSticky, ScopesAllOrNothing, PTL
<1>3. QED
  BY <1>1, <1>2 DEF BudgetSound
=============================================================================
