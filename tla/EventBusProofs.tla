--------------------------- MODULE EventBusProofs ---------------------------
(***************************************************************************)
(* What the event bus promises its streams, for any number of streams, any *)
(* replay and ring capacity and any sizes of events: EventBusSound is an   *)
(* invariant of EventBus.                                                  *)
(*                                                                         *)
(* The inductive invariant, BusInv, says of the history that it is         *)
(* increasing and that bytes is the sum of its events' sizes, of a stream  *)
(* that it is in step with the history and the ring (InStep), and of the   *)
(* permits that they are the ones no stream holds.                         *)
(***************************************************************************)
EXTENDS EventBus, FiniteSetTheorems, WellFoundedInduction, SequenceTheorems, TLAPS

Phases == {"off", "replay", "live", "closed"}
StreamType == [pc : Phases, replay : Seq(Nat), next : Nat, from : Nat,
               got : SUBSET Nat, missed : Nat]

Active == {s \in Streams : stream[s].pc \in {"replay", "live"}}

Types ==
    /\ sent \in Seq(Nat) /\ last \in 0..Len(sent)
    /\ history \in Seq(Nat) /\ bytes \in Nat
    /\ open \in BOOLEAN /\ permits \in Nat
    /\ stream \in [Streams -> StreamType]

\* Numbers of events so far, each once, in their order.
Ordered(h, m) ==
    /\ \A i \in 1..Len(h) : h[i] \in 1..m
    /\ \A i, j \in 1..Len(h) : i < j => h[i] < h[j]

\* What it has given its client or counted as missed since it subscribed, what it holds
\* for replay, and what the history H of m events still has from before that.
InStep(k, H, m) ==
    /\ 1 <= k.from /\ k.from <= k.next /\ k.next <= m + 1
    /\ k.got \subseteq 1..(k.next - 1)
    /\ \A n \in Range(k.replay) : n < k.from /\ 1 <= n
    /\ Cardinality({n \in k.got : n >= k.from}) + k.missed = k.next - k.from
    /\ \A n \in H : n < k.from => n \in k.got \/ n \in Range(k.replay)

PermitsKnown == IsFiniteSet(Active) /\ permits + Cardinality(Active) = MaxSse

\* The inductive invariant.
BusInv ==
    /\ Types
    /\ Ordered(history, Len(sent))
    /\ ReplayWithinBudget
    /\ \A s \in Active : InStep(stream[s], Range(history), Len(sent))
    /\ PermitsKnown

\* The sums of SumFunctionOnSet: it folds over the elements CHOOSE picks one
\* by one.
Pick(T) == CHOOSE x \in T : TRUE

\* s gives every subset of S the sum of f over it.
Sums(s, f, S) ==
    /\ s \in [SUBSET S -> Int]
    /\ s[{}] = 0
    /\ \A T \in SUBSET S : \A x \in S \ T : s[T \cup {x}] = s[T] + f[x]

\* the equation of the fold
FoldsTo(s, f, S) ==
    s = [T \in SUBSET S |-> IF T = {} THEN 0 ELSE f[Pick(T)] + s[T \ {Pick(T)}]]

\* A set of subsets of a finite set has a least one: induction over finite
\* sets.
LEMMA LeastSubset ==
  ASSUME NEW S, IsFiniteSet(S), NEW X \in SUBSET SUBSET S, X # {}
  PROVE  \E T \in X : \A U \in X : U \subseteq T => U = T
<1>1. FiniteSubsetsOf(S) = SUBSET S
  BY FS_FiniteSubsetsOfFinite
<1>2. IsWellFoundedOn(StrictSubsetOrdering(S), SUBSET S)
  BY <1>1, FS_StrictSubsetOrderingWellFounded
<1>3. \E T \in X : \A U \in X : ~(<<U, T>> \in StrictSubsetOrdering(S))
  BY <1>2, WFMin
<1>4. QED
  BY <1>3 DEF StrictSubsetOrdering

\* Every integer function on a finite set has its sums.
LEMMA SumsExist ==
  ASSUME NEW S, IsFiniteSet(S), NEW f, \A x \in S : f[x] \in Int
  PROVE  \E s : Sums(s, f, S)
<1> DEFINE X == {U \in SUBSET S : ~\E s : Sums(s, f, U)}
<1>1. SUFFICES ASSUME X # {} PROVE FALSE
  BY SMT
<1>2. PICK U \in X : \A V \in X : V \subseteq U => V = U
  <2>1. X \in SUBSET SUBSET S
    OBVIOUS
  <2> HIDE DEF X
  <2>2. QED
    BY <1>1, <2>1, LeastSubset
<1>3. CASE U = {}
  <2> DEFINE z == [T \in SUBSET {} |-> 0]
  <2>1. Sums(z, f, {})
    BY DEF Sums
  <2>2. QED
    BY <1>2, <1>3, <2>1
<1>4. CASE U # {}
  <2>1. PICK a \in U : TRUE
    BY <1>4
  <2>2. PICK s : Sums(s, f, U \ {a})
    BY <1>2, <2>1
  <2> DEFINE z == [T \in SUBSET U |-> IF a \in T THEN s[T \ {a}] + f[a] ELSE s[T]]
  <2>3. \A T \in SUBSET U : z[T] = IF a \in T THEN s[T \ {a}] + f[a] ELSE s[T]
    OBVIOUS
  <2>4. z \in [SUBSET U -> Int]
    <3>1. f[a] \in Int
      BY <2>1, <1>2
    <3>2. \A T \in SUBSET U : z[T] \in Int
      BY <2>2, <2>3, <3>1 DEF Sums
    <3>3. QED
      BY <3>2
  <2>5. z[{}] = 0
    BY <2>3, <2>2 DEF Sums
  <2>6. ASSUME NEW T \in SUBSET U, NEW x \in U \ T PROVE z[T \cup {x}] = z[T] + f[x]
    <3>1. CASE x = a
      <4>1. (T \cup {x}) \ {a} = T /\ a \notin T /\ T \cup {x} \in SUBSET U
        BY <3>1, <2>6
      <4>2. QED
        BY <4>1, <3>1, <2>3
    <3>2. CASE x # a /\ a \notin T
      <4>1. T \in SUBSET (U \ {a}) /\ x \in (U \ {a}) \ T /\ T \cup {x} \in SUBSET U /\ a \notin T \cup {x}
        BY <3>2, <2>6
      <4>2. QED
        BY <4>1, <2>2, <2>3, <3>2 DEF Sums
    <3>3. CASE x # a /\ a \in T
      <4>1. /\ T \ {a} \in SUBSET (U \ {a}) /\ x \in (U \ {a}) \ (T \ {a}) /\ T \cup {x} \in SUBSET U
            /\ (T \cup {x}) \ {a} = (T \ {a}) \cup {x} /\ a \in T \cup {x}
        BY <3>3, <2>6
      <4>2. s[(T \ {a}) \cup {x}] = s[T \ {a}] + f[x]
        BY <4>1, <2>2 DEF Sums
      <4>3. s[T \ {a}] \in Int /\ f[a] \in Int /\ f[x] \in Int
        BY <4>1, <2>2, <2>1, <1>2, <2>6 DEF Sums
      <4>4. z[T] = s[T \ {a}] + f[a] /\ z[T \cup {x}] = s[(T \ {a}) \cup {x}] + f[a]
        BY <4>1, <2>3, <3>3
      <4> HIDE DEF z
      <4>5. QED
        BY <4>2, <4>3, <4>4
    <3>4. QED
      BY <3>1, <3>2, <3>3
  <2>7. Sums(z, f, U)
    <3> HIDE DEF z
    <3> QED BY <2>4, <2>5, <2>6 DEF Sums
  <2>8. QED
    BY <2>7, <1>2
<1>5. QED
  BY <1>3, <1>4

\* Sums satisfy the equation of the fold,
LEMMA SumsFold ==
  ASSUME NEW S, NEW f, NEW s, Sums(s, f, S), \A x \in S : f[x] \in Int
  PROVE  FoldsTo(s, f, S)
<1>1. ASSUME NEW T \in SUBSET S, T # {}
      PROVE  s[T] = f[Pick(T)] + s[T \ {Pick(T)}]
  <2>1. Pick(T) \in T
    BY <1>1 DEF Pick
  <2>2. T \ {Pick(T)} \in SUBSET S /\ Pick(T) \in S \ (T \ {Pick(T)})
        /\ (T \ {Pick(T)}) \cup {Pick(T)} = T
    BY <2>1
  <2>3. s[T] = s[T \ {Pick(T)}] + f[Pick(T)]
    BY <2>2 DEF Sums
  <2>4. QED
    BY <2>2, <2>3 DEF Sums
<1>2. QED
  BY <1>1 DEF Sums, FoldsTo

\* whose solution is unique,
LEMMA FoldUnique ==
  ASSUME NEW S, IsFiniteSet(S), NEW f, NEW s, NEW g, FoldsTo(s, f, S), FoldsTo(g, f, S)
  PROVE  s[S] = g[S]
<1> DEFINE X == {T \in SUBSET S : s[T] # g[T]}
<1>1. SUFFICES ASSUME X # {} PROVE FALSE
  BY SMT
<1>2. PICK T \in X : \A V \in X : V \subseteq T => V = T
  <2>1. X \in SUBSET SUBSET S
    OBVIOUS
  <2> HIDE DEF X
  <2>2. QED
    BY <1>1, <2>1, LeastSubset
<1>3. T # {}
  BY <1>2 DEF FoldsTo
<1>4. Pick(T) \in T
  BY <1>3 DEF Pick
<1>5. s[T \ {Pick(T)}] = g[T \ {Pick(T)}]
  BY <1>2, <1>4
<1>6. QED
  BY <1>2, <1>3, <1>5 DEF FoldsTo

\* and which SumFunctionOnSet solves,
LEMMA FoldExpands ==
  ASSUME NEW S, NEW f
  PROVE  SumFunctionOnSet(f, S) = (CHOOSE g : FoldsTo(g, f, S))[S]
BY DEF SumFunctionOnSet, FoldFunctionOnSet, MapThenFoldSet, FoldsTo, Pick

\* once there is a solution.
LEMMA FoldChosen ==
  ASSUME NEW S, NEW f, NEW s, FoldsTo(s, f, S)
  PROVE  FoldsTo(CHOOSE g : FoldsTo(g, f, S), f, S)
BY Zenon

\* SumFunctionOnSet is the sum,
LEMMA SumIs ==
  ASSUME NEW S, IsFiniteSet(S), NEW f, NEW s, Sums(s, f, S), \A x \in S : f[x] \in Int
  PROVE  SumFunctionOnSet(f, S) = s[S]
BY SumsFold, FoldExpands, FoldChosen, FoldUnique

\* on every subset.
LEMMA SumOver ==
  ASSUME NEW S, IsFiniteSet(S), NEW f, \A x \in S : f[x] \in Int
  PROVE  \E s : Sums(s, f, S) /\ \A T \in SUBSET S : SumFunctionOnSet(f, T) = s[T]
<1>1. PICK s : Sums(s, f, S)
  BY SumsExist
<1>2. ASSUME NEW T \in SUBSET S PROVE SumFunctionOnSet(f, T) = s[T]
  <2> DEFINE t == [U \in SUBSET T |-> s[U]]
  <2>1. Sums(t, f, T)
    BY <1>1 DEF Sums
  <2>2. IsFiniteSet(T) /\ t[T] = s[T]
    BY FS_Subset
  <2> HIDE DEF t
  <2>3. QED
    BY <2>1, <2>2, SumIs
<1>3. QED
  BY <1>1, <1>2

\* The sum with one element more
LEMMA SumAdd ==
  ASSUME NEW S, IsFiniteSet(S), NEW f, NEW a, a \notin S, \A x \in S \cup {a} : f[x] \in Int
  PROVE  /\ SumFunctionOnSet(f, S) \in Int
         /\ SumFunctionOnSet(f, S \cup {a}) = SumFunctionOnSet(f, S) + f[a]
<1>1. IsFiniteSet(S \cup {a})
  BY FS_AddElement
<1>2. PICK s : /\ Sums(s, f, S \cup {a})
               /\ \A T \in SUBSET (S \cup {a}) : SumFunctionOnSet(f, T) = s[T]
  BY <1>1, SumOver
<1>3. QED
  BY <1>2 DEF Sums
\* Functions that agree on the set have one sum.
LEMMA SumSame ==
  ASSUME NEW S, IsFiniteSet(S), NEW f, NEW g, \A x \in S : f[x] \in Int /\ g[x] = f[x]
  PROVE  SumFunctionOnSet(g, S) = SumFunctionOnSet(f, S)
<1>1. PICK s : Sums(s, f, S)
  BY SumsExist
<1>2. Sums(s, g, S)
  BY <1>1 DEF Sums
<1>3. QED
  BY <1>1, <1>2, SumIs
\* A sum of naturals is not negative.
LEMMA SumNat ==
  ASSUME NEW S, IsFiniteSet(S), NEW f, \A x \in S : f[x] \in Nat
  PROVE  SumFunctionOnSet(f, S) >= 0
<1>0. \A x \in S : f[x] \in Int
  OBVIOUS
<1>1. PICK s : Sums(s, f, S) /\ \A U \in SUBSET S : SumFunctionOnSet(f, U) = s[U]
  BY <1>0, SumOver
<1> DEFINE X == {U \in SUBSET S : ~(s[U] >= 0)}
<1> HIDE DEF X
<1>2. SUFFICES ASSUME X # {} PROVE FALSE
  <2>1. S \in SUBSET S
    OBVIOUS
  <2>2. QED
    BY <1>1, <2>1 DEF X
<1>3. X \in SUBSET SUBSET S
  BY DEF X
<1>4. PICK U \in X : \A V \in X : V \subseteq U => V = U
  BY <1>2, <1>3, LeastSubset
<1>5. CASE U = {}
  BY <1>1, <1>4, <1>5 DEF Sums, X
<1>6. CASE U # {}
  <2>1. PICK a \in U : TRUE
    BY <1>6
  <2> DEFINE V == U \ {a}
  <2>2. V \in SUBSET S /\ V # U /\ V \subseteq U /\ a \in S \ V /\ V \cup {a} = U
    BY <2>1, <1>4 DEF X
  <2> HIDE DEF V
  <2>3. s[V] >= 0 /\ s[U] = s[V] + f[a] /\ s[V] \in Int /\ f[a] \in Nat
    BY <2>2, <1>1, <1>4 DEF Sums, X
  <2>4. s[U] >= 0
    BY <2>3
  <2>5. QED
    BY <2>4, <1>4 DEF X
<1>7. QED
  BY <1>5, <1>6

\* A set and a part of it
LEMMA SumSplit ==
  ASSUME NEW S, IsFiniteSet(S), NEW f, \A x \in S : f[x] \in Int, NEW T \in SUBSET S
  PROVE  /\ SumFunctionOnSet(f, T) \in Int /\ SumFunctionOnSet(f, S \ T) \in Int
         /\ SumFunctionOnSet(f, S) = SumFunctionOnSet(f, T) + SumFunctionOnSet(f, S \ T)
<1>1. PICK s : Sums(s, f, S) /\ \A U \in SUBSET S : SumFunctionOnSet(f, U) = s[U]
  BY SumOver
<1> DEFINE X == {U \in SUBSET S : s[S] # s[U] + s[S \ U]}
<1>2. X = {}
  <2> HIDE DEF X
  <2>1. SUFFICES ASSUME X # {} PROVE FALSE
    OBVIOUS
  <2>2. PICK U \in X : \A V \in X : V \subseteq U => V = U
    <3>1. X \in SUBSET SUBSET S
      BY DEF X
    <3>2. QED
      BY <2>1, <3>1, LeastSubset
  <2>3. CASE U = {}
    <3>1. S \ {} = S /\ s[{}] = 0 /\ s[S] \in Int
      BY <1>1 DEF Sums
    <3>2. QED
      BY <3>1, <2>2, <2>3 DEF X
  <2>4. CASE U # {}
    <3>1. PICK a \in U : TRUE
      BY <2>4
    <3> DEFINE V == U \ {a}
    <3>2. V \in SUBSET S /\ V # U /\ V \subseteq U /\ a \in S \ V /\ V \cup {a} = U
      BY <3>1, <2>2 DEF X
    <3>3. S \ U \in SUBSET S /\ a \in S \ (S \ U) /\ (S \ U) \cup {a} = S \ V
      BY <3>1, <2>2 DEF X
    <3> HIDE DEF V
    <3>4. s[S] = s[V] + s[S \ V]
      BY <3>2, <2>2 DEF X
    <3>5. s[U] = s[V] + f[a] /\ s[S \ V] = s[S \ U] + f[a]
      BY <3>2, <3>3, <1>1 DEF Sums
    <3>6. s[V] \in Int /\ s[S \ U] \in Int /\ f[a] \in Int
      BY <3>2, <3>3, <1>1 DEF Sums
    <3>7. s[S] = s[U] + s[S \ U]
      BY <3>4, <3>5, <3>6
    <3>8. QED
      BY <3>7, <2>2 DEF X
  <2>5. QED
    BY <2>3, <2>4
<1>3. T \in SUBSET S /\ S \ T \in SUBSET S /\ S \in SUBSET S
  OBVIOUS
<1>4. s[T] \in Int /\ s[S \ T] \in Int /\ s[S] = s[T] + s[S \ T]
  BY <1>1, <1>2, <1>3 DEF Sums, X
<1>5. QED
  BY <1>1, <1>3, <1>4

\* A sequence of increasing numbers, cut after its first k
LEMMA Cut ==
  ASSUME NEW h \in Seq(Nat), NEW m \in Nat, Ordered(h, m), NEW k \in 0..Len(h)
  PROVE  /\ SubSeq(h, 1, k) \in Seq(Nat) /\ SubSeq(h, k + 1, Len(h)) \in Seq(Nat)
         /\ Len(SubSeq(h, k + 1, Len(h))) = Len(h) - k
         /\ Ordered(SubSeq(h, k + 1, Len(h)), m)
         /\ Range(SubSeq(h, 1, k)) \subseteq Range(h)
         /\ Range(SubSeq(h, k + 1, Len(h))) = Range(h) \ Range(SubSeq(h, 1, k))
<1> DEFINE a == SubSeq(h, 1, k)
           b == SubSeq(h, k + 1, Len(h))
<1>0. Len(h) \in Nat /\ k \in Nat /\ k <= Len(h) /\ DOMAIN h = 1..Len(h)
  OBVIOUS
<1>1. a \in Seq(Nat) /\ Len(a) = k /\ DOMAIN a = 1..k /\ \A i \in 1..k : a[i] = h[i]
  BY <1>0
<1>2. /\ b \in Seq(Nat) /\ Len(b) = Len(h) - k /\ DOMAIN b = 1..(Len(h) - k)
      /\ \A i \in 1..(Len(h) - k) : b[i] = h[k + i]
  <2>1. k + 1 \in Int /\ Len(h) \in Int /\ \A i \in (k + 1)..Len(h) : h[i] \in Nat
    BY <1>0
  <2>2. b \in Seq(Nat) /\ Len(b) = Len(h) - k
    <3>1. b \in Seq(Nat) /\ Len(b) = IF k + 1 <= Len(h) THEN Len(h) - (k + 1) + 1 ELSE 0
      BY <2>1, SubSeqProperties
    <3> HIDE DEF b
    <3>2. CASE k + 1 <= Len(h)
      BY <3>1, <3>2, <1>0
    <3>3. CASE ~(k + 1 <= Len(h))
      <4>1. Len(b) = 0
        BY <3>1, <3>3, Zenon
      <4>2. Len(h) - k = 0
        <5>1. \A p, q \in Nat : q <= p /\ ~(q + 1 <= p) => p - q = 0
          OBVIOUS
        <5>2. QED
          BY <3>3, <1>0, <5>1
      <4>3. QED
        BY <3>1, <4>1, <4>2
    <3>4. QED
      BY <3>2, <3>3
  <2>3. ASSUME NEW i \in 1..(Len(h) - k) PROVE b[i] = h[k + i]
    BY <1>0, <2>1, SubSeqProperties
  <2>4. QED
    BY <2>2, <2>3
<1> HIDE DEF a, b
<1>3. Ordered(b, m)
  <2>1. ASSUME NEW i \in 1..Len(b) PROVE b[i] \in 1..m
    <3>1. k + i \in 1..Len(h) /\ b[i] = h[k + i]
      BY <1>2, <1>0, SMTT(30)
    <3>2. QED
      BY <3>1 DEF Ordered
  <2>2. ASSUME NEW i \in 1..Len(b), NEW j \in 1..Len(b), i < j PROVE b[i] < b[j]
    <3>1. k + i \in 1..Len(h) /\ b[i] = h[k + i]
      BY <1>2, <1>0, SMTT(30)
    <3>2. k + j \in 1..Len(h) /\ b[j] = h[k + j] /\ k + i < k + j
      BY <1>2, <1>0, <2>2
    <3>3. QED
      BY <3>1, <3>2 DEF Ordered
  <2>3. QED
    BY <2>1, <2>2 DEF Ordered
<1>4. Range(a) = {h[i] : i \in 1..k} /\ Range(h) = {h[i] : i \in 1..Len(h)}
  BY <1>0, <1>1 DEF Range
<1>5. Range(b) = {h[i] : i \in (k + 1)..Len(h)}
  <2>1. Range(b) = {b[i] : i \in 1..(Len(h) - k)}
    BY <1>2 DEF Range
  <2>2. ASSUME NEW i \in 1..(Len(h) - k) PROVE b[i] \in {h[j] : j \in (k + 1)..Len(h)}
    BY <1>0, <1>2
  <2>3. ASSUME NEW j \in (k + 1)..Len(h) PROVE h[j] \in {b[i] : i \in 1..(Len(h) - k)}
    <3>1. j - k \in 1..(Len(h) - k) /\ k + (j - k) = j
      BY <1>0
    <3>2. b[j - k] = h[j]
      BY <3>1, <1>2
    <3>3. QED
      BY <3>1, <3>2
  <2>4. QED
    BY <2>1, <2>2, <2>3
<1>6. ASSUME NEW x \in Range(b) PROVE x \in Range(h) \ Range(a)
  <2>1. PICK j \in (k + 1)..Len(h) : x = h[j]
    BY <1>5
  <2>2. ASSUME NEW i \in 1..k PROVE h[i] # x
    <3>1. i \in 1..Len(h) /\ j \in 1..Len(h) /\ i < j
      BY <1>0
    <3>2. h[i] < h[j] /\ h[i] \in Nat /\ h[j] \in Nat
      BY <3>1 DEF Ordered
    <3>3. QED
      BY <3>2, <2>1
  <2>3. x \in Range(h)
    BY <2>1, <1>4, <1>0
  <2>4. QED
    BY <2>2, <2>3, <1>4
<1>7. ASSUME NEW x \in Range(h) \ Range(a) PROVE x \in Range(b)
  <2>1. PICK i \in 1..Len(h) : x = h[i]
    BY <1>4
  <2>2. i \notin 1..k
    BY <2>1, <1>4
  <2>3. QED
    BY <2>1, <2>2, <1>0, <1>5
<1>8. Range(a) \subseteq Range(h)
  BY <1>4, <1>0
<1>9. QED
  BY <1>1, <1>2, <1>3, <1>6, <1>7, <1>8 DEF a, b

\* Its numbers are finitely many, and sent has their sizes.
LEMMA Numbers ==
  ASSUME NEW h \in Seq(Nat), NEW m \in Nat, Ordered(h, m)
  PROVE  IsFiniteSet(Range(h)) /\ Range(h) \subseteq 1..m
<1>1. Range(h) \subseteq 1..m
  BY DEF Range, Ordered
<1>2. IsFiniteSet(1..m)
  BY FS_Interval
<1>3. QED
  BY <1>1, <1>2, FS_Subset

\* so are those of a part of an interval.
LEMMA Countable ==
  ASSUME NEW b \in Int, NEW T, T \subseteq 1..b
  PROVE  IsFiniteSet(T) /\ Cardinality(T) \in Nat
<1>1. IsFiniteSet(1..b)
  BY FS_Interval
<1>2. IsFiniteSet(T)
  BY <1>1, FS_Subset
<1>3. QED
  BY <1>2, FS_CardinalityType

\* The event that comes next
LEMMA Appended ==
  ASSUME NEW h \in Seq(Nat), NEW m \in Nat, Ordered(h, m)
  PROVE  /\ Append(h, m + 1) \in Seq(Nat) /\ Len(Append(h, m + 1)) = Len(h) + 1
         /\ Ordered(Append(h, m + 1), m + 1)
         /\ Range(Append(h, m + 1)) = Range(h) \cup {m + 1}
<1> DEFINE a == Append(h, m + 1)
<1>1. /\ a \in Seq(Nat) /\ Len(a) = Len(h) + 1 /\ Len(h) \in Nat /\ DOMAIN h = 1..Len(h)
      /\ DOMAIN a = 1..(Len(h) + 1)
      /\ a[Len(h) + 1] = m + 1 /\ \A i \in 1..Len(h) : a[i] = h[i]
  OBVIOUS
<1> HIDE DEF a
<1>2. \A i \in 1..Len(h) : h[i] \in 1..m /\ h[i] < m + 1 /\ h[i] \in 1..(m + 1)
  BY DEF Ordered
<1>3. \A i \in 1..Len(a) : a[i] \in 1..(m + 1)
  BY <1>1, <1>2, SMTT(30)
<1>4. ASSUME NEW i \in 1..Len(a), NEW j \in 1..Len(a), i < j PROVE a[i] < a[j]
  <2>1. i \in 1..Len(h)
    BY <1>1, <1>4
  <2>2. CASE j \in 1..Len(h)
    BY <2>1, <2>2, <1>1, <1>4 DEF Ordered
  <2>3. CASE j = Len(h) + 1
    BY <2>1, <2>3, <1>1, <1>2
  <2>4. QED
    BY <2>2, <2>3, <1>1
<1>5. Range(a) = Range(h) \cup {m + 1}
  <2>1. ASSUME NEW x \in Range(a) PROVE x \in Range(h) \cup {m + 1}
    <3>1. PICK i \in 1..(Len(h) + 1) : x = a[i]
      BY <1>1 DEF Range
    <3>2. CASE i = Len(h) + 1
      BY <3>1, <3>2, <1>1
    <3>3. CASE i \in 1..Len(h)
      BY <3>1, <3>3, <1>1 DEF Range
    <3>4. QED
      BY <3>2, <3>3, <1>1
  <2>2. ASSUME NEW x \in Range(h) PROVE x \in Range(a)
    BY <1>1 DEF Range
  <2>3. m + 1 \in Range(a)
    <3>1. Len(h) + 1 \in DOMAIN a
      BY <1>1
    <3>2. QED
      BY <3>1, <1>1 DEF Range
  <2>4. QED
    BY <2>1, <2>2, <2>3
<1>6. QED
  BY <1>1, <1>3, <1>4, <1>5 DEF a, Ordered

\* The sizes of a part of the history and of the rest of it add up.
LEMMA SizesSplit ==
  ASSUME NEW f \in Seq(Nat), NEW h \in Seq(Nat), Ordered(h, Len(f)), NEW k \in 0..Len(h)
  PROVE  /\ SumFunctionOnSet(f, Range(SubSeq(h, 1, k))) \in Int
         /\ SumFunctionOnSet(f, Range(SubSeq(h, k + 1, Len(h)))) \in Int
         /\ SumFunctionOnSet(f, Range(h))
            = SumFunctionOnSet(f, Range(SubSeq(h, 1, k)))
              + SumFunctionOnSet(f, Range(SubSeq(h, k + 1, Len(h))))
<1> DEFINE S == Range(h)
           T == Range(SubSeq(h, 1, k))
<1>1. Len(f) \in Nat /\ \A i \in 1..Len(f) : f[i] \in Int
  OBVIOUS
<1>2. IsFiniteSet(S) /\ S \subseteq 1..Len(f)
  BY <1>1, Numbers
<1>3. T \in SUBSET S /\ Range(SubSeq(h, k + 1, Len(h))) = S \ T
  BY <1>1, Cut
<1> HIDE DEF S, T
<1>4. \A i \in S : f[i] \in Int
  BY <1>1, <1>2
<1>5. /\ SumFunctionOnSet(f, T) \in Int /\ SumFunctionOnSet(f, S \ T) \in Int
      /\ SumFunctionOnSet(f, S) = SumFunctionOnSet(f, T) + SumFunctionOnSet(f, S \ T)
  BY <1>2, <1>3, <1>4, SumSplit
<1>6. QED
  BY <1>3, <1>5 DEF S, T

\* With all its events popped a history has room, so the loop of emit ends, and it ends
\* where there is room.
LEMMA LoopEnds ==
  ASSUME BusLimits, Types, Ordered(history, Len(sent)), ReplayWithinBudget,
         NEW size \in Nat, size <= MaxReplayBytes
  PROVE  /\ Evict(history, bytes, size) \in 0..Len(history)
         /\ Fits(history, bytes, size, Evict(history, bytes, size))
<1> DEFINE F(k) == Fits(history, bytes, size, k)
           X == {k \in 0..Len(history) : F(k)}
<1>1. Len(history) \in Nat /\ bytes \in Nat /\ MaxReplay \in Nat \ {0} /\ MaxReplayBytes \in Nat
  BY DEF Types, BusLimits
<1>2. Len(history) \in X
  <2>1. SubSeq(history, 1, Len(history)) = history
    BY SubSeqFull DEF Types
  <2>2. bytes - SizeOf(SubSeq(history, 1, Len(history))) + size <= MaxReplayBytes
    <3>1. SizeOf(SubSeq(history, 1, Len(history))) = bytes
      BY <2>1 DEF ReplayWithinBudget
    <3>2. QED
      BY <1>1, <3>1
  <2>3. QED
    BY <1>1, <2>2 DEF Fits
<1>3. PICK k \in X : \A j \in X : ~(<<j, k>> \in OpToRel(<, Nat))
  <2>1. X \in SUBSET Nat /\ X # {}
    BY <1>1, <1>2
  <2> HIDE DEF X
  <2>2. IsWellFoundedOn(OpToRel(<, Nat), Nat)
    BY NatLessThanWellFounded
  <2>3. QED
    BY <2>1, <2>2, WFMin
<1>4. ASSUME NEW j \in X, j < k PROVE FALSE
  <2>1. <<j, k>> \in Nat \X Nat
    BY <1>1
  <2>2. <<j, k>>[1] < <<j, k>>[2]
    BY <1>4
  <2>3. <<j, k>> \in OpToRel(<, Nat)
    BY <2>1, <2>2, Zenon DEF OpToRel
  <2>4. QED
    BY <2>3, <1>3
<1>5. \A j \in 0..(k - 1) : ~F(j)
  BY <1>1, <1>4
<1>6. k \in 0..Len(history) /\ F(k)
  BY <1>3
<1>7. QED
  <2> HIDE DEF F, X
  <2>1. \E i \in 0..Len(history) : F(i) /\ \A j \in 0..(i - 1) : ~F(j)
    BY <1>5, <1>6
  <2> DEFINE c == CHOOSE i \in 0..Len(history) : F(i) /\ \A j \in 0..(i - 1) : ~F(j)
  <2>2. c \in 0..Len(history) /\ F(c)
    BY <2>1
  <2>3. QED
    BY <2>2 DEF F, Evict

-----------------------------------------------------------------------------
\* An event more, whatever of the history was popped, leaves a stream in step,
LEMMA StreamEmit ==
  ASSUME NEW k \in StreamType, NEW H, NEW m \in Nat, InStep(k, H, m),
         NEW G, G \subseteq H \cup {m + 1}
  PROVE  InStep(k, G, m + 1)
<1>1. k.from \in Nat /\ k.next \in Nat /\ k.missed \in Nat
  BY DEF StreamType
<1>2. \A n \in G : n < k.from => n \in H
  BY <1>1 DEF InStep
<1>3. k.next <= m + 1 + 1
  BY <1>1 DEF InStep
<1>4. QED
  BY <1>2, <1>3 DEF InStep

\* A sequence that is not empty is its head and its tail.
LEMMA FirstAndRest ==
  ASSUME NEW r \in Seq(Nat), r # <<>>
  PROVE  /\ Head(r) \in Range(r) /\ Head(r) \in Nat /\ Tail(r) \in Seq(Nat)
         /\ Range(r) = Range(Tail(r)) \cup {Head(r)}
<1> DEFINE t == Tail(r)
<1>1. /\ Len(r) \in Nat /\ Len(r) >= 1 /\ DOMAIN r = 1..Len(r) /\ Head(r) = r[1]
      /\ t \in Seq(Nat) /\ DOMAIN t = 1..(Len(r) - 1)
      /\ \A i \in 1..(Len(r) - 1) : t[i] = r[i + 1]
  OBVIOUS
<1> HIDE DEF t
<1>2. r[1] \in Range(r) /\ r[1] \in Nat
  BY <1>1, SMTT(30) DEF Range
<1>3. ASSUME NEW x \in Range(r) PROVE x \in Range(t) \cup {r[1]}
  <2>1. PICK i \in 1..Len(r) : x = r[i]
    BY <1>1 DEF Range
  <2>2. CASE i # 1
    <3>1. i - 1 \in 1..(Len(r) - 1) /\ (i - 1) + 1 = i
      BY <1>1, <2>2
    <3>2. t[i - 1] = x
      BY <3>1, <1>1, <2>1
    <3>3. QED
      BY <3>1, <3>2, <1>1 DEF Range
  <2>3. QED
    BY <2>1, <2>2
<1>4. ASSUME NEW x \in Range(t) PROVE x \in Range(r)
  <2>1. PICK i \in 1..(Len(r) - 1) : x = t[i]
    BY <1>1 DEF Range
  <2>2. i + 1 \in 1..Len(r) /\ x = r[i + 1]
    BY <2>1, <1>1
  <2>3. QED
    BY <2>2, <1>1 DEF Range
<1>5. QED
  BY <1>1, <1>2, <1>3, <1>4 DEF t

\* so does the next event of the replay,
LEMMA StreamReplay ==
  ASSUME NEW k \in StreamType, NEW H, NEW m \in Nat, InStep(k, H, m), k.replay # <<>>
  PROVE  LET k2 == [k EXCEPT !.replay = Tail(@), !.got = @ \cup {Head(k.replay)}]
         IN  InStep(k2, H, m) /\ k2 \in StreamType
<1> DEFINE k2 == [k EXCEPT !.replay = Tail(@), !.got = @ \cup {Head(k.replay)}]
           x  == Head(k.replay)
           r  == k.replay
<1>1. /\ k.from \in Nat /\ k.next \in Nat /\ k.missed \in Nat /\ k.got \subseteq Nat
      /\ r \in Seq(Nat) /\ r # <<>>
  BY DEF StreamType
<1>2. /\ k2.from = k.from /\ k2.next = k.next /\ k2.missed = k.missed /\ k2.pc = k.pc
      /\ k2.replay = Tail(r) /\ k2.got = k.got \cup {x}
  BY DEF StreamType
<1>3. x \in Range(r) /\ Range(r) = Range(Tail(r)) \cup {x} /\ x \in Nat /\ Tail(r) \in Seq(Nat)
  BY <1>1, FirstAndRest
<1>4. k2 \in StreamType
  BY <1>1, <1>3 DEF StreamType
<1> HIDE DEF k2, x, r
<1>5. x < k.from /\ 1 <= x
  BY <1>3 DEF InStep, r
<1>6. {n \in k.got \cup {x} : n >= k.from} = {n \in k.got : n >= k.from}
  BY <1>1, <1>3, <1>5
<1>7. k.got \cup {x} \subseteq 1..(k.next - 1)
  BY <1>1, <1>3, <1>5 DEF InStep
<1>8. \A n \in Range(Tail(r)) : n < k.from /\ 1 <= n
  BY <1>3 DEF InStep, r
<1>9. \A n \in H : n < k.from => n \in k.got \cup {x} \/ n \in Range(Tail(r))
  BY <1>3 DEF InStep, r
<1>10. InStep(k2, H, m)
  <2>1. 1 <= k2.from /\ k2.from <= k2.next /\ k2.next <= m + 1
    BY <1>2 DEF InStep
  <2>2. k2.got \subseteq 1..(k2.next - 1)
    BY <1>2, <1>7
  <2>3. \A n \in Range(k2.replay) : n < k2.from /\ 1 <= n
    BY <1>2, <1>8
  <2>4. Cardinality({n \in k2.got : n >= k2.from}) + k2.missed = k2.next - k2.from
    BY <1>2, <1>6 DEF InStep
  <2>5. \A n \in H : n < k2.from => n \in k2.got \/ n \in Range(k2.replay)
    BY <1>2, <1>9
  <2>6. QED
    BY <2>1, <2>2, <2>3, <2>4, <2>5 DEF InStep
<1>11. QED
  BY <1>4, <1>10 DEF k2, x, r

\* the next event of the ring,
LEMMA StreamReceive ==
  ASSUME NEW k \in StreamType, NEW H, NEW m \in Nat, InStep(k, H, m), k.next <= m
  PROVE  LET k2 == [k EXCEPT !.got = @ \cup {k.next}, !.next = @ + 1]
         IN  InStep(k2, H, m) /\ k2 \in StreamType
<1> DEFINE k2 == [k EXCEPT !.got = @ \cup {k.next}, !.next = @ + 1]
           live == {n \in k.got : n >= k.from}
<1>1. /\ k.from \in Nat /\ k.next \in Nat /\ k.missed \in Nat /\ k.got \subseteq Nat
      /\ k.from <= k.next /\ k.got \subseteq 1..(k.next - 1) /\ 1 <= k.next /\ 1 <= k.from
  BY DEF StreamType, InStep
<1>2. /\ k2.from = k.from /\ k2.next = k.next + 1 /\ k2.missed = k.missed
      /\ k2.replay = k.replay /\ k2.got = k.got \cup {k.next}
  BY DEF StreamType
<1>3. k2 \in StreamType
  <2>1. \A g \in SUBSET Nat, n \in Nat : [k EXCEPT !.got = g, !.next = n] \in StreamType
    BY DEF StreamType
  <2>2. k.got \cup {k.next} \in SUBSET Nat /\ k.next + 1 \in Nat
    BY <1>1
  <2>3. QED
    BY <2>1, <2>2
<1> HIDE DEF k2
<1>4. {n \in k2.got : n >= k2.from} = live \cup {k.next} /\ k.next \notin live
  BY <1>1, <1>2
<1>5. IsFiniteSet(live) /\ Cardinality(live) \in Nat
  <2>1. live \subseteq 1..(k.next - 1) /\ k.next - 1 \in Int
    BY <1>1
  <2> HIDE DEF live
  <2>2. QED
    BY <2>1, Countable
<1>6. Cardinality(live) + k.missed = k.next - k.from
  BY DEF InStep
<1> HIDE DEF live
<1>7. Cardinality(live \cup {k.next}) = Cardinality(live) + 1
  BY <1>4, <1>5, FS_AddElement
<1>8. Cardinality({n \in k2.got : n >= k2.from}) + k2.missed = k2.next - k2.from
  <2>1. Cardinality({n \in k2.got : n >= k2.from}) = Cardinality(live) + 1
    BY <1>4, <1>7
  <2>2. Cardinality(live) + 1 + k2.missed = k2.next - k2.from
    BY <1>1, <1>2, <1>5, <1>6
  <2>3. QED
    BY <2>1, <2>2
<1>9. 1 <= k2.from /\ k2.from <= k2.next /\ k2.next <= m + 1
  BY <1>1, <1>2
<1>10. k2.got \subseteq 1..(k2.next - 1)
  BY <1>1, <1>2
<1>11. \A n \in Range(k2.replay) : n < k2.from /\ 1 <= n
  BY <1>2 DEF InStep
<1>12. \A n \in H : n < k2.from => n \in k2.got \/ n \in Range(k2.replay)
  BY <1>2 DEF InStep
<1>13. InStep(k2, H, m)
  BY <1>8, <1>9, <1>10, <1>11, <1>12 DEF InStep
<1>14. QED
  BY <1>3, <1>13 DEF k2

\* and a lag, which counts what it skips.
LEMMA StreamLag ==
  ASSUME BusLimits, Types, NEW k \in StreamType, NEW H, InStep(k, H, Len(sent)), k.next < Tail0
  PROVE  InStep(Lag(k), H, Len(sent)) /\ Lag(k) \in StreamType /\ Lag(k).pc = k.pc
<1>1. /\ k.from \in Nat /\ k.next \in Nat /\ k.missed \in Nat /\ k.got \subseteq Nat
      /\ k.from <= k.next /\ k.got \subseteq 1..(k.next - 1) /\ 1 <= k.from
  BY DEF StreamType, InStep
<1>2. Tail0 \in Nat /\ Tail0 <= Len(sent) + 1
  BY DEF Tail0, Types, BusLimits
<1>3. /\ Lag(k).from = k.from /\ Lag(k).next = Tail0 /\ Lag(k).got = k.got
      /\ Lag(k).missed = k.missed + (Tail0 - k.next)
      /\ Lag(k).replay = k.replay /\ Lag(k).pc = k.pc
  BY DEF StreamType, Lag
<1>4. Lag(k) \in StreamType
  <2>1. \A g \in Nat, n \in Nat : [k EXCEPT !.missed = g, !.next = n] \in StreamType
    BY DEF StreamType
  <2>2. k.missed + (Tail0 - k.next) \in Nat
    BY <1>1, <1>2
  <2>3. QED
    BY <1>2, <2>1, <2>2 DEF Lag
<1>5. Cardinality({n \in k.got : n >= k.from}) + k.missed = k.next - k.from
  BY DEF InStep
<1>6. Cardinality({n \in k.got : n >= k.from}) = (k.next - k.from) - k.missed
  <2> DEFINE live == {n \in k.got : n >= k.from}
  <2>1. live \subseteq 1..(k.next - 1) /\ k.next - 1 \in Int
    BY <1>1
  <2>2. Cardinality(live) \in Nat
    <3> HIDE DEF live
    <3> QED BY <2>1, Countable
  <2>3. Cardinality(live) + k.missed = k.next - k.from
    BY <1>5
  <2> HIDE DEF live
  <2>4. Cardinality(live) = (k.next - k.from) - k.missed
    BY <2>2, <2>3, <1>1
  <2>5. QED
    BY <2>4 DEF live
<1>7. Cardinality({n \in Lag(k).got : n >= Lag(k).from}) + Lag(k).missed = Lag(k).next - Lag(k).from
  BY <1>1, <1>2, <1>3, <1>6
<1>8. 1 <= Lag(k).from /\ Lag(k).from <= Lag(k).next /\ Lag(k).next <= Len(sent) + 1
  BY <1>1, <1>2, <1>3
<1>9. Lag(k).got \subseteq 1..(Lag(k).next - 1)
  BY <1>1, <1>2, <1>3
<1>10. \A n \in Range(Lag(k).replay) : n < Lag(k).from /\ 1 <= n
  BY <1>3 DEF InStep
<1>11. \A n \in H : n < Lag(k).from => n \in Lag(k).got \/ n \in Range(Lag(k).replay)
  BY <1>3 DEF InStep
<1>12. InStep(Lag(k), H, Len(sent))
  BY <1>7, <1>8, <1>9, <1>10, <1>11 DEF InStep
<1>13. QED
  BY <1>3, <1>4, <1>12

-----------------------------------------------------------------------------
Running == {"replay", "live"}

\* The invariant at the start.
LEMMA BusStarts == ASSUME BusLimits PROVE Init => BusInv
<1> SUFFICES ASSUME Init PROVE BusInv
  OBVIOUS
<1> USE DEF Init
<1>1. NewStream \in StreamType /\ NewStream.pc = "off"
  BY DEF NewStream, StreamType, Phases
<1>2. Len(sent) = 0 /\ Len(history) = 0 /\ MaxSse \in Nat /\ MaxReplay \in Nat /\ MaxReplayBytes \in Nat
  BY DEF BusLimits
<1>3. Types
  BY <1>1, <1>2 DEF Types
<1>4. Ordered(history, Len(sent))
  BY <1>2 DEF Ordered
<1>5. ReplayWithinBudget
  <2>1. Range(history) = {}
    BY DEF Range
  <2>2. SizeOf(history) = 0
    <3>1. SumFunctionOnSet(sent, {}) = 0
      <4> DEFINE z == [T \in SUBSET {} |-> 0]
      <4>1. Sums(z, sent, {}) /\ z[{}] = 0 /\ IsFiniteSet({})
        BY FS_EmptySet DEF Sums
      <4> HIDE DEF z
      <4>2. QED
        BY <4>1, SumIs
    <3>2. QED
      BY <2>1, <3>1 DEF SizeOf
  <2>3. QED
    BY <1>2, <2>2 DEF ReplayWithinBudget
<1>6. Active = {}
  BY <1>1 DEF Active
<1>7. PermitsKnown
  BY <1>2, <1>6, FS_EmptySet DEF PermitsKnown
<1>8. QED
  BY <1>3, <1>4, <1>5, <1>6, <1>7 DEF BusInv

\* One stream changes, and takes or returns its permit as it starts or stops running.
LEMMA OneStream ==
  ASSUME BusInv, NEW s \in Streams, NEW k2 \in StreamType,
         stream' = [stream EXCEPT ![s] = k2], UNCHANGED <<sent, last, history, bytes, open>>,
         k2.pc \in Running => InStep(k2, Range(history), Len(sent)),
         \/ stream[s].pc \in Running /\ k2.pc \in Running /\ permits' = permits
         \/ stream[s].pc \in Running /\ k2.pc \notin Running /\ permits' = permits + 1
         \/ /\ stream[s].pc \notin Running /\ k2.pc \in Running
            /\ permits > 0 /\ permits' = permits - 1
  PROVE  BusInv'
<1>1. stream \in [Streams -> StreamType] /\ permits \in Nat
  BY DEF BusInv, Types
<1>2. stream' \in [Streams -> StreamType] /\ permits' \in Nat
  BY <1>1
<1>3. Types'
  BY <1>2 DEF BusInv, Types
<1>4. Ordered(history, Len(sent))' /\ ReplayWithinBudget'
  BY DEF BusInv, ReplayWithinBudget, SizeOf
<1>5. \A t \in Streams : stream'[t] = IF t = s THEN k2 ELSE stream[t]
  BY <1>1
<1>6. Active' = {t \in Streams : stream'[t].pc \in Running}
      /\ Active = {t \in Streams : stream[t].pc \in Running}
  BY DEF Active, Running
<1>7. ASSUME NEW t \in Active' PROVE InStep(stream'[t], Range(history), Len(sent))
  <2>1. CASE t = s
    BY <2>1, <1>5, <1>6, <1>7
  <2>2. CASE t # s
    <3>1. t \in Active /\ stream'[t] = stream[t]
      BY <2>2, <1>5, <1>6, <1>7
    <3>2. QED
      BY <3>1 DEF BusInv
  <2>3. QED
    BY <2>1, <2>2
<1>8. IsFiniteSet(Active) /\ Cardinality(Active) \in Nat /\ permits + Cardinality(Active) = MaxSse
  BY FS_CardinalityType DEF BusInv, PermitsKnown
<1>9. IsFiniteSet(Active') /\ permits' + Cardinality(Active') = MaxSse
  <2>1. CASE stream[s].pc \in Running /\ k2.pc \in Running /\ permits' = permits
    <3>1. Active' = Active
      BY <2>1, <1>5, <1>6
    <3>2. QED
      BY <3>1, <2>1, <1>8
  <2>2. CASE stream[s].pc \in Running /\ k2.pc \notin Running /\ permits' = permits + 1
    <3>1. Active' = Active \ {s} /\ s \in Active
      BY <2>2, <1>5, <1>6
    <3>2. /\ IsFiniteSet(Active \ {s})
          /\ Cardinality(Active \ {s}) = Cardinality(Active) - 1
      BY <3>1, <1>8, FS_RemoveElement
    <3>3. QED
      BY <3>1, <3>2, <2>2, <1>1, <1>8
  <2>3. CASE /\ stream[s].pc \notin Running /\ k2.pc \in Running
             /\ permits > 0 /\ permits' = permits - 1
    <3>1. Active' = Active \cup {s} /\ s \notin Active
      BY <2>3, <1>5, <1>6
    <3>2. /\ IsFiniteSet(Active \cup {s})
          /\ Cardinality(Active \cup {s}) = Cardinality(Active) + 1
      BY <3>1, <1>8, FS_AddElement
    <3>3. QED
      BY <3>1, <3>2, <2>3, <1>1, <1>8
  <2>4. QED
    BY <2>1, <2>2, <2>3
<1>10. PermitsKnown'
  BY <1>9 DEF PermitsKnown
<1>11. (\A t \in Active : InStep(stream[t], Range(history), Len(sent)))'
  BY <1>7
<1>12. QED
  BY <1>3, <1>4, <1>10, <1>11 DEF BusInv

\* A stream that ends keeps its type.
LEMMA Closed ==
  ASSUME NEW k \in StreamType
  PROVE  Close(k) \in StreamType /\ Close(k).pc = "closed"
<1>1. <<>> \in Seq(Nat) /\ "closed" \in Phases
  BY DEF Phases
<1>2. \A p \in Phases, r \in Seq(Nat) : [k EXCEPT !.pc = p, !.replay = r] \in StreamType
  BY DEF StreamType
<1>3. Close(k).pc = "closed"
  BY DEF Close, StreamType
<1>4. QED
  BY <1>1, <1>2, <1>3 DEF Close

-----------------------------------------------------------------------------
\* The steps of a stream
LEMMA ConnectKeeps ==
  ASSUME BusLimits, BusInv, NEW s \in Streams, Connect(s)
  PROVE  BusInv'
<1> DEFINE k2 == [pc |-> "replay", replay |-> history, next |-> Subscribe,
                  from |-> Subscribe, got |-> {}, missed |-> 0]
           m == Len(sent)
<1>1. m \in Nat /\ history \in Seq(Nat) /\ Ordered(history, m) /\ Subscribe = m + 1
  BY DEF BusInv, Types, Subscribe
<1>2. k2 \in StreamType
  BY <1>1 DEF StreamType, Phases
<1>3. Range(history) \subseteq 1..m
  BY <1>1, Numbers
<1>4. InStep(k2, Range(history), m)
  <2>1. {n \in {} : n >= m + 1} = {} /\ Cardinality({}) = 0
    BY FS_EmptySet
  <2>2. \A n \in Range(history) : n < m + 1 /\ 1 <= n
    BY <1>1, <1>3
  <2>3. Cardinality({n \in k2.got : n >= k2.from}) + k2.missed = k2.next - k2.from
    BY <1>1, <2>1
  <2>4. QED
    BY <1>1, <2>2, <2>3 DEF InStep
<1>5. k2.pc \in Running /\ stream[s].pc \notin Running /\ permits > 0 /\ permits' = permits - 1
  BY DEF Connect, Running
<1>6. stream' = [stream EXCEPT ![s] = k2] /\ UNCHANGED <<sent, last, history, bytes, open>>
  BY DEF Connect
<1> HIDE DEF k2
<1>7. QED
  BY <1>2, <1>4, <1>5, <1>6, OneStream

LEMMA ReplayKeeps ==
  ASSUME BusLimits, BusInv, NEW s \in Streams, Replay(s)
  PROVE  BusInv'
<1> DEFINE k == stream[s]
<1>1. k \in StreamType /\ k.pc = "replay" /\ k.pc \in Running
  BY DEF Replay, Running, BusInv, Types
<1>2. InStep(k, Range(history), Len(sent)) /\ Len(sent) \in Nat
  BY <1>1 DEF BusInv, Types, Active, Running
<1>3. UNCHANGED <<sent, last, history, bytes, open>>
  BY DEF Replay
<1>4. CASE k.replay = <<>>
  <2> DEFINE k2 == [k EXCEPT !.pc = "live"]
  <2>1. stream' = [stream EXCEPT ![s] = k2] /\ permits' = permits
    BY <1>4 DEF Replay
  <2>2. k2 \in StreamType /\ k2.pc = "live"
    BY <1>1 DEF StreamType, Phases
  <2>3. /\ k2.from = k.from /\ k2.next = k.next /\ k2.missed = k.missed
        /\ k2.replay = k.replay /\ k2.got = k.got
    BY <1>1 DEF StreamType
  <2> HIDE DEF k2
  <2>4. InStep(k2, Range(history), Len(sent))
    BY <1>2, <2>3 DEF InStep
  <2>5. k2.pc \in Running
    BY <2>2 DEF Running
  <2>6. QED
    BY <1>1, <1>3, <2>1, <2>2, <2>4, <2>5, OneStream
<1>5. CASE k.replay # <<>>
  <2> DEFINE k2 == [k EXCEPT !.replay = Tail(@), !.got = @ \cup {Head(k.replay)}]
             end == s \in RunStreams /\ Head(k.replay) = last
  <2>1. InStep(k2, Range(history), Len(sent)) /\ k2 \in StreamType
    BY <1>1, <1>2, <1>5, StreamReplay
  <2>2. k2.pc = k.pc
    BY <1>1 DEF StreamType
  <2>3. stream' = [stream EXCEPT ![s] = IF end THEN Close(k2) ELSE k2]
        /\ permits' = IF end THEN permits + 1 ELSE permits
    BY <1>5 DEF Replay
  <2> HIDE DEF k2, end
  <2>4. CASE end
    <3>1. Close(k2) \in StreamType /\ Close(k2).pc \notin Running
      BY <2>1, Closed DEF Running
    <3>2. QED
      BY <1>1, <1>3, <2>3, <2>4, <3>1, OneStream
  <2>5. CASE ~end
    <3>1. stream' = [stream EXCEPT ![s] = k2] /\ permits' = permits /\ k2.pc \in Running
      BY <2>2, <2>3, <2>5, <1>1
    <3>2. QED
      BY <1>1, <1>3, <2>1, <3>1, OneStream
  <2>6. QED
    BY <2>4, <2>5
<1>6. QED
  BY <1>4, <1>5

LEMMA ReceiveKeeps ==
  ASSUME BusLimits, BusInv, NEW s \in Streams, Receive(s)
  PROVE  BusInv'
<1> DEFINE k == stream[s]
           k2 == [k EXCEPT !.got = @ \cup {k.next}, !.next = @ + 1]
           end == s \in RunStreams /\ k.next = last
<1>1. k \in StreamType /\ k.pc = "live" /\ k.pc \in Running /\ k.next <= Len(sent)
  BY DEF Receive, Running, BusInv, Types
<1>2. InStep(k, Range(history), Len(sent)) /\ Len(sent) \in Nat
  BY <1>1 DEF BusInv, Types, Active, Running
<1>3. UNCHANGED <<sent, last, history, bytes, open>>
  BY DEF Receive
<1>4. InStep(k2, Range(history), Len(sent)) /\ k2 \in StreamType
  BY <1>1, <1>2, StreamReceive
<1>5. k2.pc = k.pc
  BY <1>1 DEF StreamType
<1>6. stream' = [stream EXCEPT ![s] = IF end THEN Close(k2) ELSE k2]
      /\ permits' = IF end THEN permits + 1 ELSE permits
  BY DEF Receive
<1> HIDE DEF k2, end
<1>7. CASE end
  <2>1. Close(k2) \in StreamType /\ Close(k2).pc \notin Running
    BY <1>4, Closed DEF Running
  <2>2. QED
    BY <1>1, <1>3, <1>6, <1>7, <2>1, OneStream
<1>8. CASE ~end
  <2>1. stream' = [stream EXCEPT ![s] = k2] /\ permits' = permits /\ k2.pc \in Running
    BY <1>1, <1>5, <1>6, <1>8
  <2>2. QED
    BY <1>1, <1>3, <1>4, <2>1, OneStream
<1>9. QED
  BY <1>7, <1>8

LEMMA LaggedKeeps ==
  ASSUME BusLimits, BusInv, NEW s \in Streams, Lagged(s)
  PROVE  BusInv'
<1> DEFINE k == stream[s]
           k2 == Lag(k)
           end == s \in ConversationStreams
<1>1. k \in StreamType /\ k.pc = "live" /\ k.pc \in Running /\ k.next < Tail0 /\ Types
  BY DEF Lagged, Running, BusInv, Types
<1>2. InStep(k, Range(history), Len(sent))
  BY <1>1 DEF BusInv, Active, Running
<1>3. UNCHANGED <<sent, last, history, bytes, open>>
  BY DEF Lagged
<1>4. InStep(k2, Range(history), Len(sent)) /\ k2 \in StreamType /\ k2.pc = k.pc
  BY <1>1, <1>2, StreamLag
<1>5. stream' = [stream EXCEPT ![s] = IF end THEN Close(k2) ELSE k2]
      /\ permits' = IF end THEN permits + 1 ELSE permits
  BY DEF Lagged
<1> HIDE DEF k2, end
<1>6. CASE end
  <2>1. Close(k2) \in StreamType /\ Close(k2).pc \notin Running
    BY <1>4, Closed DEF Running
  <2>2. QED
    BY <1>1, <1>3, <1>5, <1>6, <2>1, OneStream
<1>7. CASE ~end
  <2>1. stream' = [stream EXCEPT ![s] = k2] /\ permits' = permits /\ k2.pc \in Running
    BY <1>1, <1>4, <1>5, <1>7
  <2>2. QED
    BY <1>1, <1>3, <1>4, <2>1, OneStream
<1>8. QED
  BY <1>6, <1>7

LEMMA BusClosedKeeps ==
  ASSUME BusLimits, BusInv, NEW s \in Streams, BusClosed(s)
  PROVE  BusInv'
<1>1. stream[s] \in StreamType /\ stream[s].pc \in Running
  BY DEF BusClosed, Running, BusInv, Types
<1>2. Close(stream[s]) \in StreamType /\ Close(stream[s]).pc \notin Running
  BY <1>1, Closed DEF Running
<1>3. /\ stream' = [stream EXCEPT ![s] = Close(stream[s])] /\ permits' = permits + 1
      /\ UNCHANGED <<sent, last, history, bytes, open>>
  BY DEF BusClosed, ReturnPermit
<1>4. QED
  BY <1>1, <1>2, <1>3, OneStream

LEMMA DisconnectKeeps ==
  ASSUME BusLimits, BusInv, NEW s \in Streams, Disconnect(s)
  PROVE  BusInv'
<1>1. stream[s].pc \in Running
  BY DEF Disconnect, Running
<1>2. NewStream \in StreamType /\ NewStream.pc \notin Running
  BY DEF NewStream, StreamType, Phases, Running
<1>3. /\ stream' = [stream EXCEPT ![s] = NewStream] /\ permits' = permits + 1
      /\ UNCHANGED <<sent, last, history, bytes, open>>
  BY DEF Disconnect, ReturnPermit
<1>4. QED
  BY <1>1, <1>2, <1>3, OneStream

-----------------------------------------------------------------------------
\* What emission makes of the history: the new event after what was not popped, within
\* both bounds, with bytes the sum of the sizes.
LEMMA HistoryAfter ==
  ASSUME BusLimits, Types, Ordered(history, Len(sent)), ReplayWithinBudget,
         NEW size \in Nat, size <= MaxReplayBytes, sent' = Append(sent, size),
         LET k == Evict(history, bytes, size)
         IN  /\ history' = Append(SubSeq(history, k + 1, Len(history)), Len(sent) + 1)
             /\ bytes' = bytes - SizeOf(SubSeq(history, 1, k)) + size
  PROVE  /\ history' \in Seq(Nat) /\ bytes' \in Nat
         /\ Ordered(history', Len(sent) + 1)
         /\ Range(history') \subseteq Range(history) \cup {Len(sent) + 1}
         /\ ReplayWithinBudget'
<1> DEFINE m == Len(sent)
           k == Evict(history, bytes, size)
           kept == SubSeq(history, k + 1, Len(history))
           S == Range(kept)
<1>1. /\ sent \in Seq(Nat) /\ m \in Nat /\ history \in Seq(Nat) /\ bytes \in Nat
      /\ Len(history) \in Nat /\ MaxReplay \in Nat /\ MaxReplayBytes \in Nat
  BY SMTT(30) DEF Types, BusLimits
<1>2. k \in 0..Len(history) /\ Fits(history, bytes, size, k)
  BY LoopEnds
<1> HIDE DEF k
<1>3. /\ kept \in Seq(Nat) /\ Len(kept) = Len(history) - k /\ Ordered(kept, m)
      /\ S \subseteq Range(history)
  BY <1>1, <1>2, Cut
<1>4. SumFunctionOnSet(sent, S) = bytes - SizeOf(SubSeq(history, 1, k))
      /\ SumFunctionOnSet(sent, S) \in Int
  <2>1. /\ SizeOf(SubSeq(history, 1, k)) \in Int /\ SumFunctionOnSet(sent, S) \in Int
        /\ SizeOf(history) = SizeOf(SubSeq(history, 1, k)) + SumFunctionOnSet(sent, S)
    BY <1>1, <1>2, SizesSplit DEF SizeOf
  <2>2. bytes = SizeOf(history)
    BY DEF ReplayWithinBudget
  <2> HIDE DEF S
  <2>3. QED
    BY <1>1, <2>1, <2>2
<1>5. history' = Append(kept, m + 1) /\ bytes' = SumFunctionOnSet(sent, S) + size
  BY <1>4 DEF k
<1> HIDE DEF kept
<1>6. /\ history' \in Seq(Nat) /\ Len(history') = Len(kept) + 1
      /\ Ordered(history', m + 1) /\ Range(history') = S \cup {m + 1}
  <2> HIDE DEF m
  <2>1. /\ Append(kept, m + 1) \in Seq(Nat) /\ Len(Append(kept, m + 1)) = Len(kept) + 1
        /\ Ordered(Append(kept, m + 1), m + 1)
        /\ Range(Append(kept, m + 1)) = Range(kept) \cup {m + 1}
    BY <1>1, <1>3, Appended
  <2>2. QED
    BY <2>1, <1>5, Zenon
<1>7. IsFiniteSet(S) /\ S \subseteq 1..m
  BY <1>1, <1>3, Numbers
<1>8. /\ \A x \in S : sent[x] \in Int /\ sent'[x] = sent[x]
      /\ sent'[m + 1] = size /\ m + 1 \notin S
  BY <1>1, <1>7, SMTT(30)
<1> HIDE DEF S, m
<1>9. SumFunctionOnSet(sent', S) = SumFunctionOnSet(sent, S)
  BY <1>7, <1>8, SumSame
<1>10. ASSUME NEW x \in S \cup {m + 1} PROVE sent'[x] \in Int
  <2>1. CASE x \in S
    BY <2>1, <1>8
  <2>2. CASE x = m + 1
    <3>1. size \in Int /\ sent'[x] = size
      BY <2>2, <1>8
    <3>2. QED
      BY <3>1
  <2>3. QED
    BY <2>1, <2>2
<1>11. SumFunctionOnSet(sent', S \cup {m + 1}) = SumFunctionOnSet(sent', S) + size
  <2> DEFINE f == sent'
             a == m + 1
  <2>1. /\ IsFiniteSet(S) /\ a \notin S /\ \A x \in S \cup {a} : f[x] \in Int
        /\ f[a] = size
    BY <1>7, <1>8, <1>10
  <2> HIDE DEF f, a
  <2>2. SumFunctionOnSet(f, S \cup {a}) = SumFunctionOnSet(f, S) + f[a]
    BY <2>1, SumAdd
  <2>3. QED
    BY <2>1, <2>2 DEF f, a
<1>12. bytes' = SizeOf(history)'
  <2>1. SizeOf(history)' = SumFunctionOnSet(sent', Range(history'))
    BY DEF SizeOf
  <2>2. QED
    BY <2>1, <1>5, <1>6, <1>9, <1>11
<1>13. bytes' <= MaxReplayBytes /\ Len(history') <= MaxReplay
  <2>1. /\ Len(history) - k < MaxReplay
        /\ bytes - SizeOf(SubSeq(history, 1, k)) + size <= MaxReplayBytes
    BY <1>2 DEF Fits
  <2>2. bytes' <= MaxReplayBytes
    BY <2>1, <1>4, <1>5
  <2>3. k \in Nat /\ Len(history') = Len(history) - k + 1
    BY <1>1, <1>2, <1>3, <1>6
  <2>4. \A p, q, l \in Nat : p - q < l => p - q + 1 <= l
    OBVIOUS
  <2>5. Len(history) - k + 1 <= MaxReplay
    BY <2>1, <2>3, <2>4, <1>1
  <2>6. QED
    BY <2>2, <2>3, <2>5
<1>14. bytes' \in Nat
  <2>1. \A x \in S : sent[x] \in Nat
    BY <1>1, <1>7, SMTT(30) DEF m
  <2>2. SumFunctionOnSet(sent, S) >= 0
    BY <2>1, <1>7, SumNat
  <2>3. QED
    BY <2>2, <1>4, <1>5
<1>15. QED
  BY <1>3, <1>6, <1>12, <1>13, <1>14 DEF ReplayWithinBudget, m

LEMMA EmitKeeps ==
  ASSUME BusLimits, BusInv, NEW raw \in Sizes, NEW terminal \in BOOLEAN, Emit(raw, terminal)
  PROVE  BusInv'
<1> DEFINE m == Len(sent)
           size == BoundEvent(raw)
<1>1. /\ sent \in Seq(Nat) /\ m \in Nat /\ history \in Seq(Nat) /\ bytes \in Nat
      /\ last \in 0..m /\ Types /\ Ordered(history, m) /\ ReplayWithinBudget
  BY DEF BusInv, Types
<1>2. size \in Nat
  BY DEF BoundEvent, BusLimits
<1>3. /\ sent' = Append(sent, size) /\ last' \in {last, m + 1}
      /\ UNCHANGED <<open, permits, stream>>
  BY DEF Emit
<1>4. /\ history' \in Seq(Nat) /\ bytes' \in Nat /\ Ordered(history', m + 1)
      /\ Range(history') \subseteq Range(history) \cup {m + 1} /\ ReplayWithinBudget'
  <2>1. CASE size <= MaxReplayBytes
    <3>1. LET k == Evict(history, bytes, size)
          IN  /\ history' = Append(SubSeq(history, k + 1, Len(history)), Len(sent) + 1)
              /\ bytes' = bytes - SizeOf(SubSeq(history, 1, k)) + size
      BY <2>1 DEF Emit
    <3> HIDE DEF size
    <3>2. QED
      BY <1>1, <1>2, <1>3, <2>1, <3>1, HistoryAfter
  <2>2. CASE ~(size <= MaxReplayBytes)
    <3>1. history' = history /\ bytes' = bytes
      BY <2>2 DEF Emit
    <3>2. IsFiniteSet(Range(history)) /\ Range(history) \subseteq 1..m
      BY <1>1, Numbers
    <3>3. SizeOf(history)' = SizeOf(history)
      <4> DEFINE S == Range(history)
      <4>1. \A x \in S : sent[x] \in Int /\ sent'[x] = sent[x]
        BY <1>1, <1>2, <1>3, <3>2
      <4>2. SumFunctionOnSet(sent', S) = SumFunctionOnSet(sent, S)
        <5> HIDE DEF S
        <5> QED BY <4>1, <3>2, SumSame DEF S
      <4>3. QED
        BY <3>1, <4>2 DEF SizeOf
    <3>4. Ordered(history, m + 1)
      BY <1>1 DEF Ordered
    <3>5. QED
      BY <1>1, <3>1, <3>3, <3>4 DEF ReplayWithinBudget
  <2>3. QED
    BY <2>1, <2>2
<1> HIDE DEF size
<1>5. sent' \in Seq(Nat) /\ Len(sent') = m + 1
  BY <1>1, <1>2, <1>3
<1>6. last' \in 0..Len(sent')
  BY <1>1, <1>3, <1>5
<1>7. Types'
  BY <1>3, <1>4, <1>5, <1>6 DEF Types, BusInv
<1>8. Active' = Active
  BY <1>3 DEF Active
<1>9. ASSUME NEW s \in Active PROVE InStep(stream[s], Range(history'), m + 1)
  <2>1. stream[s] \in StreamType /\ InStep(stream[s], Range(history), m)
    BY DEF BusInv, Types, Active
  <2>2. QED
    BY <2>1, <1>1, <1>4, StreamEmit
<1>10. (\A s \in Active : InStep(stream[s], Range(history), Len(sent)))'
  BY <1>3, <1>5, <1>8, <1>9
<1>11. PermitsKnown'
  BY <1>3, <1>8 DEF BusInv, PermitsKnown
<1>12. Ordered(history, Len(sent))'
  BY <1>4, <1>5
<1>13. QED
  BY <1>4, <1>7, <1>10, <1>11, <1>12 DEF BusInv

LEMMA DropBusKeeps ==
  ASSUME BusInv, DropBus
  PROVE  BusInv'
<1>1. UNCHANGED <<sent, last, history, bytes, permits, stream>> /\ open' \in BOOLEAN
  BY DEF DropBus
<1>2. Types' /\ ReplayWithinBudget'
  BY <1>1 DEF BusInv, Types, ReplayWithinBudget, SizeOf
<1>3. Active' = Active
  BY <1>1 DEF Active
<1>4. QED
  BY <1>1, <1>2, <1>3 DEF BusInv, PermitsKnown

-----------------------------------------------------------------------------
\* Every step keeps the invariant.
LEMMA BusStep ==
  ASSUME BusLimits, BusInv, [Next]_vars
  PROVE  BusInv'
<1>1. CASE Next
  <2>1. CASE \E size \in Sizes, terminal \in BOOLEAN : Emit(size, terminal)
    BY <2>1, EmitKeeps
  <2>2. CASE DropBus
    BY <2>2, DropBusKeeps
  <2>3. CASE \E s \in Streams : Connect(s) \/ StreamStep(s) \/ Disconnect(s)
    BY <2>3, ConnectKeeps, ReplayKeeps, ReceiveKeeps, LaggedKeeps, BusClosedKeeps,
       DisconnectKeeps DEF StreamStep
  <2>4. QED
    BY <1>1, <2>1, <2>2, <2>3 DEF Next
<1>2. CASE UNCHANGED vars
  BY <1>2 DEF vars, BusInv, Types, ReplayWithinBudget, SizeOf, Active, PermitsKnown
<1>3. QED
  BY <1>1, <1>2

\* The invariant says what the bus promises.
LEMMA BusPromises ==
  ASSUME BusLimits, BusInv
  PROVE  EventBusSound
<1>1. /\ permits \in Nat /\ MaxSse \in Nat /\ Len(sent) \in Nat
      /\ stream \in [Streams -> StreamType] /\ last \in 0..Len(sent)
  BY DEF BusInv, Types, BusLimits
<1>2. Cardinality(Active) \in Nat /\ permits + Cardinality(Active) = MaxSse
  BY FS_CardinalityType DEF BusInv, PermitsKnown
<1>3. TypeOK
  <2>1. permits \in 0..MaxSse
    BY <1>1, <1>2
  <2>2. \A s \in Streams : stream[s].pc \in {"off", "replay", "live", "closed"}
    BY <1>1 DEF StreamType, Phases
  <2>3. QED
    BY <1>1, <2>1, <2>2 DEF TypeOK
<1>4. NothingLostUncounted
  BY DEF NothingLostUncounted, BusInv, InStep, Active
<1>5. ReplayThenLive
  BY DEF ReplayThenLive, BusInv, InStep, Active
<1>6. PermitsExact
  BY <1>2 DEF PermitsExact, Active
<1>7. QED
  BY <1>3, <1>4, <1>5, <1>6 DEF EventBusSound, BusInv

\* For any streams, capacities and sizes: a stream that subscribes gets the replay and
\* then the live events without a seam, what it skips is counted, the replay keeps both
\* bounds with an exact byte count, and stream permits come back (emit,
\* subscribe_with_replay and the SSE handlers).
THEOREM EventBusHolds ==
  ASSUME BusLimits
  PROVE  Spec => []EventBusSound
<1>1. Init => BusInv
  BY BusStarts
<1>2. BusInv /\ [Next]_vars => BusInv'
  BY BusStep
<1>3. BusInv => EventBusSound
  BY BusPromises
<1>4. QED
  BY <1>1, <1>2, <1>3, PTL DEF Spec
=============================================================================
