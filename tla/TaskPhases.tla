----------------------------- MODULE TaskPhases -----------------------------
(***************************************************************************)
(* The dependency graph of a crew: src/src/engine/task.rs.  deps[t] is the *)
(* depends_on list of task t, a sequence that may name a task twice or     *)
(* name something that is no task of the crew.                             *)
(***************************************************************************)
EXTENDS Naturals, Sequences, FiniteSets

Deps(deps, t) == {deps[t][i] : i \in DOMAIN deps[t]}

\* A dangling name is refused before any degree is computed.
Resolves(deps) == \A t \in DOMAIN deps : Deps(deps, t) \subseteq DOMAIN deps

\* in_degree of t once the tasks in gone were removed: an edge per entry of
\* the list, so that a name listed twice is counted and decremented twice.
InDegree(deps, t, gone) ==
    Cardinality({i \in DOMAIN deps[t] : deps[t][i] \notin gone})

Ready(deps, gone) == {t \in DOMAIN deps \ gone : InDegree(deps, t, gone) = 0}

\* What the first k rounds of the loop have removed.
GoneAfter(deps) ==
    LET gone[k \in 0 .. Cardinality(DOMAIN deps)] ==
            IF k = 0 THEN {} ELSE gone[k - 1] \cup Ready(deps, gone[k - 1])
    IN  gone

\* The loop ends with the first round that finds nothing ready.
topological_phases(deps) ==
    LET gone == GoneAfter(deps)
        rounds == {k \in 1 .. Cardinality(DOMAIN deps) : gone[k] # gone[k - 1]}
    IN  [k \in rounds |-> gone[k] \ gone[k - 1]]

(***************************************************************************)
(* The reference: a path in the graph, and the number of tasks on the      *)
(* longest one that ends in t.                                             *)
(***************************************************************************)
Path(deps, p) ==
    /\ p # <<>>
    /\ \A i \in 1 .. Len(p) - 1 : p[i] \in Deps(deps, p[i + 1])

Paths(deps) ==
    LET n == Cardinality(DOMAIN deps)
    IN  {p \in UNION {[1 .. k -> DOMAIN deps] : k \in 1 .. n + 1} :
            Path(deps, p)}

\* A path longer than the crew visits a task twice.
Cyclic(deps) ==
    \E p \in Paths(deps) : Len(p) > Cardinality(DOMAIN deps)

Level(deps, t) ==
    CHOOSE k \in 1 .. Cardinality(DOMAIN deps) :
        /\ \E p \in Paths(deps) : Len(p) = k /\ p[k] = t
        /\ \A p \in Paths(deps) : p[Len(p)] = t => Len(p) <= k
=============================================================================
