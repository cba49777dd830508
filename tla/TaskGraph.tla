----------------------------- MODULE TaskGraph ------------------------------
(***************************************************************************)
(* validate_dependency_graph and topological_phases run over one crew:     *)
(* src/src/engine/task.rs.  The work queue of the cycle check is filled by *)
(* iterating a HashMap, so that the order of its first entries is any.     *)
(***************************************************************************)
EXTENDS TaskPhases

CONSTANTS
    Tasks,      \* the tasks of the crew
    Graphs      \* the depends_on lists the crew may have

VARIABLES
    deps,       \* the crew's depends_on lists
    pc,         \* "names", "kahn", "accepted", "rejected"
    degree,     \* in_degree
    queue,      \* the tasks of degree 0 not yet visited
    visited     \* the number of tasks visited

vars == <<deps, pc, degree, queue, visited>>

Init ==
    /\ deps \in Graphs
    /\ pc = "names"
    /\ degree = [t \in Tasks |-> 0]
    /\ queue = <<>>
    /\ visited = 0

Orders(S) == {q \in [1 .. Cardinality(S) -> S] : \A i, j \in DOMAIN q : q[i] = q[j] => i = j}

CheckNames ==
    /\ pc = "names"
    /\ IF Resolves(deps)
       THEN /\ pc' = "kahn"
            /\ degree' = [t \in Tasks |-> Len(deps[t])]
            /\ queue' \in Orders({t \in Tasks : deps[t] = <<>>})
       ELSE pc' = "rejected" /\ UNCHANGED <<degree, queue>>
    /\ UNCHANGED <<deps, visited>>

\* The entries the neighbours of a visited task hold for it, one decrement
\* each; a neighbour is queued by the decrement that reaches zero.
Lowered(n) ==
    [t \in Tasks |-> degree[t] - Cardinality({i \in DOMAIN deps[t] : deps[t][i] = n})]

Visit ==
    /\ pc = "kahn"
    /\ queue # <<>>
    /\ LET lowered == Lowered(Head(queue))
       IN  /\ degree' = lowered
           /\ \E freed \in Orders({t \in Tasks : degree[t] > 0 /\ lowered[t] = 0}) :
                 queue' = Tail(queue) \o freed
    /\ visited' = visited + 1
    /\ UNCHANGED <<deps, pc>>

Decide ==
    /\ pc = "kahn"
    /\ queue = <<>>
    /\ pc' = IF visited = Cardinality(Tasks) THEN "accepted" ELSE "rejected"
    /\ UNCHANGED <<deps, degree, queue, visited>>

Next == CheckNames \/ Visit \/ Decide

Spec == Init /\ [][Next]_vars

-----------------------------------------------------------------------------
TypeOK ==
    /\ deps \in Graphs
    /\ pc \in {"names", "kahn", "accepted", "rejected"}
    /\ degree \in [Tasks -> Nat]
    /\ queue \in Seq(Tasks)
    /\ visited \in 0 .. Cardinality(Tasks)

\* validate_dependency_graph: whatever the order of the work queue, a crew is
\* refused exactly when a dependency names no task or a cycle exists.
RejectsCycles ==
    /\ pc = "accepted" => Resolves(deps) /\ ~Cyclic(deps)
    /\ pc = "rejected" => ~Resolves(deps) \/ Cyclic(deps)

\* topological_phases of an accepted crew: every task is in exactly one phase,
\* the one whose number is the length of its longest chain of dependencies.
PhasesAreLevels ==
    pc = "accepted" =>
        LET phases == topological_phases(deps)
        IN  /\ \A k \in DOMAIN phases : \A t \in phases[k] : Level(deps, t) = k
            /\ UNION {phases[k] : k \in DOMAIN phases} = Tasks
            /\ DOMAIN phases = 1 .. Cardinality(DOMAIN phases)
=============================================================================
