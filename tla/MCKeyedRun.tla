----------------------------- MODULE MCKeyedRun -----------------------------
\* Small instances of KeyedRun for TLC.
EXTENDS KeyedRun, TLC

CONSTANTS i1, i2, k1, p1, a1, a2

\* Two replicas receive one request each for the same key.
TwoReplicas == a1 :> [key |-> k1, ident |-> p1, inst |-> i1] @@
               a2 :> [key |-> k1, ident |-> p1, inst |-> i2]
=============================================================================
