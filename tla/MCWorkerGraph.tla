---------------------------- MODULE MCWorkerGraph ----------------------------
EXTENDS WorkerGraph, TLC

CONSTANTS A, B, C

\* dependenciesOf(n, true): B and C need A; B needs A.
ForkDeps == (A :> {}) @@ (B :> {A}) @@ (C :> {A})
PairDeps == (A :> {}) @@ (B :> {A})

Positions == (A :> 1) @@ (B :> 2) @@ (C :> 3)
Reversed == (A :> 3) @@ (B :> 2) @@ (C :> 1)
PairPositions == (A :> 1) @@ (B :> 2)
PairReversed == (A :> 2) @@ (B :> 1)
=============================================================================
