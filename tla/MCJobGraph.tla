------------------------------ MODULE MCJobGraph ------------------------------
EXTENDS JobGraph, TLC

CONSTANTS A, B

\* dependenciesOf(n, true): B needs A.
PairDeps == (A :> {}) @@ (B :> {A})

\* The order in which a builder was filled need not be the order to start in.
PairPositions == (A :> 1) @@ (B :> 2)
PairReversed == (A :> 2) @@ (B :> 1)
=============================================================================
