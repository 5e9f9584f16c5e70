-------------------------- MODULE MCLossyAsyncQueue --------------------------
EXTENDS LossyAsyncQueue, TLC

\* Coroutine identities are interchangeable.
ExecSymmetry == Permutations(Execs)
=============================================================================
