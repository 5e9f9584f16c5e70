------------------------------ MODULE MCLifecycle ------------------------------
EXTENDS Lifecycle
=============================================================================
