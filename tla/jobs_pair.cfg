\* B needs A; jobs set every state, the owner stops, and stop() may time out.
SPECIFICATION Spec
CONSTANTS
    A = A
    B = B
    Nodes = {A, B}
    Deps <- PairDeps
    Order <- PairPositions
    Index <- PairReversed
    Concurrency = 2
    Reports = {"running", "error", "success", "error-exited", "success-exited"}
    LateCalls = FALSE
    OwnerStops = TRUE
    Timeouts = TRUE
INVARIANTS
    StartedInOrder
    WorkingIsTracked
    RejectedAfterJoin
    StoppedMeansStopped
PROPERTIES
    NoStartAfterStop
    FailureStopsGraph
CHECK_DEADLOCK FALSE
