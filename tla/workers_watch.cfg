\* Two watchers and an owner that may stop the graph at any time.
SPECIFICATION WorkersSpec
CONSTANTS
    A = A
    B = B
    C = C
    Nodes = {A, B}
    Deps <- PairDeps
    Order <- PairPositions
    Index <- PairReversed
    Concurrency = 2
    Reports = {"running", "error", "success", "error-exited", "success-exited"}
    LateCalls = FALSE
    OwnerStops = TRUE
    Timeouts = TRUE
    Mode = "watch"
    MaxMessages = 3
PROPERTIES
    StopReturns
    QuitStopsGraph
CHECK_DEADLOCK FALSE
