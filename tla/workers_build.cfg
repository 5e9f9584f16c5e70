\* Three processes that build in one slot; the last two wait for the first one.
SPECIFICATION WorkersSpec
CONSTANTS
    A = A
    B = B
    C = C
    Nodes = {A, B, C}
    Deps <- ForkDeps
    Order <- Positions
    Index <- Reversed
    Concurrency = 1
    Reports = {"running", "error", "success", "error-exited", "success-exited"}
    LateCalls = FALSE
    OwnerStops = FALSE
    Timeouts = TRUE
    Mode = "build"
    MaxMessages = 2
INVARIANTS
    NoOrphan
    StartLoadBounded
PROPERTIES
    StartAfterBuilt
    BootSettles
    FailedBuildStops
    ImplementsJobGraph
CHECK_DEADLOCK FALSE
