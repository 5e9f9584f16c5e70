\* A queue that is never locked, truthy tasks only.
SPECIFICATION Spec
CONSTANTS
    Tasks = {t1, t2, t3}
    Falsy = {}
    None = None
    Execs = {e1, e2, e3}
    Lockable = FALSE
INVARIANT
    BusyMeansWork
PROPERTIES
    DisposeReturns
    ImplementsMailbox
CHECK_DEADLOCK FALSE
