\* The owner locks and unlocks, and one task is falsy.
SPECIFICATION Spec
CONSTANTS
    Tasks = {t1, t2}
    Falsy = {t1}
    None = None
    Execs = {e1, e2, e3}
    Lockable = TRUE
SYMMETRY ExecSymmetry
INVARIANTS
    OneCallAtATime
    PromiseCoversWork
    DisposedMeansQuiet
PROPERTIES
    NoStartAfterDispose
CHECK_DEADLOCK FALSE
