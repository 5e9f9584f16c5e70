\* A damaged section, and no crash.
SPECIFICATION Spec
CONSTANTS
    MaxSize = 3
    SyncSize = 1
    Execs = {e1}
    NoExec = NoExec
    MaxSections = 3
    MaxRecords = 4
    MaxCrashes = 0
    MaxRot = 1
INVARIANT
    FinalIsRight
CHECK_DEADLOCK FALSE
