\* A download of two bytes, two crashes, two damaged sections; three sections, so
\* that a hole in a complete cache can be filled again.
SPECIFICATION Spec
CONSTANTS
    MaxSize = 2
    SyncSize = 1
    Execs = {e1}
    NoExec = NoExec
    MaxSections = 3
    MaxRecords = 4
    MaxCrashes = 2
    MaxRot = 2
INVARIANTS
    FiledIsKept
    CallsFindTheFile
PROPERTIES
    WrongOnlyIfRefused
    SyncFlushes
    FullCompletes
CHECK_DEADLOCK FALSE
