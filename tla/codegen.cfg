\* Two edits of any files while two passes overlap, and every fault.
SPECIFICATION Spec
CONSTANTS
    MaxEdits = 2
    MaxPasses = 2
    MaxSessions = 3
    Faults = {"generate", "timeout", "crash"}
PROPERTIES
    AnsweredByLaterRun
    ChangeReachesRun
    PassEnds
CHECK_DEADLOCK FALSE
