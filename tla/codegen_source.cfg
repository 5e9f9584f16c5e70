\* Two edits, and no fault.
SPECIFICATION Spec
CONSTANTS
    MaxEdits = 2
    MaxPasses = 2
    MaxSessions = 3
    Faults = {}
PROPERTY
    RunsReportedSource
CHECK_DEADLOCK FALSE
