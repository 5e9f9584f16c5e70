\* The global lifecycle, two containers and two resources in any tree.
SPECIFICATION Spec
CONSTANTS
    Global = g
    Containers = {g, a, b}
    Leaves = {x, y}
    MaxListeners = 1
    MaxCounter = 5
INVARIANTS
    FirstRegisteredLast
    ReleasedOnce
    DisposedIsReleased
PROPERTY
    ShutdownExits
CHECK_DEADLOCK FALSE
