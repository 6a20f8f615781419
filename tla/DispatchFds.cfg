CONSTANTS
    Slot = {1, 2, 3}
    MaxForks = 7
SPECIFICATION Spec
INVARIANTS
    NoLeak
    DeathIsNoticed
    ResultEventsAreOwn
CHECK_DEADLOCK FALSE
