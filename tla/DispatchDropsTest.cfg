CONSTANTS
    Def = {1, 2}
    SkipDef = {}
    QueuePref <- AllQueues
    NumQueues = 1
    UintModulus = 16
    Slot = {1, 2}
    Requests <- Processes
    CrashIn = {}
    MaxInterrupts = 1
SPECIFICATION Spec
INVARIANTS
    EveryTestReported
