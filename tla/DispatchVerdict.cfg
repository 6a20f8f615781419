CONSTANTS
    Def = {1, 2, 3, 4}
    SkipDef = {4}
    QueuePref <- ThirdOnQueue7
    NumQueues = 1
    UintModulus = 16
    Slot = {1, 2}
    Requests <- ForkOrNot
    CrashIn = {}
    MaxInterrupts = 0
SPECIFICATION Spec
INVARIANTS
    EveryTestReported
PROPERTIES
    TimeoutIsIndividual
