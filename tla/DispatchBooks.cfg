CONSTANTS
    Def = {1, 2, 3}
    SkipDef = {1}
    QueuePref <- SecondOnQueue1
    NumQueues = 2
    UintModulus = 16
    Slot = {1, 2}
    Requests <- BothIsolations
    CrashIn <- AnyState
    MaxInterrupts = 2
SPECIFICATION FairSpec
INVARIANTS
    TypeOK
    BooksBalance
    NoDoubleVerdict
    ProcessIsolation
    AnsweredNamesRan
    
PROPERTIES
    AnswersAreReported
    TestRunEnds
