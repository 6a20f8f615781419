SPECIFICATION Spec
CONSTANTS
    Tests <- MCTests
    UserObjects <- MCUserObjects
    CmdPoolOf <- MCCmdPoolOf
INVARIANTS
    TypeOK
    ParentsOutlive
    AllDestroyed
    QueueFits
    EveryFamilyReached
PROPERTIES
    IdleAtTeardown
    StacksUnwind
