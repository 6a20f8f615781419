CONSTANTS
    Main = Main
    First = First
    Cleanup = Cleanup
    User = {u1}
    NoThread = NoThread
    CreateMayFail = FALSE
SPECIFICATION FairSpec
PROPERTIES
    ImplementsLifecycle
    TestReturns
