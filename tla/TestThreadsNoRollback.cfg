CONSTANTS
    Main = Main
    First = First
    Cleanup = Cleanup
    User = {u1}
    NoThread = NoThread
    CreateMayFail = TRUE
SPECIFICATION Spec
INVARIANT FailureRolledBack
