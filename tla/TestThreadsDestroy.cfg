CONSTANTS
    Main = Main
    First = First
    Cleanup = Cleanup
    User = {u1}
    NoThread = NoThread
    CreateMayFail = FALSE
SPECIFICATION Spec
INVARIANT DestroyAfterExit
