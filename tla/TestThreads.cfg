CONSTANTS
    Main = Main
    First = First
    Cleanup = Cleanup
    User = {u1, u2}
    NoThread = NoThread
    CreateMayFail = TRUE
SYMMETRY UserSymmetry
SPECIFICATION Spec
INVARIANTS
    TypeOK
    IInv
    CountExact
    CodeAsserts
    UnwindsAlone
    DeviceStackLast
    InlineCleanupUnwinds
    ReportedIsFinal
PROPERTIES
    PhaseChangesAlone
