CONSTANTS
    NumDefs = 4
    SkipPrefixes = {"bench.", "self."}
    PrefixOf <- FourthIsBench
    NumProcessors = 3
    NumSlots = 2
    NumQueues = 2
    UintModulus = 4
    CommandLines <- MCCommandLines
SPECIFICATION Spec
INVARIANTS
    TypeOK
    SelectedAsDocumented
    QueuesAsDocumented
    SpecialOnlyAskedFor
    OptionsInForce
