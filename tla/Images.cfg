SPECIFICATION Spec
CONSTANTS
    Image <- MCImage
    TypeOf <- MCTypes
    FormatOf <- MCFormats
    MaxRefs <- MCMaxRefs
INVARIANTS
    MapsReturned
    NoLeak
    CopyTells
    CompareHonest
