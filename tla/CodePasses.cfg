SPECIFICATION Spec
CONSTANTS
    MaxRegs = 4
    SubCodes <- MCSubCodes
    Topics <- MCTopics
    Kinds <- MCKinds
INVARIANTS
    SizesAgree
    RegistersAgree
    TypesAgree
    FrameAgrees
    CheckedCompiles
PROPERTIES
    CaseArgsInPlace
CHECK_DEADLOCK FALSE
