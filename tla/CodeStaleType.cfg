SPECIFICATION Spec
CONSTANTS
    MaxRegs = 6
    SubCodes <- MCSubCodes
    Topics <- MCStale
    Kinds <- MCStaleKinds
INVARIANTS
    FieldsRight
CHECK_DEADLOCK FALSE
