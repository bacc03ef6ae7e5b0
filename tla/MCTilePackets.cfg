CONSTANTS
    DecodeInputs <- MCDecodeInputs
    EncodeInputs <- MCEncodeInputs

SPECIFICATION FairSpec

INVARIANTS
    NeverGivesUp
    DividedByFlag

PROPERTIES
    ImplementsOrder
    Terminates

CHECK_DEADLOCK FALSE
