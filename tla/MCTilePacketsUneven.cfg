CONSTANTS
    DecodeInputs <- MCNoInputs
    EncodeInputs <- MCUnevenInputs

SPECIFICATION Spec

PROPERTIES
    ImplementsOrder

CHECK_DEADLOCK FALSE
