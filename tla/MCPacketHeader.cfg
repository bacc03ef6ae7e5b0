CONSTANTS
    Inputs <- MCInputs

SPECIFICATION Spec

INVARIANTS
    InStep
    KnowsBlocks
    GivenToT1
    NoSpuriousError

CHECK_DEADLOCK FALSE
