SPECIFICATION Spec
CONSTANTS
    Frac = 1
    Blocks <- MCBlocks
INVARIANTS InStep Reconstructs
CHECK_DEADLOCK FALSE
