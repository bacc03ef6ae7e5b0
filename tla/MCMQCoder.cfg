SPECIFICATION Spec
CONSTANTS
    ByteBits = 4
    Spacer = 1
    Table <- MCTable
    Initial <- MCInitial
    Blocks <- MCBlocks
INVARIANTS DecodesBack NoMarker RatesDivide
CHECK_DEADLOCK FALSE
