CONSTANTS
    NumTiles <- MCNumTiles
    Inputs <- MCInputs

SPECIFICATION FairSpec

INVARIANTS
    OwnDataInOrder
    NoTileTwice
    IntactFileDecodes
    NoTilePartLeftBehind

PROPERTY Terminates

CHECK_DEADLOCK FALSE
