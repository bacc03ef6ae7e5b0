CONSTANTS
    Width = 3
    MaxBits = 9
    Rooms <- MCRooms

SPECIFICATION Spec

INVARIANTS
    NoMarker
    NoSilentLoss
    ReadsBack
    Aligned

CHECK_DEADLOCK FALSE
