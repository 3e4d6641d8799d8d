SPECIFICATION CameraSpec

CONSTANTS
    MaxStreams = 3
    MaxFrames = 4
    MaxRestarts = 2
    Directions = {1, 2}
    MovedBy = 9
    MaxJogRequests = 3

INVARIANT
    CameraInv

PROPERTY
    NewPairIsShown

CHECK_DEADLOCK FALSE
