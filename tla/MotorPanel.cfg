SPECIFICATION MotorPagesSpec

CONSTANTS
    Axes = {"Azimuth"}
    Speeds <- TwoWays
    PadVectors <- OnePad
    MaxVelocity = 1
    Programmed = 9
    MaxRequests = 3
    MaxStrays = 1

INVARIANTS
    MotorInv
    EscapeSecuresTheMount

PROPERTIES
    OnlyHeldAxesAreDriven
    MotionEnds

CHECK_DEADLOCK FALSE
