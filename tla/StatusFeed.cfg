SPECIFICATION FeedPagesSpec

CONSTANTS
    Window = 1
    Reports = {"disarmed"}
    MaxSockets = 2
    MaxSamples = 3
    MaxBoots = 2
    MaxOutages = 1

INVARIANTS
    FeedInv
    DriveLogInv

PROPERTIES
    
    FeedRecovers

CHECK_DEADLOCK FALSE
