SPECIFICATION FairSpec

CONSTANTS
    Threads = {t1, t2}
    Deadman = deadman
    Callers <- AllCallers
    Nobody = nobody
    Pages = {p, q}
    Axes = {azimuth}
    Speeds = {1, 2}
    Programmed = 9
    NoPage = nopage
    MaxSequence = 2
    MaxOthers = 1

INVARIANTS
    LeaseInv
    StoppedAxesStandStill

PROPERTIES
    LeaseNeverStolen
    DeadmanLetsGo
