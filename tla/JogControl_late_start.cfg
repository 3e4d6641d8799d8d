SPECIFICATION Spec
CONSTANTS
    Threads = {t1, t2}
    Deadman = deadman
    Callers <- AllCallers
    Nobody = nobody
    Pages = {p}
    Axes = {azimuth}
    Speeds = {1}
    Programmed = 9
    NoPage = nopage
    MaxSequence = 2
    MaxOthers = 0
PROPERTY
    LateStartCannotOvertakeRelease
