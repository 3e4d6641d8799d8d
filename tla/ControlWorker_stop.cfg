SPECIFICATION Spec
CONSTANTS
    MaxSequence = 2
    MaxResends = 0
    MaxKills = 0
    MaxOrphans = 1
    Stoppers = {u}
    Attempts = 1
PROPERTY
    StopInvalidatesGoto
