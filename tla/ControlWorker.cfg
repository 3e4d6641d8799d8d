SPECIFICATION FairSpec

CONSTANTS
    MaxSequence = 2
    MaxResends = 1
    MaxKills = 1
    MaxOrphans = 1
    Stoppers = {u1, u2}
    Attempts = 2

INVARIANTS
    ControlInv

PROPERTIES
    AnsweredNeverRunsAgain
    JogsEnd
