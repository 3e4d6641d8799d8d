SPECIFICATION FairSpec

CONSTANTS
    MaxRevision = 3
    Invalid = {2}
    MaxCrashes = 1

INVARIANTS
    ConfigurationInv
    RecordedAckWasReceived

PROPERTIES
    ActiveNeverRegresses
    StableRevisionIsAcknowledged
