SPECIFICATION FairSpec

CONSTANTS
    Axes = {azimuth, altitude}
    MaxCommands = 2
    MaxStops = 1
    TimeOuts = {TRUE, FALSE}

INVARIANTS
    ProducersInv

PROPERTIES
    NewestCommandRules
    EveryCallReturns
