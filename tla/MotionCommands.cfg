SPECIFICATION FairSpec

CONSTANTS
    Callers = {c1, c2, c3}
    Worker = worker
    Nobody = nobody
    CloseMark = close
    MaxSequence = 4

INVARIANTS
    OneControllerCall
    NoStaleCommand
    ManagerInv

PROPERTIES
    ImplementsArbiter
    CallersReturn
