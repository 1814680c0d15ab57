CONSTANTS
    Delays <- NodeDelays
    MaxDelay = 8
    CallLimit = 6
SPECIFICATION Spec
INVARIANTS
    TypeOK
    StartsInTime
    EndsInTime
    SleepsAsListed
