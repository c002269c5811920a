SPECIFICATION FairSpec
CONSTANTS
    Idents = {a}
    Modes = {TRUE, FALSE}
    MaxBytes = 2
    MaxEpochs = 2
    MaxFaults = 2
    EmptyModes = {FALSE}
    MaxCrashes = 1
    RestartsOverlap = FALSE
CHECK_DEADLOCK FALSE
INVARIANTS NeverChargedTwice BaselineIsSettled
PROPERTIES TrafficIsCharged
