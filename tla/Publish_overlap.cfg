CONSTANTS
    Runs <- ThreeRuns
    NParts = 3
    MaxFaults = 0
    Overlap = TRUE

SPECIFICATION Spec

INVARIANT MirrorIsWhole

CHECK_DEADLOCK FALSE
