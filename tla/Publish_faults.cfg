CONSTANTS
    Runs <- ThreeRuns
    NParts = 3
    MaxFaults = 4
    Overlap = FALSE

SPECIFICATION FairSpec

INVARIANTS
    TypeOK
    ReadersAreServed
    SiblingsInOrder
    GoodCopySurvives

PROPERTIES
    RefinesMirror
    Recovers

\* every run has ended: the system is at rest
CHECK_DEADLOCK FALSE
