SPECIFICATION Spec
CONSTANTS
    c1 = c1
    c2 = c2
    c3 = c3
    Conns <- ThreeConns
    MaxConns = 2
    MaxConcurrent = 1
    MaxBytes = 2
SYMMETRY ConnSymmetry
INVARIANTS TypeOK OneReply
PROPERTIES PlacesArePooled ShedOnlyWhenFull
