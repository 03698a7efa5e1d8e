CONSTANTS
    Gens <- TwoGens
    Queries = {q1, q2}
    NoQuery = NoQuery
    NFiles = 2
    Unreliable = {}

SPECIFICATION Spec

INVARIANT RollbackIsNoticed
