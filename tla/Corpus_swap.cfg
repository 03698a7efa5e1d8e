CONSTANTS
    Gens <- TwoGens
    Queries = {q1, q2}
    NoQuery = NoQuery
    NFiles = 2
    Unreliable = {1}

SPECIFICATION FairSpec

INVARIANTS
    TypeOK
    CacheCoherent
    AnswersAreSound

PROPERTY QueriesAnswered
