CONSTANTS
    Getters = {g1}
    Retries = 3
    MaxVersion = 4
    MaxCrashes = 2
    MaxWriteFaults = 2

SPECIFICATION FairCacheSpec

INVARIANTS
    CacheTypeOK
    EntryValid
    AnswersDoNotAge

PROPERTY GetReturns
