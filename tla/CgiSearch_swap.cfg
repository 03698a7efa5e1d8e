CONSTANTS
    Gens <- MCGens
    Queries = {q1}
    DocsOf <- MCDocsOf
    Dotted <- MCDotted
    Limit = 2

SPECIFICATION Spec

INVARIANTS
    TypeOK
    AnswersFromOneIndex
    QuotesFollowIndex
