CONSTANTS
    Strings <- MCStrings
    Magic = "NGIX1"
    Word = 3
    Indexes <- MCIndexes
    Wordly <- MCWordly
    Underscore = 5
    Space <- MCSpace
    NewLine = 1
    Quotes <- MCQuotes
    MaxTerm = 5
    Limit = 2
    Trees <- MCTrees
    Queries <- MCQueries

SPECIFICATION IndexSpec

INVARIANTS
    TypeOK
    LoadedIsBuilt
    RefusalIsRight
    IndexIsComplete
    AnswersAreRight

\* the index has been loaded or refused, the query has been answered
CHECK_DEADLOCK FALSE
