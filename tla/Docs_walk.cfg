CONSTANTS
    NListed = 5
    RstFiles <- MCRstFiles
    Extras <- MCExtras
    Entry = 2
    Toctrees <- MCToctrees
    Includes <- MCIncludes
    Defines <- MCDefines
    Uses <- MCUses
    Workers = {w1, w2}
    MaxDocs = 3
    Texts <- MCTexts
    Words <- MCWords
    Included <- MCSources
    StartLines <- MCStartLines
    PageWidth = 12
    LeastWidth = 4
    IncludeDepth = 3
    NestDepth = 3

SPECIFICATION IngestSpec

INVARIANTS
    TypeOK
    FetchedSparingly
    OrderIsAWalk
    PagesHangTogether
    ProseIsKept
    NestingIsSafe

PROPERTY AllEnds

\* the run or the conversion has ended
CHECK_DEADLOCK FALSE
