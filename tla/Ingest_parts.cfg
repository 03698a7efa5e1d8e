CONSTANTS
    NOrgs = 2
    Sizes <- SmallAndHuge
    MaxRepos = 4
    HasToken = FALSE
    Warm = TRUE
    Tries = 2
    Limit = 24
    MaxFaults = 2
    MaxOthers = 1
    OrgNames <- TwoOrgs
    Listings <- TwoListings
    Tags <- NoneOrThree
    Slug <- SlugOf
    p1 = p1
    p2 = p2
    Paths = {p1, p2}
    Catalogues <- UpToTwoOrTwice
    BodySizes = {2, 3, 4}
    CopyLimits = {0, 2}
    ProxyLimit = 3

SPECIFICATION IngestSpec

INVARIANTS
    TypeOK
    ReserveKept
    PagesAreSound
    DownloadsAreSound

PROPERTY AllEnd

\* the run has ended
CHECK_DEADLOCK FALSE
