CONSTANTS
    SelectorPrefixes <- MCPrefixes
    Conns = {c1, c2}
    MaxConns = 1
    MaxConcurrent = 1
    MaxBytes = 2

SPECIFICATION ReaderSpec

INVARIANT SelectorsCarryPrefix
