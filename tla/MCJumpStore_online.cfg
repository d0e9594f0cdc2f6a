SPECIFICATION Spec
CONSTANTS
    None = None
    i1 = i1
    i2 = i2
    f1 = f1
    c1 = c1
    c2 = c2
    Ids <- MCOneId
    Nums <- MCNums
    Titles <- MCOneTitle
    Files <- MCFiles
    Contents <- MCContents
    MaxFaults = 1
    OnlineReindex = TRUE
SYMMETRY Symmetry
INVARIANTS ClaimsBacked OneHome
