SPECIFICATION WalkSpec
CONSTANTS
    None = None
    i1 = i1
    i2 = i2
    f1 = f1
    c1 = c1
    c2 = c2
    Ids <- MCIds
    Nums <- MCNums
    Titles <- MCTitles
    Files <- MCFiles
    Contents <- MCContents
    MaxFaults = 1
    OnlineReindex = FALSE
    MaxRaces = 3
SYMMETRY Symmetry
INVARIANTS CalmReportIsExact LastingIssuesReported
