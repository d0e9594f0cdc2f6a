SPECIFICATION Spec
CONSTANTS
    None = None
    d1 = d1
    d2 = d2
    d3 = d3
    p1 = p1
    r1 = r1
    r2 = r2
    Dropzones <- MCDropzones
    People <- MCPeople
    Revs <- MCRevs
    MaxFaults = 2
SYMMETRY Symmetric
INVARIANTS RowsFollowFiles OneStar
PROPERTIES SetStarHeals DeleteKeepsAStar
