SPECIFICATION Spec
CONSTANTS
    r1 = r1  r2 = r2  r3 = r3
    k1 = k1  k2 = k2  h1 = h1  h2 = h2
    None = None
    Reqs = {r1, r2, r3}
    Keys = {k1, k2}
    Hashes = {h1, h2}
    TTL = 2
    MaxNow = 3
    MaxFaults = 1
SYMMETRY Symmetry
CHECK_DEADLOCK FALSE
INVARIANT ReplaysOwnAnswer
PROPERTIES LiveRowsStay RetryIsReplayed
