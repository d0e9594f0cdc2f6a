SPECIFICATION FairSpec
CONSTANTS
    old = old  new = new  late = late
    j1 = j1  j2 = j2  j3 = j3
    None = None
    Procs = {old, new, late}
    Desktop = {}
    BuildOf <- MCBuildOf
    Jumps = {j1, j2, j3}
    NumberOf <- MCNumberOf
    HandEdits = TRUE
    MaxFaults = 2
INVARIANTS OneInstance ServerSeesItsSchema
PROPERTIES NewerIndexKept RebuildIsComplete BootEnds
