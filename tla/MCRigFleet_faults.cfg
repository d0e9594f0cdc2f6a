CONSTANTS
    r1 = r1  r2 = r2  n1 = n1  n2 = n2
    m1 = m1  m2 = m2  c1 = c1  c2 = c2
    RigIds = {r1, r2}
    Nicknames = {n1, n2}
    Registry <- MCRegistry
    KindOf <- MCParts
    None = None
    MaxFaults = 1
SPECIFICATION Spec
SYMMETRY Symmetric
INVARIANTS RefsAgree OneStaleManifestPerStop
PROPERTIES TwoStarsOnlyWhileDeleting SetStarRepairs DeleteKeepsAStar ReorderRepairs ReconcileAgrees RequestsKeepRigsActive
