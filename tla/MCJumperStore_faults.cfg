SPECIFICATION Spec
CONSTANTS
    None = None
    j1 = j1
    j2 = j2
    a1 = a1
    a2 = a2
    k1 = k1
    c1 = c1
    c2 = c2
    Jumpers <- MCJumpers
    Atts <- MCAtts
    Creds <- MCCreds
    Contents <- MCContents
    MaxFaults = 2
    MaxRot = 1
SYMMETRY Symmetric
INVARIANTS TypeOK CardsResolve NamedFilesExist SumsMatchXml
PROPERTY JumpersKept
