SPECIFICATION Spec
CONSTANTS
    w1 = w1  w2 = w2  d1 = d1  d2 = d2
    i1 = i1  i2 = i2  i3 = i3  i4 = i4
    None = None
    Writers = {w1, w2}
    Docs = {d1, d2}
    Inodes = {i1, i2, i3, i4}
    Locked = TRUE
INVARIANTS NeverTorn AckedSurvives
PROPERTY Implements
