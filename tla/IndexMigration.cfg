SPECIFICATION Spec
CONSTANTS
    k1 = k1
    K1 = K1
    k2 = k2
    Servers = {s1, s2}
    Keys <- MCKeys
    Lower <- MCLower
    IDs = {e1, e2}
    BatchSize = 2
SYMMETRY MCSymmetry
CONSTRAINT FewEntries
INVARIANT NothingLost
