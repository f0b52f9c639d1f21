SPECIFICATION Spec
CONSTANTS
    Servers = {s1, s2}
    Requests = {r1}
    Leaves = {a, b}
    MaxShards = 2
    None = None
SYMMETRY Symmetry
CONSTRAINT RotationBound
INVARIANTS
    TypeOK
    VirtualIndexUnique
    SetStable
    SignedIndexResolves
    EntriesVerify
    IndInv
PROPERTY VirtualLogSpec
