SPECIFICATION Spec
CONSTANTS
    Procs = {p1, p2}
    Branches = {1, 2}
    Fork = 1
    MaxShards = 2
    MaxSize = 2
    ServerURL = ServerURL
SYMMETRY Symmetry
CONSTRAINT OverlapWithOneShard
INVARIANTS
    TypeOK
    ReportedRootsConsistent
    AlarmMeansFork
