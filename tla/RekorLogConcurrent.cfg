SPECIFICATION FairSpec
CONSTANTS
    Servers = {s1}
    Requests = {r1, r2}
    Leaves = {a, b}
    MaxShards = 1
    None = None
INVARIANTS
    NamedEntriesExist
    IndexSound
PROPERTY RequestsReturn
