SPECIFICATION Spec
CONSTANTS
    TreeIDs = {1, 2, 3}
    BadTree = 99
    UUIDs = {u1, u2}
    Unset = Unset
    k1 = k1
    k2 = k2
    Keys <- MCKeys
    Configs <- MCConfigs
    Hostname = "rekor"
    MaxInactive = 2
    MaxLength = 2
SYMMETRY Symmetry
INVARIANTS
    IndexIsPosition
    KnownTreesOnly
    HonestAnswersAccepted
    LookupComplete
    IndexedEntryCarriesIndex
