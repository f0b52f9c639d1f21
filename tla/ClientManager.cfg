SPECIFICATION Spec
CONSTANTS
    Threads = {p1, p2}
    t1 = t1
    t2 = t2
    t3 = t3
    c1 = c1
    c2 = c2
    Trees <- MCTrees
    Configs <- MCConfigs
    TreeConfig <- MCTreeConfig
    DefaultConfig = c1
    MaxDials = 4
INVARIANTS
    IndInv
    OneClientPerTree
    SharedConnections
    ClientsUsable
PROPERTY NoClientAfterShutdown
