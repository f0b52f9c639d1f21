SPECIFICATION FairSpec
CONSTANTS
    k1 = k1
    k2 = k2
    Last = 2
    Keys <- MCKeys
    Lower <- MCLower
    IndexKeys <- MCIndexKeys
    Late = {2}
    Workers = {w1, w2}
    MaxInsertErrors = 1
    MaxOld = 1
    None = None
INVARIANTS
    TypeOK
    BackfillExact
    BudgetEnforced
PROPERTY Terminates
