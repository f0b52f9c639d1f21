SPECIFICATION Spec
CONSTANTS
    k1 = k1
    k2 = k2
    Last = 2
    Keys <- MCKeys
    Lower <- MCLower
    IndexKeys <- MCIndexKeys
    Late = {}
    Workers = {w1}
    MaxInsertErrors = 1
    MaxOld = 1
    None = None
INVARIANT InterruptLosesNothing
