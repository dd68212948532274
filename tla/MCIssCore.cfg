SPECIFICATION IssSpec
CONSTANTS
    Insns <- MCInsns
    Platforms <- AnyPlatforms
INVARIANT IssInv
PROPERTY LoadUse
PROPERTY FenceOrdered
PROPERTY SleepsIdle
