SPECIFICATION PlicFairSpec
CONSTANTS
    ndev = 4
    Contexts <- MCContexts
    WordBits = 2
    PLIC_PRIO_BITS = 1
    Given <- Apart
    Disciplined = TRUE
INVARIANT LineExact
INVARIANT LevelTriggered
PROPERTY ClaimsHighest
PROPERTY FirstTaken
