SPECIFICATION PlicSpec
CONSTANTS
    ndev = 4
    Contexts <- MCContexts
    WordBits = 2
    PLIC_PRIO_BITS = 1
    Given <- Shared
    Disciplined = TRUE
INVARIANT LevelTriggered
