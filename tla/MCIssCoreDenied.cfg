SPECIFICATION IssSpec
CONSTANTS
    Insns <- MCInsns
    Platforms <- DenyingPlatforms
INVARIANT NoneLost
