SPECIFICATION IssSpec
CONSTANTS
    Insns <- MCInsns
    Platforms <- AsleepPlatforms
INVARIANT AsleepIdle
