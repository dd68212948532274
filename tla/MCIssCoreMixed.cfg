SPECIFICATION IssSpec
CONSTANTS
    Insns <- MCInsns
    Platforms <- MixedPlatforms
INVARIANT HeldExact
