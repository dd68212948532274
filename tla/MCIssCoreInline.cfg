SPECIFICATION IssSpec
CONSTANTS
    Insns <- MCInsns
    Platforms <- InlinePlatforms
INVARIANT BothBeats
