SPECIFICATION IssFairSpec
CONSTANTS
    Insns <- MCInsns
    Platforms <- MemoryPlatforms
PROPERTY Retires
