SPECIFICATION IssFairSpec
CONSTANTS
    Insns <- MCInsns
    Platforms <- LatePlatforms
PROPERTY Retires
