SPECIFICATION FairSpec
CONSTANTS
    MAX_PROCESSES = 4
    MAX_TERMINALS = 3
PROPERTIES
    Scheduled
    ImplementsShellStacks
