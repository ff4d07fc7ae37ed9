SPECIFICATION DSpec
CONSTANTS
    MAX_PROCESSES = 3
    MAX_TERMINALS = 3
    Watched = {"write"}
INVARIANTS
    DTypeOK
    
    
    UserPageHasOwner
