SPECIFICATION FairSpec
CONSTANTS
    MAX_TERMINALS = 2
    MAX_BUFFER_SIZE = 7
    SizeLimit = 7
INVARIANTS
    KTypeOK
    StartsEmpty
PROPERTY AckedReadReturns
