SPECIFICATION DSpec
CONSTANTS
    MAX_PROCESSES = 3
    MAX_TERMINALS = 2
    Watched = {"draw"}
INVARIANT DrawsStayHome
