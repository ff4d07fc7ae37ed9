SPECIFICATION Spec
CONSTANTS
    MAX_PROCESSES = 5
    MAX_TERMINALS = 3
INVARIANTS
    TypeOK
    TablesAgree
    ParentChain
    CpuRunsTop
    SavedContexts
    ActiveHasProc
    NoStaleException
PROPERTIES
    TerminalsNeverDie
    TurnComesNearer
