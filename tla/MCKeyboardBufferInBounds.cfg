SPECIFICATION Spec
CONSTANTS
    MAX_TERMINALS = 2
    MAX_BUFFER_SIZE = 7
    SizeLimit = 8
INVARIANT BufferInBounds
