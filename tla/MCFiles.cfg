\* Six files in an image of blocks of three bytes, two free descriptors.
SPECIFICATION FSpec
CONSTANTS
    BLOCK_SIZE = 3
    num_inodes = 3
    num_data_blocks = 6
    file_length <- MCLength
    data_blocks <- MCBlocks
    MAX_OPEN_FILES = 4
    dentries <- MCDentries
    Programs = {0}
    LOAD_SIZE = 2
    Commands <- MCCommands
    Names <- MCNames
    Lengths = {1, 3, 9}
    FILENAME_SIZE = 2
    ARGS_LENGTH = 3
INVARIANTS
    FTypeOK
    ReadCorrect
    FailsOnlyIfDamaged
    ReadsContinue
    InUseHasOps
    LoadsWholeFile
    ArgsDelivered
