SPECIFICATION Spec
CONSTANTS
    DATABLOCK_SIZE = 4
    HeaderSize = 2
    Dentries <- Image
    Names <- AllNames
    Commands <- AllCommands
    Leftovers <- Old
    ArgSizes = {0, 1, 3, 4, 6}
    NumInodes = 8
    MaxFd = 3
    ReadSizes <- Sizes
    SIGN_BIT = 16
INVARIANTS
    TypeOK
    ReadsInOrder
    WholeFileAtEof
    DirectoryListed
    LoadsWholeProgram
    RunsCommandLine
