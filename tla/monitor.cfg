SPECIFICATION FairSpec
CONSTANTS
    Digit <- MCDigit
    Upper <- MCUpper
    NUL = "NUL"
    ROW = 4
    ROWS = 2
    LINE = 20
    LEN = 7
    LINEAR = 4
    ENTRY = 5
    FirstEntry = 99
    FifoDepth = 2
    Commands <- MCCommands
    Followers <- MCFollowers
    MaxCommands = 2
    MaxLost = 1
    Lossy = {"R", "S", "!", "other"}
CHECK_DEADLOCK FALSE
INVARIANTS EchoShowsLine CommandsExact FilesLoaded OverrunByLong
PROPERTIES Answers
