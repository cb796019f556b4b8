SPECIFICATION Spec
CONSTANTS
    NTerms = 2
    NUM_COLS = 2
    NUM_ROWS = 2
    BUFFER_SIZE = 4
    SHELL_OFFSET = 1
    Texts <- SmallTexts
    MaxOps = 6
INVARIANTS
    TypeOK
    DrawsOnScreen
    HiddenLikeDisplayed
PROPERTY
    OthersUntouched
