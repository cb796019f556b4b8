SPECIFICATION Spec
CONSTANTS
    Terms = {t0, t1}
    Readers = {t0}
    BUFFER_SIZE = 4
    ReadSizes <- Sizes
INVARIANT
    ReadsOwnTerminal
