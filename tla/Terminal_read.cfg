SPECIFICATION FairSpec
CONSTANTS
    Terms = {t0, t1}
    Readers = {t0}
    BUFFER_SIZE = 4
    ReadSizes <- Sizes
INVARIANTS
    TypeOK
    ReadReturnsLine
    NoStaleLine
PROPERTY
    LineDelivered
