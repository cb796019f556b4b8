SPECIFICATION FairSpec
CONSTANTS
    Trees = {t1, t2}
    MaxDepth = 2
INVARIANTS
    TypeOK
    NoNesting
    FlagMatchesCode
PROPERTY
    Served
