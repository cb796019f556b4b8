SPECIFICATION FairSpec
CONSTANTS
    Procs = {p1, p2, p3}
    Freqs <- PlainFreqs
    IndexResets = TRUE
INVARIANTS
    TypeOK
    FrequencySet
    NoEarlyReturn
PROPERTY
    ReadReturns
