SPECIFICATION Spec
CONSTANTS
    Procs = {p1, p2}
    Freqs <- PlainFreqs
    IndexResets = FALSE
INVARIANT
    FrequencySet
