CONSTANTS
    Procs = {p1, p2}
    NoProc = NoProc
    Samples <- MCSamplesSmall
    MaxItems = 1
    Faults = FALSE

SPECIFICATION FairSpec

PROPERTY ReadReturns
