CONSTANTS
    Procs = {p1, p2}
    NoProc = NoProc
    Samples <- MCSamples
    MaxItems = 2
    Faults = FALSE

SPECIFICATION Spec

INVARIANT FilterExclusive
