CONSTANTS
    Procs = {p1, p2}
    NoProc = NoProc
    Samples <- MCSamples
    MaxItems = 2
    Faults = FALSE

SPECIFICATION Spec

SYMMETRY MCSymmetry

INVARIANT TypeOK
INVARIANT ReadWithinCapacity
INVARIANT FilterFits
INVARIANT ClientLifetime
INVARIANT StandbyWhenUnused
INVARIANT IInv
