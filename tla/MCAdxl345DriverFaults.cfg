CONSTANTS
    Procs = {p1, p2}
    NoProc = NoProc
    Samples <- MCSamples
    MaxItems = 2
    Faults = TRUE

SPECIFICATION Spec

SYMMETRY MCSymmetry

INVARIANT RInv

PROPERTY FilesRefined

\* A failed transaction in probe or module load oopses the bus thread; the
\* driver then stays as it is, so a final state is no deadlock of the model.
CHECK_DEADLOCK FALSE
