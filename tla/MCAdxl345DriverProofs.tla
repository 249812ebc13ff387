----------------------- MODULE MCAdxl345DriverProofs -----------------------
(* Checks the inductive invariant of the proofs on the small instance.    *)
EXTENDS Adxl345DriverRefinement, TLC

\* Raw readings: at rest, a jitter of 10 LSB on X (filtered out against
\* rest), and both ends of the 13-bit range on Z (kept against anything).
MCRaw ==
    { [a \in Axes |-> 0],
      [a \in Axes |-> IF a = "x" THEN 10 ELSE 0],
      [a \in Axes |-> IF a = "z" THEN 4095 ELSE 0],
      [a \in Axes |-> IF a = "z" THEN -4096 ELSE 0] }

\* The samples read_data returns for them: the device's byte layout,
\* decoded the way read_data decodes it.
MCSamples == { [a \in Axes |-> DecodeAxis(LowByte(r[a]), HighByte(r[a]))] : r \in MCRaw }

MCSymmetry == Permutations(Procs)

=============================================================================
