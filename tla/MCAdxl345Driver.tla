-------------------------- MODULE MCAdxl345Driver --------------------------
(* Small instance of Adxl345Driver for TLC.                                *)
EXTENDS Adxl345Driver, TLC

\* At rest, a jitter of 40 on X (filtered out against rest), a jolt of 100
\* on Z (kept against either).
MCSamples ==
    { [a \in Axes |-> 0],
      [a \in Axes |-> IF a = "x" THEN 40 ELSE 0],
      [a \in Axes |-> IF a = "z" THEN 100 ELSE 0] }

\* For the liveness run: at rest and the jolt only (a repeated sample is
\* still discarded by the filter).
MCSamplesSmall ==
    { [a \in Axes |-> 0],
      [a \in Axes |-> IF a = "z" THEN 100 ELSE 0] }

\* Tasks are interchangeable in the safety runs.
MCSymmetry == Permutations(Procs)

=============================================================================
