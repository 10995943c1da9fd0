------------------------ MODULE MCCrateBufferedOutput ------------------------
(* Instances of CrateBufferedOutput for TLC.                               *)
EXTENDS CrateBufferedOutput, TLC

CONSTANTS r1, r2

=============================================================================
