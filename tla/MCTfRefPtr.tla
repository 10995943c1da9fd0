----------------------------- MODULE MCTfRefPtr -----------------------------
(* Instances of TfRefPtr for TLC.                                          *)
EXTENDS TfRefPtr, TLC

CONSTANTS p1, p2, p3, owner

(* All pointers but the Python object's are alike.                         *)
Alike == Permutations({p1, p2, p3})

(* What becomes of the object once its count is wrong is left alone.       *)
UntilAstray == ~astray

=============================================================================
