--------------------------- MODULE MCUsdStageCache ---------------------------
(* Instances of UsdStageCache for TLC.                                     *)
EXTENDS UsdStageCache

CONSTANTS o1, o2, o3, A, B, s1, f

ReadWrite(c) == [kind |-> "readWrite", cache |-> c]
ReadOnly(c) == [kind |-> "readOnly", cache |-> c]
BlockPopulation == [kind |-> "blockPopulation"]

(* o1 goes through both caches, o2 through A alone, and o3 through A, with *)
(* B behind a context that blocks population.                              *)
Crossed ==
    [o \in Opens |->
        CASE o = o1 -> <<ReadWrite(A), ReadWrite(B)>>
          [] o = o2 -> <<ReadWrite(A)>>
          [] o = o3 -> <<ReadWrite(A), BlockPopulation, ReadOnly(B)>>]

(* Two threads with the same contexts.                                     *)
SameCaches == [o \in Opens |-> <<ReadWrite(A), ReadWrite(B)>>]

(* o1 and o2 ask for the session layer s1, o3 for any.                     *)
Mixed == [o \in Opens |-> IF o = o3 THEN AnySession ELSE s1]
Same == [o \in Opens |-> s1]
ForeignOfS1 == [x \in Foreign |-> s1]

=============================================================================
