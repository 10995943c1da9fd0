---------------------------- MODULE MCSdfPathNode ----------------------------
(* Instances of SdfPathNode for TLC.                                       *)
EXTENDS SdfPathNode, TLC

CONSTANTS t1, t2, t3, n1, n2, n3, n4, x, y

TwoThreads == {t1, t2}
ThreeThreads == {t1, t2, t3}
FourNodes == {n1, n2, n3, n4}
OneName == {x}
Symmetry == Permutations(Threads) \cup Permutations(Nodes)
              \cup Permutations(Names)

==============================================================================
