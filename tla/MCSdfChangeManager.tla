------------------------- MODULE MCSdfChangeManager -------------------------
(* Instances of SdfChangeManager for TLC.                                  *)
EXTENDS SdfChangeManager

CONSTANTS g, s, l1, l2, bare, x, none

A == << "A" >>
B == << "B" >>
AC == << "A", "C" >>
BC == << "B", "C" >>

Tree == {A, B, AC, BC}
Roots == {A, B}

(* A layer with a prim, and a child in it, at first.                       *)
Holding(a, ac) == [p \in Tree |->
  CASE p = A -> a [] p = AC -> ac [] OTHER -> none]

Starts == {[l \in {l1, l2} |-> IF l = l1 THEN c ELSE Holding(x, none)] :
             c \in {Holding(bare, bare), Holding(bare, x)}}

(* A second layer for shorter runs.                                        *)
Few == [L \in {{l1}, {l1, l2}} |-> IF L = {l1} THEN 4 ELSE 3]

(* The second layer has room for one prim only.                            *)
Uneven == [l \in {l1, l2} |-> IF l = l1 THEN Tree ELSE {A}]
=============================================================================
