------------------------- MODULE MCUsdInstanceCache -------------------------
(* Instances of UsdInstanceCache for TLC.                                  *)
EXTENDS UsdInstanceCache

CONSTANTS S, G, K, L, V

Child(k1, k2, k3) == <<k1, k2, k3>>
No == <<Absent, Absent, Absent>>

Three == 1 .. 3

(* /1/1/2/1 is a prim of an L in a K in a G.                               *)
SmallPaths ==
    {<<>>} \cup {<<i>> : i \in 1 .. 3} \cup {<<i, j>> : i \in 1 .. 3, j \in 1 .. 2}
        \cup {<<i, j, k>> : i \in 1 .. 3, j \in 1 .. 2, k \in 1 .. 2}
        \cup {<<1, 1, j, 1>> : j \in 1 .. 2}

(* The stage has up to three prims: groups, and instances of K and L; K    *)
(* may bring instances of L.                                               *)
SmallContents ==
    (S :> {Child(x, y, z) : x \in {G, K, L, Absent}, y \in {K, L, Absent}, z \in {K, Absent}})
        @@ (G :> {Child(K, Absent, Absent), Child(L, Absent, Absent)})
        @@ (K :> {No, Child(V, Absent, Absent), Child(L, L, Absent), Child(Absent, L, Absent)})
        @@ (L :> {No, Child(V, Absent, Absent)})
        @@ (V :> {No})

SmallStart ==
    {(S :> Child(x, K, K)) @@ (G :> Child(K, Absent, Absent)) @@ (K :> Child(L, L, Absent))
         @@ (L :> Child(V, Absent, Absent)) @@ (V :> No) : x \in {G, K, L}}
=============================================================================
