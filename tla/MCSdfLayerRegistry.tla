------------------------- MODULE MCSdfLayerRegistry -------------------------
(* Instances of SdfLayerRegistry for TLC.                                  *)
EXTENDS SdfLayerRegistry, TLC

CONSTANTS t1, t2, t3, l1, l2, l3, a, b, p1, p2, p3

Symmetry == Permutations(Threads) \cup Permutations(LayerObjects)

(* Bounds of what is explored: the asset of a moves once, and not after two *)
(* threads renamed a layer at once; such a layer is not renamed again, and *)
(* a is still where it was.                                                *)
MovesOnce == resolve' # resolve => resolve[a] = p1 /\ clashed = {}
ClashesOnce ==
    clashed # {} =>
        /\ resolve[a] = p1
        /\ \A t \in Threads : pc[t] \in {"lockRead", "rename"} => call[t].self \notin clashed

TwoThreads == {t1, t2}
ThreeThreads == {t1, t2, t3}
TwoLayers == {l1, l2}
ThreeLayers == {l1, l2, l3}
OneId == {a}
TwoIds == {a, b}
OnePath == {p1}
TwoPaths == {p1, p2}
ThreePaths == {p1, p2, p3}

(* Where a new layer goes: a and b name two assets.                        *)
FixedNew == [id \in {a, b} |-> IF id = a THEN p1 ELSE p2]

(* a and b name the same asset.                                            *)
Shared == {[id \in {a, b} |-> p1]}
SharedNew == [id \in {a, b} |-> p1]

(* b is the repository path of a.                                          *)
OwnRepo == [id \in {a, b} |-> IF id = a THEN b ELSE None]

(* a moves between its own path and that of b; b stays.                    *)
Moving == {[id \in {a, b} |-> IF id = a THEN p ELSE p2] :
              p \in {p1, p2}}

(* a moves between three places; b stays.                                 *)
WanderingBoth == {[id \in {a, b} |-> IF id = a THEN p ELSE p2] :
                     p \in {p1, p2, p3}}

OneAsset == {[id \in {a} |-> p1]}
OneNew == [id \in {a} |-> p1]
OneNoRepo == [id \in {a} |-> None]
NoRepo == [id \in {a, b} |-> None]

FindOrOpenOnly == {"FindOrOpen"}
Renames == {"FindOrOpen", "SetIdentifier"}
Updates == {"FindOrOpen", "UpdateAssetInfo"}
Reads == {"ok", "fail"}
ReadsAndThrows == {"ok", "fail", "throw"}

=============================================================================
