------------------------ MODULE MCPcpParallelIndexer ------------------------
(* Instances of PcpParallelIndexer for TLC.                                *)
EXTENDS PcpParallelIndexer, TLC

CONSTANTS root, a, b, c

TreePaths == {root, a, b, c}

(* /a/b and /c                                                             *)
TreeParent == (a :> root) @@ (b :> a) @@ (c :> root)
TreePrefixes ==
    LET up[p \in TreePaths] == {p} \cup IF p = root THEN {} ELSE up[TreeParent[p]]
    IN  up
=============================================================================
