------------------------ MODULE MCUsdStageWorkingSet ------------------------
(* A chain of three prims with payloads and, beside it, a prim with one:    *)
(* deep enough for a rule between two others, wide enough for a sibling.    *)
EXTENDS UsdStageWorkingSet

A == <<"A">>
B == <<"A", "B">>
C == <<"A", "B", "C">>
D == <<"D">>
MCPaths == {Root, A, B, C, D}
MCPayloadPrims == {A, B, C, D}
\* Every prim is in the stage's layers, whatever the payloads above it do.
LocalSource == [p \in MCPaths |-> Root]
\* C comes with B's payload, B with A's.
NestedSource == [p \in MCPaths |-> CASE p = B -> A [] p = C -> B [] OTHER -> Root]
=============================================================================
