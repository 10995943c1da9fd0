--------------------------- MODULE MCHdRenderThread ---------------------------
(* Instances of HdRenderThread for TLC.                                    *)
EXTENDS HdRenderThread

CONSTANTS main, worker1, worker2

ThreeHydra == {main, worker1, worker2}

===============================================================================
