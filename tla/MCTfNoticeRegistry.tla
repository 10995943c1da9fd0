------------------------- MODULE MCTfNoticeRegistry -------------------------
(* Instances of TfNoticeRegistry for TLC.                                  *)
EXTENDS TfNoticeRegistry

CONSTANTS t1, t2, t3, d1, d2, d3, senders, globals

(* The listeners of the sender, then the global ones, of which there are   *)
(* none unless d3 exists.                                                  *)
TwoLists == <<senders, globals>>
Lists == [d \in Deliverers |-> IF d = d3 THEN globals ELSE senders]

=============================================================================
