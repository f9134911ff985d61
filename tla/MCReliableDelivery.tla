------------------------- MODULE MCReliableDelivery -------------------------
(* Two calls in one process deliver two records. *)
EXTENDS ReliableDelivery
CONSTANTS d1, d2, w1, w2, e1
TwoDeliveries == {d1, d2}
TwoWorkers == {w1, w2}
OneEngine == {e1}
SameEngine == [w \in TwoWorkers |-> e1]
=============================================================================
