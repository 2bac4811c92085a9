--------------------------- MODULE MCEventBuffer ---------------------------
(* Two points of different classes. *)
EXTENDS EventBuffer

PointClass == [i \in 0..1 |-> i + 1]
=============================================================================
