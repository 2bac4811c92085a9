------------------------------ MODULE MCSlave ------------------------------
(* A READ of all events, which takes two fragments, or of one event and a  *)
(* static object.                                                          *)
EXTENDS Slave

MCReads == {[events |-> 2, static |-> 0], [events |-> 1, static |-> 1]}
=============================================================================
