------------------------------- MODULE MCVto -------------------------------
(* The tunnel for TLC: the application sends two chunks in a connection, the device one. *)
EXTENDS Vto

ChunksRead == [server |-> 2, client |-> 1]

=============================================================================
