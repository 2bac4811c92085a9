------------------------------ MODULE MCRouter ------------------------------
(* Router for TLC: a frame without user data for the one stack, one with half a block for
   the other one, whose second half may look like the beginning of a frame, and one with
   a function code that nobody knows. *)
EXTENDS Router

CONSTANTS c1, c2, ack, data, odd

MCFrames == {ack, data, odd}
MCUserData == [f \in MCFrames |-> IF f = data THEN 8 ELSE 0]
MCDestination == [f \in MCFrames |-> IF f = data THEN c2 ELSE c1]
MCLookalikes == {<<data, 4>>}
=============================================================================
