---------------------------- MODULE MCLinkLayer ----------------------------
\* Two stations for TLC. The master confirms at the link level and the outstation
\* does not, so both kinds of user data travel, in opposite directions; both may
\* run another vendor's stack.
EXTENDS LinkLayer

CONSTANTS m, o

Both == {m, o}
OnlyMaster == {m}
ThreeToOne == [p \in Both |-> IF p = m THEN 3 ELSE 1]
=============================================================================
