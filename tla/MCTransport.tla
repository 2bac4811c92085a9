---------------------------- MODULE MCTransport ----------------------------
\* Two stations for TLC. The master's link confirms and its buffer is the smaller one;
\* the outstation's does not, and it may run another vendor's stack. Either one of them
\* sends up to three fragments, or both send one.
EXTENDS Transport

CONSTANTS m, o

Both == {m, o}
OnlyMaster == {m}
OnlyOutstation == {o}
Sizes == [p \in Both |-> IF p = m THEN 5 ELSE 6]
SomeBudgets ==
  {[p \in Both |-> IF p = m THEN 3 ELSE 0], [p \in Both |-> IF p = m THEN 0 ELSE 3],
   [p \in Both |-> 1]}
=============================================================================
