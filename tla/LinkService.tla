---------------------------- MODULE LinkService ----------------------------
(***************************************************************************)
(* What one DNP3 data link promises the transport layers above it: in each *)
(* direction a payload is delivered at most once and in the order it was   *)
(* handed over, and an operation handed over is completed (success,        *)
(* failure, or the loss of the lower layer) before the next one starts.    *)
(* Nothing promises that a payload arrives.                                *)
(***************************************************************************)
EXTENDS Naturals, Sequences

CONSTANTS Master, Outstation

Stations == {Master, Outstation}
Other(p) == IF p = Master THEN Outstation ELSE Master

VARIABLES
  sent,       \* sent[p]: operations p's user has handed over so far
  busy,       \* busy[p]: p's user waits for the outcome of the last of them
  delivered   \* delivered[p]: the operations whose payload p's user received

vars == <<sent, busy, delivered>>

\* The operation a station's user received last, 0 before the first.
LastOf(s) == IF s = <<>> THEN 0 ELSE s[Len(s)]

Init ==
  /\ sent = [p \in Stations |-> 0]
  /\ busy = [p \in Stations |-> FALSE]
  /\ delivered = [p \in Stations |-> <<>>]

\* The user of p hands over an operation; b says whether it must wait for the outcome.
Submit(p, b) ==
  /\ ~busy[p]
  /\ sent' = [sent EXCEPT ![p] = @ + 1]
  /\ busy' = [busy EXCEPT ![p] = b]
  /\ UNCHANGED delivered

\* The operation outstanding at p is over, whatever became of its payload.
Complete(p) ==
  /\ busy[p]
  /\ busy' = [busy EXCEPT ![p] = FALSE]
  /\ UNCHANGED <<sent, delivered>>

\* Some payload newer than every one delivered so far reaches the user of p.
Deliver(p) ==
  \E n \in LastOf(delivered[p]) + 1 .. sent[Other(p)] :
    /\ delivered' = [delivered EXCEPT ![p] = Append(@, n)]
    /\ UNCHANGED <<sent, busy>>

Next == \E p \in Stations : (\E b \in BOOLEAN : Submit(p, b)) \/ Complete(p) \/ Deliver(p)

Spec == Init /\ [][Next]_vars
=============================================================================
