---------------------------- MODULE EventBuffer ----------------------------
(***************************************************************************)
(* One event buffer of an outstation: EventBufferBase with its selection,  *)
(* and the three buffers derived from it (EventBuffers.h), which differ in *)
(* the set that keeps the events not selected (BufferSetTypes.h):          *)
(*                                                                         *)
(*   "Time"       TimeOrderedEventBuffer, a multiset by time; binary, analog *)
(*   "Index"      SingleEventBuffer, one event per point; counters         *)
(*   "Insertion"  InsertionOrderedEventBuffer, by mSequence; VTO data      *)
(*                                                                         *)
(* The caller is ResponseContext: it selects events for a response, writes *)
(* them into fragments in the order of the selection, erases what was      *)
(* confirmed and returns the rest. Data points are updated at any moment.  *)
(*                                                                         *)
(* The sets and the vector of the code are sets of events here; at is the  *)
(* moment an event entered the one it is in, which orders the vector and   *)
(* the entries of the multiset that have the same time.                    *)
(***************************************************************************)
EXTENDS Integers, FiniteSets

CONSTANTS
  MaxEvents,      \* M_MAX_EVENTS
  SizeT,          \* how many values a size_t has
  Points,         \* the indices of the data points
  Classes,        \* the event classes
  ClassOf,        \* the class of a point
  Times,          \* the time stamps that measurements carry
  MaxUpdates,     \* bound: updates
  MaxSelections   \* bound: calls of Select

ASSUME BufferAssumption ==
  /\ MaxEvents \in Nat \ {0} /\ SizeT \in Nat /\ SizeT > MaxEvents
  /\ Points \subseteq Nat /\ Times \subseteq Nat
  /\ ClassOf \in [Points -> Classes]
  /\ MaxUpdates \in Nat /\ MaxSelections \in Nat

VARIABLES
  kind,        \* which buffer this is
  events,      \* mEventSet
  selected,    \* mSelectedEvents
  sequence,    \* mSequence
  counter,     \* mCounter
  overflown,   \* mIsOverflown
  clock,       \* the moment, counted in events that changed their place
  updates,     \* number of updates so far
  selections,  \* number of calls of Select so far
  reported,    \* history: events erased after they were written
  dropped,     \* history: events erased to make room
  superseded   \* history: events another event of their point took the place of

history == <<reported, dropped, superseded>>
vars == <<kind, events, selected, sequence, counter, overflown, clock, updates, selections, history>>

Kinds == {"Time", "Index", "Insertion"}

Event == [id : Nat, index : Points, time : Times, seq : Nat, at : Nat, written : BOOLEAN]

---------------------------------------------------------------------------
(* Orders and counts *)

Ids(S) == {e.id : e \in S}
OfClass(S, c) == {e \in S : ClassOf[e.index] = c}
Size == Cardinality(events) + Cardinality(selected)

\* e comes before f in mEventSet.
Before(e, f) ==
  CASE kind = "Time"  -> e.time < f.time \/ (e.time = f.time /\ e.at < f.at)
    [] kind = "Index" -> e.index < f.index
    [] OTHER          -> e.seq < f.seq

RankInSet(e, S)    == Cardinality({f \in S : Before(f, e)})
RankInVector(e, S) == Cardinality({f \in S : f.at < e.at})

\* _Update for the events of N, in the order of at: what mEventSet is afterwards.
Inserted(N) ==
  LET All == events \cup N IN
  CASE kind = "Time"  -> All
    [] kind = "Index" -> {e \in All : \A f \in All :
                            f.index = e.index =>
                              f.time < e.time \/ (f.time = e.time /\ f.at <= e.at)}
    [] OTHER          -> events \cup {e \in N : \A f \in events : f.seq # e.seq}

\* ... and by how much the counter of a class grows.
Grown(N, c) ==
  IF kind = "Index"
    THEN Cardinality({e.index : e \in OfClass(N, c)} \ {e.index : e \in events})
    ELSE Cardinality(OfClass(N, c))

Superseded(N) == IF kind = "Index" THEN (events \cup N) \ Inserted(N) ELSE {}

---------------------------------------------------------------------------
TypeOK ==
  /\ kind \in Kinds
  /\ events \in SUBSET Event /\ IsFiniteSet(events)
  /\ selected \in SUBSET Event /\ IsFiniteSet(selected)
  /\ sequence \in Nat
  /\ counter \in [Classes -> Nat]
  /\ overflown \in BOOLEAN
  /\ clock \in Nat /\ updates \in Nat /\ selections \in Nat
  /\ reported \in SUBSET Nat
  /\ dropped \in SUBSET Nat
  /\ superseded \in SUBSET Nat

Init ==
  /\ kind \in Kinds
  /\ events = {}
  /\ selected = {}
  /\ sequence = 0
  /\ counter = [c \in Classes |-> 0]
  /\ overflown = FALSE
  /\ clock = 0 /\ updates = 0 /\ selections = 0
  /\ reported = {}
  /\ dropped = {}
  /\ superseded = {}

\* Mutant of NextSequence: it starts again although events are selected.
SequenceRestarts == IF events = {} THEN 0 ELSE sequence

\* The sequence that Update gives to a new event: it starts again when nothing is left.
NextSequence == IF Size = 0 THEN 0 ELSE sequence

\* Mutant of NumAvailable: selected events do not count.
UnselectedAvailable == (MaxEvents - Cardinality(events)) % SizeT

\* NumAvailable: a size_t, so it wraps when the buffer holds more than M_MAX_EVENTS.
NumAvailable == (MaxEvents - Size) % SizeT

\* Update: the set takes the event, and gives up its first one when it grew too large.
\* VTO data waits in the VtoWriter until NumAvailable (Slave::FlushVtoUpdates).
Update ==
  /\ updates < MaxUpdates
  /\ kind = "Insertion" => NumAvailable > 0
  /\ \E i \in Points, t \in Times :
       LET new  == [id |-> updates + 1, index |-> i, time |-> t, seq |-> NextSequence,
                    at |-> clock, written |-> FALSE]
           S    == Inserted({new})
           lost == IF Cardinality(S) > MaxEvents THEN {e \in S : RankInSet(e, S) = 0} ELSE {}
       IN  /\ events' = S \ lost
           /\ counter' = [c \in Classes |->
                            counter[c] + Grown({new}, c) - Cardinality(OfClass(lost, c))]
           /\ overflown' = (overflown \/ lost # {})
           /\ dropped' = dropped \cup Ids(lost)
           /\ superseded' = superseded \cup Ids(Superseded({new}))
  /\ sequence' = NextSequence + 1
  /\ clock' = clock + 1
  /\ updates' = updates + 1
  /\ UNCHANGED <<kind, selected, selections, reported>>

\* Select: up to n events of the classes of M leave the set in its order.
Select ==
  /\ selections < MaxSelections
  /\ \E M \in SUBSET Classes, n \in 1..Cardinality(events) :
       LET matching == {e \in events : ClassOf[e.index] \in M}
           chosen   == {e \in matching : RankInSet(e, matching) < n}
       IN  /\ events' = events \ chosen
           /\ counter' = [c \in Classes |-> counter[c] - Cardinality(OfClass(chosen, c))]
           /\ selected' = selected \cup
                {[e EXCEPT !.at = clock + RankInSet(e, chosen), !.written = FALSE] : e \in chosen}
           /\ clock' = clock + Cardinality(chosen)
  /\ selections' = selections + 1
  /\ UNCHANGED <<kind, sequence, overflown, updates, history>>

\* ResponseContext::LoadEvents: the first n of the selection fit into the fragment.
Write ==
  /\ \E n \in 1..Cardinality(selected) :
       selected' = {IF RankInVector(e, selected) < n THEN [e EXCEPT !.written = TRUE] ELSE e :
                      e \in selected}
  /\ UNCHANGED <<kind, events, sequence, counter, overflown, clock, updates, selections, history>>

\* ClearWrittenEvents: the events at the front of the selection that were written.
ClearWrittenEvents ==
  LET cleared == {e \in selected : \A f \in selected : f.at <= e.at => f.written}
  IN  /\ cleared # {}
      /\ selected' = selected \ cleared
      /\ reported' = reported \cup Ids(cleared)
      /\ UNCHANGED <<kind, events, sequence, counter, overflown, clock, updates, selections, dropped,
                     superseded>>

\* Mutant of Deselect: the selection is not emptied.
DeselectKeeps ==
  LET N == {[e EXCEPT !.at = clock + RankInVector(e, selected)] : e \in selected}
  IN  /\ selected # {}
      /\ events' = Inserted(N)
      /\ counter' = [c \in Classes |-> counter[c] + Grown(N, c)]
      /\ clock' = clock + Cardinality(selected)
      /\ UNCHANGED <<kind, selected, sequence, overflown, updates, selections, history>>

\* Deselect: the selection is inserted again, in its order and with its sequences.
Deselect ==
  LET N == {[e EXCEPT !.at = clock + RankInVector(e, selected)] : e \in selected}
  IN  /\ selected # {}
      /\ events' = Inserted(N)
      /\ counter' = [c \in Classes |-> counter[c] + Grown(N, c)]
      /\ superseded' = superseded \cup Ids(Superseded(N))
      /\ selected' = {}
      /\ clock' = clock + Cardinality(selected)
      /\ UNCHANGED <<kind, sequence, overflown, updates, selections, reported, dropped>>

\* IsOverflown: asking resets the flag once there is room again.
IsOverflown ==
  /\ overflown /\ Size < MaxEvents
  /\ overflown' = FALSE
  /\ UNCHANGED <<kind, events, selected, sequence, counter, clock, updates, selections, history>>

Next == Update \/ Select \/ Write \/ ClearWrittenEvents \/ Deselect \/ IsOverflown

Spec == Init /\ [][Next]_vars

---------------------------------------------------------------------------
(* Properties *)

\* The counter of each class is the number of events of the class that are not selected,
\* through replacements, overflows and selections that are returned: DecrCount asserts
\* it, and HasClassData, which starts unsolicited responses, relies on it.
CounterMatches ==
  \A c \in Classes : counter[c] = Cardinality(OfClass(events, c))

\* The sequence numbers of the events in the buffer follow the order of their updates,
\* although Update starts again from zero: std::set would drop an event with the number
\* of another one.
SequenceFollowsUpdates ==
  \A e, f \in events \cup selected : e.id < f.id => e.seq < f.seq

\* Every update is in exactly one place: waiting, selected, reported, dropped by an
\* overflow or superseded at its point. None vanishes or is kept twice while events go
\* back and forth between the set and the selection.
EveryUpdateAccounted ==
  LET places == <<Ids(events), Ids(selected), reported, dropped, superseded>> IN
  /\ \A n \in 1..updates : \E i \in DOMAIN places : n \in places[i]
  /\ \A i, j \in DOMAIN places : i # j => places[i] \cap places[j] = {}
  /\ Cardinality(Ids(events)) = Cardinality(events)
  /\ Cardinality(Ids(selected)) = Cardinality(selected)

\* VTO data is a byte stream and is never dropped: the space that FlushVtoUpdates asks
\* for counts the selected events too, so returning them does not overflow the buffer.
VtoNeverDropped == kind = "Insertion" => dropped = {} /\ Size <= MaxEvents
=============================================================================
