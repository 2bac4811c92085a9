---------------------------- MODULE TransportProofs ----------------------------
(***************************************************************************)
(* Theorems of Transport: the receive buffer holds what was read,          *)
(* fragments are delivered at most once and in order, and what a receiver  *)
(* passes up is one fragment, whole.                                       *)
(*                                                                         *)
(* The inductive invariant looks at the segments a station handed to its   *)
(* link and at what the other made of them. Its parts are stated over the  *)
(* values of the state, so that the lemmas on how they survive a step are  *)
(* about sequences only. A second one, for whole fragments, follows the    *)
(* sequence from one segment of a buffer to the next.                      *)
(***************************************************************************)
EXTENDS Transport, TLAPS

---------------------------------------------------------------------------
(* The inductive invariant *)

LastOp(c) == c[Len(c)]

\* The segments t handed to a link for h fragments: in the order of the fragments, with
\* nothing of a fragment after its last segment.
Formed(t, h) ==
  /\ \A i \in 1..Len(t) : 1 <= t[i].frag /\ t[i].frag <= h
  /\ \A i, j \in 1..Len(t) :
       i < j => t[i].frag <= t[j].frag /\ (t[i].fin => t[i].frag < t[j].frag)

\* Nothing of fragment h that was handed to the link ends it.
Unfinished(t, h) == \A i \in 1..Len(t) : t[i].frag = h => ~t[i].fin

\* A station that is sending has a fragment, which is not finished while something is left of it.
Sender(q) ==
  /\ Formed(tpdu[q], handed[q])
  /\ state[q] = "Sending" =>
       1 <= handed[q] /\ (toSend[q] > 0 => Unfinished(tpdu[q], handed[q]))

\* The fragments r put together when operation l was delivered last: each from operations up
\* to l, the last of which ends a fragment and is newer than all of the fragments before.
PutTogether(r, l, t) ==
  /\ \A i \in 1..Len(r) : r[i] \in Seq(1..l) /\ r[i] # <<>> /\ t[LastOp(r[i])].fin
  /\ \A i, j \in 1..Len(r) : i < j => LastOp(r[i]) < LastOp(r[j])

Receiver(p) ==
  /\ LastDelivered(p) <= Sent(Other(p))
  /\ buffer[p] \in Seq(1..LastDelivered(p))
  /\ PutTogether(received[p], LastDelivered(p), tpdu[Other(p)])

\* BufferHoldsWhatWasRead for a buffer b of size f with n bytes read, of the segments t.
Holds(b, n, f, t) ==
  /\ n <= f
  /\ n = Payload * Len(b)
  /\ \A i \in 1..Len(b) :
       (t[b[i]].fir <=> (i = 1)) /\ ~t[b[i]].fin /\ t[b[i]].len = Payload

IInv ==
  /\ TypeOK
  /\ \A p \in Stations :
       Sender(p) /\ Receiver(p) /\ Holds(buffer[p], numRead[p], FragSize[p], tpdu[Other(p)])

---------------------------------------------------------------------------
(* The stations, the segments and the sequences *)

LEMMA Others ==
  \A p \in Stations : Other(p) \in Stations /\ Other(p) # p /\ Other(Other(p)) = p
BY TransportAssumption DEF Stations, Other

LEMMA NextSeqIsNat == \A s \in Nat : NextSeq(s) \in Nat
BY TransportAssumption DEF NextSeq

\* g is a segment of fragment f with sequence s, formed when rest bytes of it were left.
IsSegment(g, f, rest, s) ==
  /\ g \in Segment
  /\ g.frag = f /\ g.own /\ g.seq = s
  /\ g.len \in Nat /\ rest - g.len \in Nat
  /\ (g.fin <=> rest - g.len = 0)

LEMMA SegmentFormed ==
  ASSUME NEW f \in Nat, NEW rest \in Nat \ {0}, NEW s \in Nat
  PROVE  /\ IsSegment(SegmentOf(f, TRUE, rest, s), f, rest, s)
         /\ IsSegment(SegmentOf(f, FALSE, rest, s), f, rest, s)
         /\ SegmentOf(f, TRUE, rest, s).fir /\ ~SegmentOf(f, FALSE, rest, s).fir
<1>1. Payload \in Nat \ {0}
  BY TransportAssumption
<1> DEFINE len == Least(rest, Payload)
           fin == rest <= Payload
<1>2. len \in Nat /\ rest - len \in Nat /\ (fin <=> rest - len = 0)
  BY <1>1 DEF Least
<1>3. fin \in BOOLEAN
  OBVIOUS
<1>4. ASSUME NEW first \in BOOLEAN
      PROVE  SegmentOf(f, first, rest, s) =
               [frag |-> f, own |-> TRUE, fir |-> first, fin |-> fin, seq |-> s, len |-> len]
  BY DEF SegmentOf
<1> HIDE DEF len, fin
<1>5. ASSUME NEW first \in {TRUE, FALSE}, NEW g,
             g = [frag |-> f, own |-> TRUE, fir |-> first, fin |-> fin, seq |-> s, len |-> len]
      PROVE  IsSegment(g, f, rest, s) /\ g.fir = first
  <2>1. /\ g \in Segment
        /\ g.frag = f /\ g.own /\ g.seq = s /\ g.fir = first /\ g.fin = fin /\ g.len = len
    BY <1>2, <1>3, <1>5 DEF Segment
  <2>2. QED
    BY <1>2, <2>1 DEF IsSegment
<1>6. IsSegment(SegmentOf(f, TRUE, rest, s), f, rest, s) /\ SegmentOf(f, TRUE, rest, s).fir
  BY <1>4, <1>5
<1>7. IsSegment(SegmentOf(f, FALSE, rest, s), f, rest, s) /\ ~SegmentOf(f, FALSE, rest, s).fir
  BY <1>4, <1>5
<1>8. QED
  BY <1>6, <1>7

LEMMA SequenceTypes ==
  ASSUME NEW S, NEW s \in Seq(S), NEW x \in S
  PROVE  /\ Append(s, x) \in Seq(S) /\ Len(Append(s, x)) = Len(s) + 1
         /\ \A i \in 1..Len(s) : Append(s, x)[i] = s[i]
         /\ Append(s, x)[Len(s) + 1] = x
OBVIOUS

\* Products with the size of the payload grow with the other factor.
LEMMA Products ==
  ASSUME NEW a \in Nat, NEW b \in Nat, a <= b
  PROVE  a * Payload \in Nat /\ a * Payload <= b * Payload
<1>1. Payload \in Nat
  BY TransportAssumption
<1>2. (b - a) * Payload >= 0
  BY <1>1
<1>3. (b - a) * Payload = b * Payload - a * Payload
  BY <1>1
<1>4. a * Payload \in Nat /\ b * Payload \in Nat
  BY <1>1
<1>5. QED
  BY <1>2, <1>3, <1>4

\* How many segments a fragment of this size takes.
LEMMA CountOfSegments ==
  ASSUME NEW size \in Nat \ {0}
  PROVE  LET count == (size + Payload - 1) \div Payload
         IN  /\ count \in Nat \ {0}
             /\ (count - 1) * Payload < size /\ size <= count * Payload
<1> DEFINE count == (size + Payload - 1) \div Payload
           a == size + Payload - 1
<1>1. Payload \in Nat \ {0} /\ a \in Nat /\ a >= Payload
  BY TransportAssumption
<1>2. count \in Nat /\ count * Payload <= a /\ a < (count + 1) * Payload
  BY <1>1
<1>3. count # 0
  BY <1>1, <1>2
<1> HIDE DEF count
<1>4. (count + 1) * Payload = count * Payload + Payload
      /\ (count - 1) * Payload = count * Payload - Payload
  BY <1>1, <1>2
<1>5. count * Payload \in Nat
  BY <1>1, <1>2
<1>6. (count - 1) * Payload < size /\ size <= count * Payload
  BY <1>1, <1>2, <1>4, <1>5
<1>7. QED
  BY <1>2, <1>3, <1>6 DEF count

---------------------------------------------------------------------------
(* The segments handed to a link *)

LEMMA SegmentTypes ==
  ASSUME NEW t \in Seq(Segment), NEW i \in 1..Len(t)
  PROVE  /\ t[i] \in Segment
         /\ t[i].frag \in Nat /\ t[i].seq \in Nat /\ t[i].len \in Nat
         /\ t[i].own \in BOOLEAN /\ t[i].fir \in BOOLEAN /\ t[i].fin \in BOOLEAN
<1>1. t[i] \in Segment
  OBVIOUS
<1>2. QED
  BY <1>1 DEF Segment

\* u is t with more segments behind it.
Extends(u, t) == Len(t) <= Len(u) /\ \A i \in 1..Len(t) : u[i] = t[i]

LEMMA Appended ==
  ASSUME NEW t \in Seq(Segment), NEW g \in Segment
  PROVE  /\ Append(t, g) \in Seq(Segment) /\ Extends(Append(t, g), t)
         /\ Len(Append(t, g)) = Len(t) + 1 /\ Append(t, g)[Len(t) + 1] = g
         /\ \A i \in 1..Len(Append(t, g)) :
              (i \in 1..Len(t) /\ Append(t, g)[i] = t[i]) \/ (i = Len(t) + 1 /\ Append(t, g)[i] = g)
BY SequenceTypes DEF Extends

\* One more segment, of the next fragment or of the last one if that is unfinished.
LEMMA FormedAppend ==
  ASSUME NEW t \in Seq(Segment), NEW h \in Nat, NEW k \in Nat, NEW g \in Segment,
         Formed(t, h), g.frag = k, 1 <= k, k = h + 1 \/ (k = h /\ Unfinished(t, h))
  PROVE  Formed(Append(t, g), k) /\ (~g.fin => Unfinished(Append(t, g), k))
<1> DEFINE u == Append(t, g)
<1>1. /\ u \in Seq(Segment) /\ Len(u) = Len(t) + 1
      /\ \A i \in 1..Len(u) : (i \in 1..Len(t) /\ u[i] = t[i]) \/ (i = Len(t) + 1 /\ u[i] = g)
  BY Appended
<1>2. \A i \in 1..Len(t) : t[i].frag \in Nat /\ 1 <= t[i].frag /\ t[i].frag <= k
  BY SegmentTypes DEF Formed
<1>3. \A i \in 1..Len(t) : t[i].fin => t[i].frag < k
  <2>1. k = h + 1 => \A i \in 1..Len(t) : t[i].frag < k
    BY <1>2 DEF Formed
  <2>2. k # h + 1 => \A i \in 1..Len(t) : t[i].fin => t[i].frag # k
    BY DEF Unfinished
  <2>3. QED
    BY <1>2, <2>1, <2>2
<1> HIDE DEF u
<1>4. \A i \in 1..Len(u) : 1 <= u[i].frag /\ u[i].frag <= k
  BY <1>1, <1>2
<1>5. ASSUME NEW i \in 1..Len(u), NEW j \in 1..Len(u), i < j
      PROVE  u[i].frag <= u[j].frag /\ (u[i].fin => u[i].frag < u[j].frag)
  <2>1. i \in 1..Len(t) /\ u[i] = t[i]
    BY <1>1, <1>5
  <2>2. CASE j \in 1..Len(t) /\ u[j] = t[j]
    BY <1>5, <2>1, <2>2 DEF Formed
  <2>3. CASE u[j] = g
    BY <1>2, <1>3, <2>1, <2>3
  <2>4. QED
    BY <1>1, <2>2, <2>3
<1>6. ASSUME ~g.fin, NEW i \in 1..Len(u), u[i].frag = k
      PROVE  ~u[i].fin
  BY <1>1, <1>2, <1>3, <1>6
<1>7. QED
  BY <1>4, <1>5, <1>6 DEF Formed, Unfinished, u

\* The segments of a whole fragment.
LEMMA FormedConcat ==
  ASSUME NEW t \in Seq(Segment), NEW h \in Nat, NEW s \in Seq(Segment), Formed(t, h),
         \A i \in 1..Len(s) : s[i].frag = h + 1 /\ (i < Len(s) => ~s[i].fin)
  PROVE  t \o s \in Seq(Segment) /\ Extends(t \o s, t) /\ Formed(t \o s, h + 1)
<1> DEFINE u == t \o s
<1>1. /\ u \in Seq(Segment) /\ Len(u) = Len(t) + Len(s)
      /\ \A i \in 1..Len(t) : u[i] = t[i]
      /\ \A i \in 1..Len(s) : u[Len(t) + i] = s[i]
  OBVIOUS
<1>2. \A i \in 1..Len(u) : i \in 1..Len(t) \/ (i - Len(t) \in 1..Len(s) /\ u[i] = s[i - Len(t)])
  BY <1>1
<1>3. \A i \in 1..Len(t) : t[i].frag \in Nat /\ 1 <= t[i].frag /\ t[i].frag <= h
  BY SegmentTypes DEF Formed
<1> HIDE DEF u
<1>4. ASSUME NEW i \in 1..Len(u)
      PROVE  1 <= u[i].frag /\ u[i].frag <= h + 1
  <2>1. CASE i \in 1..Len(t)
    <3>1. u[i] = t[i]
      BY <1>1, <2>1
    <3>2. QED
      BY <1>3, <2>1, <3>1
  <2>2. CASE i \notin 1..Len(t)
    <3>1. u[i].frag = h + 1
      BY <1>2, <2>2
    <3>2. QED
      BY <3>1
  <2>3. QED
    BY <2>1, <2>2
<1>5. ASSUME NEW i \in 1..Len(u), NEW j \in 1..Len(u), i < j
      PROVE  u[i].frag <= u[j].frag /\ (u[i].fin => u[i].frag < u[j].frag)
  <2>1. CASE i \in 1..Len(t) /\ j \in 1..Len(t)
    BY <1>1, <1>5, <2>1 DEF Formed
  <2>2. CASE i \in 1..Len(t) /\ j \notin 1..Len(t)
    <3>1. u[i] = t[i] /\ t[i].frag \in Nat /\ t[i].frag <= h
      BY <1>1, <1>3, <2>2
    <3>2. u[j].frag = h + 1
      BY <1>2, <2>2
    <3>3. QED
      BY <3>1, <3>2
  <2>3. CASE i \notin 1..Len(t)
    <3>1. j \notin 1..Len(t) /\ i - Len(t) < Len(s)
      BY <1>1, <1>2, <1>5, <2>3
    <3>2. u[i].frag = h + 1 /\ u[j].frag = h + 1 /\ ~u[i].fin
      BY <1>2, <2>3, <3>1
    <3>3. QED
      BY <3>2
  <2>4. QED
    BY <2>1, <2>2, <2>3
<1>6. QED
  BY <1>1, <1>4, <1>5 DEF Formed, Extends, u

\* The segments of a fragment f of this size, the first with sequence x.
SegmentsFor(f, x, size) ==
  [i \in 1..(size + Payload - 1) \div Payload |->
     SegmentOf(f, i = 1, size - (i - 1) * Payload, (x + i - 1) % SeqModulus)]

\* s are all the segments of fragment f, the first with sequence x.
AllSegments(s, f, x) ==
  /\ s \in Seq(Segment)
  /\ \A i \in 1..Len(s) :
       /\ s[i].own /\ s[i].frag = f /\ s[i].seq = (x + i - 1) % SeqModulus
       /\ s[i].fin <=> i = Len(s)

LEMMA SegmentsOfFragment ==
  ASSUME NEW size \in Nat \ {0}, NEW f \in Nat, NEW x \in Nat
  PROVE  /\ AllSegments(SegmentsFor(f, x, size), f, x)
         /\ Len(SegmentsFor(f, x, size)) = (size + Payload - 1) \div Payload
<1> DEFINE count == (size + Payload - 1) \div Payload
           s == [i \in 1..count |->
                   SegmentOf(f, i = 1, size - (i - 1) * Payload, (x + i - 1) % SeqModulus)]
<1>1. count \in Nat \ {0} /\ (count - 1) * Payload < size /\ size <= count * Payload
  BY CountOfSegments
<1> HIDE DEF count
<1>2. ASSUME NEW i \in 1..count
      PROVE  /\ s[i] \in Segment /\ s[i].frag = f /\ s[i].own
             /\ s[i].seq = (x + i - 1) % SeqModulus
             /\ s[i].fin <=> i = count
  <2> DEFINE rest == size - (i - 1) * Payload
  <2>1. Payload \in Nat \ {0} /\ (x + i - 1) % SeqModulus \in Nat
    BY TransportAssumption
  <2>2. (i - 1) * Payload \in Nat /\ (i - 1) * Payload <= (count - 1) * Payload
        /\ (count - 1) * Payload \in Nat
    BY <1>1, Products
  <2>3. rest \in Nat \ {0}
    BY <1>1, <2>2
  <2>4. ASSUME i < count PROVE rest > Payload
    <3>1. i * Payload \in Nat /\ i * Payload <= (count - 1) * Payload
      BY <1>1, <2>4, Products
    <3>2. i * Payload = (i - 1) * Payload + Payload
      BY <2>1
    <3>3. QED
      BY <1>1, <2>1, <2>2, <3>1, <3>2
  <2>5. ASSUME i = count PROVE rest <= Payload
    <3>1. count * Payload = (count - 1) * Payload + Payload
      BY <1>1, <2>1
    <3>2. QED
      BY <1>1, <2>1, <2>2, <2>5, <3>1
  <2> DEFINE y == (x + i - 1) % SeqModulus
  <2>6. y \in Nat
    BY <2>1
  <2>7. s[i] = SegmentOf(f, i = 1, rest, y)
    OBVIOUS
  <2> HIDE DEF rest, y, s
  <2> DEFINE first == i = 1
             fin == rest <= Payload
             len == Least(rest, Payload)
  <2>8. s[i] = [frag |-> f, own |-> TRUE, fir |-> first, fin |-> fin, seq |-> y, len |-> len]
    BY <2>7, Zenon DEF SegmentOf
  <2>9. first \in BOOLEAN /\ fin \in BOOLEAN /\ len \in Nat
    BY <2>1, <2>3 DEF Least
  <2>10. fin <=> i = count
    BY <1>1, <2>1, <2>3, <2>4, <2>5
  <2> HIDE DEF first, fin, len
  <2>11. s[i] \in Segment
    BY <2>6, <2>8, <2>9 DEF Segment
  <2>12. s[i].frag = f /\ s[i].own /\ s[i].seq = y /\ (s[i].fin <=> fin)
    BY <2>8, <2>9
  <2>13. QED
    BY <2>10, <2>11, <2>12 DEF y
<1>3. s \in Seq(Segment) /\ Len(s) = count
  <2>1. s \in [1..count -> Segment]
    BY <1>2
  <2>2. QED
    BY <1>1, <2>1
<1>4. SegmentsFor(f, x, size) = s
  BY Zenon DEF SegmentsFor, count
<1> HIDE DEF s
<1>5. AllSegments(s, f, x)
  BY <1>2, <1>3 DEF AllSegments
<1>6. QED
  BY <1>3, <1>4, <1>5 DEF count

---------------------------------------------------------------------------
(* The types *)

\* What a station hands its link in one step: segments of the next fragment.
LEMMA TypesOfSending ==
  ASSUME TypeOK, NEW p \in Stations, Sending(p)
  PROVE  TypeOK'
<1>1. CASE Send(p)
  <2>1. PICK size \in 1..FragSize[p] :
          LET first == SegmentOf(handed[p] + 1, TRUE, size, txSeq[p])
          IN  /\ CanSend(p, size)
              /\ tpdu' = [tpdu EXCEPT ![p] = Append(@, first)]
              /\ toSend' = [toSend EXCEPT ![p] = size - first.len]
    BY <1>1, Zenon DEF Send
  <2>2. size \in Nat \ {0}
    BY TransportAssumption
  <2>3. PICK g : g = SegmentOf(handed[p] + 1, TRUE, size, txSeq[p])
    OBVIOUS
  <2>4. g \in Segment /\ size - g.len \in Nat
    <3>1. handed[p] + 1 \in Nat /\ txSeq[p] \in Nat
      BY DEF TypeOK
    <3>2. IsSegment(g, handed[p] + 1, size, txSeq[p])
      BY <2>2, <2>3, <3>1, SegmentFormed, Zenon
    <3>3. QED
      BY <3>2 DEF IsSegment
  <2>5. tpdu' = [tpdu EXCEPT ![p] = Append(@, g)] /\ toSend' = [toSend EXCEPT ![p] = size - g.len]
    BY <2>1, <2>3
  <2>6. tpdu' \in [Stations -> Seq(Segment)] /\ toSend' \in [Stations -> Nat]
    <3>1. Append(tpdu[p], g) \in Seq(Segment)
      BY <2>4, Appended DEF TypeOK
    <3>2. QED
      BY <2>4, <2>5, <3>1 DEF TypeOK
  <2>7. handed' \in [Stations -> Nat] /\ state' \in [Stations -> {"Closed", "Ready", "Sending"}]
    BY <1>1, <2>1 DEF Send, CanSend, TypeOK
  <2>8. QED
    BY <1>1, <2>6, <2>7 DEF Send, TypeOK, rx
<1>2. CASE SendUnconfirmed(p)
  <2>1. PICK size \in 1..FragSize[p] :
          /\ CanSend(p, size)
          /\ tpdu' = [tpdu EXCEPT ![p] = @ \o SegmentsFor(handed[p] + 1, txSeq[p], size)]
          /\ txSeq' = [txSeq EXCEPT ![p] = (@ + (size + Payload - 1) \div Payload) % SeqModulus]
    BY <1>2, Zenon DEF SendUnconfirmed, SegmentsFor
  <2> DEFINE count    == (size + Payload - 1) \div Payload
             segments == SegmentsFor(handed[p] + 1, txSeq[p], size)
  <2>2. size \in Nat \ {0} /\ handed[p] + 1 \in Nat /\ txSeq[p] \in Nat
    BY TransportAssumption DEF TypeOK
  <2>3. segments \in Seq(Segment) /\ count \in Nat
    BY <2>2, SegmentsOfFragment, CountOfSegments DEF AllSegments
  <2>4. tpdu' = [tpdu EXCEPT ![p] = @ \o segments]
        /\ txSeq' = [txSeq EXCEPT ![p] = (@ + count) % SeqModulus]
    BY <2>1
  <2> HIDE DEF count, segments
  <2>5. tpdu[p] \o segments \in Seq(Segment)
    BY <2>3 DEF TypeOK
  <2>6. tpdu' \in [Stations -> Seq(Segment)]
    BY <2>4, <2>5 DEF TypeOK
  <2>7. (txSeq[p] + count) % SeqModulus \in Nat
    BY <2>2, <2>3, TransportAssumption
  <2>8. txSeq' \in [Stations -> Nat] /\ handed' \in [Stations -> Nat]
    BY <2>1, <2>4, <2>7 DEF CanSend, TypeOK
  <2>9. reported' \in [Stations -> SUBSET Nat]
    <3>1. reported' = [reported EXCEPT ![p] = @ \cup {handed[p] + 1}]
      BY <1>2 DEF SendUnconfirmed
    <3>2. reported[p] \cup {handed[p] + 1} \in SUBSET Nat
      BY <2>2 DEF TypeOK
    <3>3. QED
      BY <3>1, <3>2 DEF TypeOK
  <2>10. QED
    BY <1>2, <2>6, <2>8, <2>9 DEF SendUnconfirmed, TypeOK, rx
<1>3. CASE SendOdd(p)
  <2>1. PICK fir \in BOOLEAN, fin \in BOOLEAN, s \in 0..SeqModulus - 1, n \in 0..Payload :
          tpdu' = [tpdu EXCEPT ![p] =
                     Append(@, [frag |-> handed[p] + 1, own |-> FALSE, fir |-> fir, fin |-> fin,
                                seq |-> s, len |-> n])]
    BY <1>3 DEF SendOdd
  <2> DEFINE g == [frag |-> handed[p] + 1, own |-> FALSE, fir |-> fir, fin |-> fin,
                   seq |-> s, len |-> n]
  <2>2. g \in Segment
    BY TransportAssumption DEF Segment, TypeOK
  <2>3. tpdu' = [tpdu EXCEPT ![p] = Append(@, g)]
    BY <2>1
  <2> HIDE DEF g
  <2>4. tpdu' \in [Stations -> Seq(Segment)]
    <3>1. Append(tpdu[p], g) \in Seq(Segment)
      BY <2>2, Appended DEF TypeOK
    <3>2. QED
      BY <2>3, <3>1 DEF TypeOK
  <2>5. handed' \in [Stations -> Nat]
    BY <1>3 DEF SendOdd, TypeOK
  <2>6. QED
    BY <1>3, <2>4, <2>5 DEF SendOdd, TypeOK, tx, rx
<1>4. ASSUME Acknowledged(p)
      PROVE  stale' \in Nat
  BY <1>4 DEF Acknowledged, TypeOK
<1>5. CASE ContinueSend(p)
  <2>1. PICK g : g = SegmentOf(handed[p], FALSE, toSend[p], NextSeq(txSeq[p]))
    OBVIOUS
  <2>2. tpdu' = [tpdu EXCEPT ![p] = Append(@, g)] /\ toSend' = [toSend EXCEPT ![p] = @ - g.len]
        /\ toSend[p] > 0 /\ txSeq' = [txSeq EXCEPT ![p] = NextSeq(@)]
    BY <1>5, <2>1 DEF ContinueSend
  <2>3. toSend[p] \in Nat \ {0} /\ NextSeq(txSeq[p]) \in Nat
    BY <2>2, NextSeqIsNat DEF TypeOK
  <2>4. g \in Segment /\ toSend[p] - g.len \in Nat
    <3>1. handed[p] \in Nat
      BY DEF TypeOK
    <3>2. IsSegment(g, handed[p], toSend[p], NextSeq(txSeq[p]))
      BY <2>1, <2>3, <3>1, SegmentFormed, Zenon
    <3>3. QED
      BY <3>2 DEF IsSegment
  <2>5. tpdu' \in [Stations -> Seq(Segment)]
    <3>1. Append(tpdu[p], g) \in Seq(Segment)
      BY <2>4, Appended DEF TypeOK
    <3>2. QED
      BY <2>2, <3>1 DEF TypeOK
  <2>6. toSend' \in [Stations -> Nat] /\ txSeq' \in [Stations -> Nat]
    BY <2>2, <2>3, <2>4 DEF TypeOK
  <2>7. QED
    BY <1>4, <1>5, <2>5, <2>6 DEF ContinueSend, TypeOK, rx, history
<1>6. CASE FinishSend(p)
  <2>1. txSeq' \in [Stations -> Nat]
    BY <1>6, NextSeqIsNat DEF FinishSend, TypeOK
  <2>2. state' \in [Stations -> {"Closed", "Ready", "Sending"}] /\ reported' \in [Stations -> SUBSET Nat]
    BY <1>6 DEF FinishSend, TypeOK
  <2>3. QED
    BY <1>4, <1>6, <2>1, <2>2 DEF FinishSend, TypeOK, rx, link
<1>7. CASE HandleSendFailure(p)
  BY <1>7 DEF HandleSendFailure, TypeOK, tx, rx, link, history
<1>8. QED
  BY <1>1, <1>2, <1>3, <1>5, <1>6, <1>7 DEF Sending

\* Of a segment that is read.
LEMMA TypesOfReceiving ==
  ASSUME TypeOK, NEW p \in Stations, HandleReceive(p)
  PROVE  TypeOK'
<1>1. PICK n \in LastDelivered(p) + 1 .. Sent(Other(p)) :
        RefuseSegment(p, n) \/ OverflowSegment(p, n) \/ AcceptSegment(p, n)
  BY DEF HandleReceive
<1> DEFINE t == tpdu[Other(p)][n]
<1>2. LastDelivered(p) \in Nat
  BY DEF LastDelivered, TypeOK
<1>3. Sent(Other(p)) \in Nat
  BY Others DEF Sent, TypeOK
<1>4. n \in Nat /\ n \in 1..Len(tpdu[Other(p)])
  BY <1>2, <1>3 DEF Sent
<1>5. t \in Segment /\ t.seq \in Nat /\ t.len \in Nat
  BY <1>4, SegmentTypes, Others DEF TypeOK
<1> HIDE DEF t
<1>6. /\ SeqFor(p, t) \in Nat /\ NextSeq(SeqFor(p, t)) \in Nat
      /\ ReadFor(p, t) \in Nat /\ ReadFor(p, t) + t.len \in Nat /\ BufferFor(p, t) \in Seq(Nat)
  <2>1. rxSeq[p] \in Nat /\ numRead[p] \in Nat /\ buffer[p] \in Seq(Nat)
    BY DEF TypeOK
  <2>2. SeqFor(p, t) \in Nat
    BY <1>5, <2>1 DEF SeqFor
  <2>3. ReadFor(p, t) \in Nat
    BY <2>1 DEF ReadFor
  <2>4. BufferFor(p, t) \in Seq(Nat)
    BY <2>1 DEF BufferFor
  <2>5. ReadFor(p, t) + t.len \in Nat
    BY <1>5, <2>3
  <2>6. NextSeq(SeqFor(p, t)) \in Nat
    BY <2>2, NextSeqIsNat
  <2>7. QED
    BY <2>2, <2>3, <2>4, <2>5, <2>6
<1>7. Append(BufferFor(p, t), n) \in Seq(Nat)
  BY <1>4, <1>6
<1>8. Arrives(p, n)
  BY <1>1 DEF RefuseSegment, OverflowSegment, AcceptSegment
<1>9. delivered' \in [Stations -> Seq(Nat)]
  <2>1. Append(delivered[p], n) \in Seq(Nat)
    BY <1>4 DEF TypeOK
  <2>2. QED
    BY <1>8, <2>1 DEF Arrives, TypeOK
<1>10. /\ rxSeq' \in [Stations -> Nat] /\ numRead' \in [Stations -> Nat]
       /\ buffer' \in [Stations -> Seq(Nat)] /\ received' \in [Stations -> Seq(Seq(Nat))]
  <2>1. ASSUME NEW x \in Nat, NEW y \in Nat, NEW b \in Seq(Nat),
               rxSeq' = [rxSeq EXCEPT ![p] = x], numRead' = [numRead EXCEPT ![p] = y],
               buffer' = [buffer EXCEPT ![p] = b]
        PROVE  /\ rxSeq' \in [Stations -> Nat] /\ numRead' \in [Stations -> Nat]
               /\ buffer' \in [Stations -> Seq(Nat)]
    BY <2>1 DEF TypeOK
  <2>2. CASE RefuseSegment(p, n)
    <3>1. \/ UNCHANGED rx
          \/ /\ rxSeq' = [rxSeq EXCEPT ![p] = SeqFor(p, t)]
             /\ numRead' = [numRead EXCEPT ![p] = ReadFor(p, t)]
             /\ buffer' = [buffer EXCEPT ![p] = BufferFor(p, t)]
      BY <2>2 DEF RefuseSegment, t
    <3>2. received' = received
      BY <2>2 DEF RefuseSegment
    <3>3. QED
      BY <1>6, <2>1, <3>1, <3>2 DEF rx, TypeOK
  <2>3. CASE OverflowSegment(p, n)
    <3>1. /\ rxSeq' = [rxSeq EXCEPT ![p] = SeqFor(p, t)]
          /\ numRead' = [numRead EXCEPT ![p] = 0] /\ buffer' = [buffer EXCEPT ![p] = <<>>]
          /\ received' = received
      BY <2>3 DEF OverflowSegment, t
    <3>2. <<>> \in Seq(Nat)
      OBVIOUS
    <3>3. QED
      BY <1>6, <2>1, <3>1, <3>2 DEF TypeOK
  <2>4. CASE AcceptSegment(p, n)
    <3>1. Append(received[p], Append(BufferFor(p, t), n)) \in Seq(Seq(Nat))
      BY <1>7 DEF TypeOK
    <3>2. /\ rxSeq' = [rxSeq EXCEPT ![p] = NextSeq(SeqFor(p, t))]
          /\ \/ /\ numRead' = [numRead EXCEPT ![p] = 0] /\ buffer' = [buffer EXCEPT ![p] = <<>>]
                /\ received' = [received EXCEPT ![p] = Append(@, Append(BufferFor(p, t), n))]
             \/ /\ numRead' = [numRead EXCEPT ![p] = ReadFor(p, t) + t.len]
                /\ buffer' = [buffer EXCEPT ![p] = Append(BufferFor(p, t), n)]
                /\ received' = received
      BY <2>4 DEF AcceptSegment, t
    <3>3. <<>> \in Seq(Nat)
      OBVIOUS
    <3>4. received' \in [Stations -> Seq(Seq(Nat))]
      BY <3>1, <3>2 DEF TypeOK
    <3>5. QED
      BY <1>6, <1>7, <2>1, <3>2, <3>3, <3>4
  <2>5. QED
    BY <1>1, <2>2, <2>3, <2>4
<1>11. QED
  BY <1>8, <1>9, <1>10 DEF Arrives, TypeOK, tx

LEMMA TypesHold ==
  ASSUME TypeOK, Next
  PROVE  TypeOK'
<1>1. PICK p \in Stations : LowerLayerUp(p) \/ LowerLayerDown(p) \/ Sending(p) \/ HandleReceive(p)
  BY DEF Next
<1>2. CASE LowerLayerUp(p)
  BY <1>2 DEF LowerLayerUp, TypeOK, tx, rx, link, history
<1>3. CASE LowerLayerDown(p)
  <2>1. rxSeq' \in [Stations -> Nat] /\ numRead' \in [Stations -> Nat] /\ buffer' \in [Stations -> Seq(Nat)]
        /\ state' \in [Stations -> {"Closed", "Ready", "Sending"}] /\ downs' \in Nat
    BY <1>3 DEF LowerLayerDown, TypeOK
  <2>2. cut' \in [Stations -> SUBSET Nat]
    <3>1. cut' = [cut EXCEPT ![Other(p)] = @ \cup {handed[Other(p)]}]
      BY <1>3 DEF LowerLayerDown
    <3>2. cut[Other(p)] \cup {handed[Other(p)]} \in SUBSET Nat
      BY Others DEF TypeOK
    <3>3. QED
      BY <3>1, <3>2 DEF TypeOK
  <2>3. QED
    BY <1>3, <2>1, <2>2 DEF LowerLayerDown, TypeOK, tx
<1>4. QED
  BY <1>1, <1>2, <1>3, TypesOfSending, TypesOfReceiving

---------------------------------------------------------------------------
(* The senders *)

LEMMA SenderKept ==
  ASSUME NEW q, Sender(q), tpdu'[q] = tpdu[q], handed'[q] = handed[q], toSend'[q] = toSend[q],
         state'[q] = "Sending" => state[q] = "Sending"
  PROVE  Sender(q)'
BY DEF Sender

\* A step of p leaves the sender of the other station alone.
LEMMA SenderOfOther ==
  ASSUME TypeOK, NEW p \in Stations, Sending(p), NEW q \in Stations, q # p, Sender(q)
  PROVE  Sender(q)'
<1>1. /\ tpdu'[q] = tpdu[q] /\ handed'[q] = handed[q] /\ toSend'[q] = toSend[q]
      /\ state'[q] = state[q]
  <2>1. CASE Send(p)
    BY <2>1 DEF Send, CanSend, TypeOK
  <2>2. CASE SendUnconfirmed(p)
    BY <2>2 DEF SendUnconfirmed, CanSend, TypeOK
  <2>3. CASE SendOdd(p)
    BY <2>3 DEF SendOdd, TypeOK, tx
  <2>4. CASE ContinueSend(p)
    BY <2>4 DEF ContinueSend, TypeOK, history
  <2>5. CASE FinishSend(p) \/ HandleSendFailure(p)
    BY <2>5 DEF FinishSend, HandleSendFailure, TypeOK, tx, link, history
  <2>6. QED
    BY <2>1, <2>2, <2>3, <2>4, <2>5 DEF Sending
<1>2. QED
  BY <1>1, SenderKept

\* What a station has handed its link only grows.
LEMMA SenderSends ==
  ASSUME TypeOK, NEW p \in Stations, Sender(p), Sending(p)
  PROVE  Sender(p)' /\ Extends(tpdu'[p], tpdu[p])
<1>1. tpdu[p] \in Seq(Segment) /\ handed[p] \in Nat /\ toSend[p] \in Nat /\ txSeq[p] \in Nat
  BY DEF TypeOK
<1>2. Formed(tpdu[p], handed[p])
  BY DEF Sender
<1>3. CASE Send(p)
  <2>1. PICK size \in 1..FragSize[p] :
          LET first == SegmentOf(handed[p] + 1, TRUE, size, txSeq[p])
          IN  /\ CanSend(p, size)
              /\ tpdu' = [tpdu EXCEPT ![p] = Append(@, first)]
              /\ toSend' = [toSend EXCEPT ![p] = size - first.len]
    BY <1>3, Zenon DEF Send
  <2>2. size \in Nat \ {0} /\ handed[p] + 1 \in Nat
    BY TransportAssumption, <1>1
  <2>3. PICK g : g = SegmentOf(handed[p] + 1, TRUE, size, txSeq[p])
    OBVIOUS
  <2>4. IsSegment(g, handed[p] + 1, size, txSeq[p])
    BY <1>1, <2>2, <2>3, SegmentFormed, Zenon
  <2>5. /\ tpdu'[p] = Append(tpdu[p], g) /\ toSend'[p] = size - g.len
        /\ handed'[p] = handed[p] + 1
    BY <2>1, <2>3 DEF CanSend, TypeOK
  <2>6. Extends(tpdu'[p], tpdu[p]) /\ Formed(tpdu'[p], handed'[p])
        /\ (~g.fin => Unfinished(tpdu'[p], handed'[p]))
    BY <1>1, <1>2, <2>2, <2>4, <2>5, Appended, FormedAppend DEF IsSegment
  <2>7. toSend'[p] > 0 => ~g.fin
    BY <2>4, <2>5 DEF IsSegment
  <2>8. QED
    BY <1>1, <2>5, <2>6, <2>7 DEF Sender
<1>4. CASE SendUnconfirmed(p)
  <2>1. PICK size \in 1..FragSize[p] :
          /\ CanSend(p, size)
          /\ tpdu' = [tpdu EXCEPT ![p] = @ \o SegmentsFor(handed[p] + 1, txSeq[p], size)]
    BY <1>4, Zenon DEF SendUnconfirmed, SegmentsFor
  <2>2. size \in Nat \ {0} /\ handed[p] + 1 \in Nat
    BY TransportAssumption, <1>1
  <2> DEFINE segments == SegmentsFor(handed[p] + 1, txSeq[p], size)
  <2>3. segments \in Seq(Segment)
        /\ \A i \in 1..Len(segments) :
             segments[i].frag = handed[p] + 1 /\ (i < Len(segments) => ~segments[i].fin)
    <3>1. AllSegments(segments, handed[p] + 1, txSeq[p])
      BY <1>1, <2>2, SegmentsOfFragment
    <3> HIDE DEF segments
    <3>2. segments \in Seq(Segment)
          /\ \A i \in 1..Len(segments) :
               segments[i].frag = handed[p] + 1 /\ (segments[i].fin <=> i = Len(segments))
      BY <3>1, Zenon DEF AllSegments
    <3>3. QED
      BY <3>2
  <2>4. /\ tpdu'[p] = tpdu[p] \o segments /\ handed'[p] = handed[p] + 1 /\ state'[p] = "Ready"
    BY <1>4, <2>1 DEF SendUnconfirmed, CanSend, TypeOK
  <2> HIDE DEF segments
  <2>5. Extends(tpdu'[p], tpdu[p]) /\ Formed(tpdu'[p], handed'[p])
    BY <1>1, <1>2, <2>3, <2>4, FormedConcat
  <2>6. QED
    BY <2>4, <2>5 DEF Sender
<1>5. CASE SendOdd(p)
  <2>1. PICK fir \in BOOLEAN, fin \in BOOLEAN, s \in 0..SeqModulus - 1, n \in 0..Payload :
          tpdu' = [tpdu EXCEPT ![p] =
                     Append(@, [frag |-> handed[p] + 1, own |-> FALSE, fir |-> fir, fin |-> fin,
                                seq |-> s, len |-> n])]
    BY <1>5 DEF SendOdd
  <2> DEFINE g == [frag |-> handed[p] + 1, own |-> FALSE, fir |-> fir, fin |-> fin,
                   seq |-> s, len |-> n]
  <2>2. g \in Segment /\ g.frag = handed[p] + 1 /\ handed[p] + 1 \in Nat
    BY <1>1, TransportAssumption DEF Segment
  <2>3. /\ tpdu'[p] = Append(tpdu[p], g) /\ handed'[p] = handed[p] + 1 /\ state'[p] = "Ready"
    BY <1>5, <2>1 DEF SendOdd, TypeOK
  <2> HIDE DEF g
  <2>4. Extends(tpdu'[p], tpdu[p]) /\ Formed(tpdu'[p], handed'[p])
    BY <1>1, <1>2, <2>2, <2>3, Appended, FormedAppend
  <2>5. QED
    BY <2>3, <2>4 DEF Sender
<1>6. CASE ContinueSend(p)
  <2>1. PICK g : g = SegmentOf(handed[p], FALSE, toSend[p], NextSeq(txSeq[p]))
    OBVIOUS
  <2>2. /\ tpdu'[p] = Append(tpdu[p], g) /\ toSend'[p] = toSend[p] - g.len
        /\ toSend[p] > 0 /\ state[p] = "Sending" /\ handed'[p] = handed[p] /\ state'[p] = "Sending"
    BY <1>6, <2>1 DEF ContinueSend, Acknowledged, history, TypeOK
  <2>3. toSend[p] \in Nat \ {0} /\ NextSeq(txSeq[p]) \in Nat
    <3>1. toSend[p] \in Nat \ {0}
      BY <1>1, <2>2
    <3>2. QED
      BY <1>1, <3>1, NextSeqIsNat
  <2>4. IsSegment(g, handed[p], toSend[p], NextSeq(txSeq[p]))
    BY <1>1, <2>1, <2>3, SegmentFormed, Zenon
  <2>5. 1 <= handed[p] /\ Unfinished(tpdu[p], handed[p])
    BY <2>2 DEF Sender
  <2>6. Extends(tpdu'[p], tpdu[p]) /\ Formed(tpdu'[p], handed'[p])
        /\ (~g.fin => Unfinished(tpdu'[p], handed'[p]))
    BY <1>1, <1>2, <2>2, <2>4, <2>5, Appended, FormedAppend DEF IsSegment
  <2>7. toSend'[p] > 0 => ~g.fin
    BY <2>2, <2>4 DEF IsSegment
  <2>8. QED
    BY <2>2, <2>5, <2>6, <2>7 DEF Sender
<1>7. CASE FinishSend(p) \/ HandleSendFailure(p)
  <2>1. /\ tpdu'[p] = tpdu[p] /\ handed'[p] = handed[p] /\ toSend'[p] = toSend[p]
        /\ state'[p] = "Ready"
    BY <1>7 DEF FinishSend, HandleSendFailure, TypeOK, tx, link, history
  <2>2. QED
    BY <1>1, <2>1, SenderKept DEF Extends
<1>8. QED
  BY <1>3, <1>4, <1>5, <1>6, <1>7 DEF Sending

---------------------------------------------------------------------------
(* The receivers *)

LEMMA LastDeliveredIsNat ==
  ASSUME TypeOK, NEW p \in Stations
  PROVE  LastDelivered(p) \in Nat
<1>1. delivered[p] \in Seq(Nat)
  BY DEF TypeOK
<1>2. delivered[p] # <<>> => delivered[p][Len(delivered[p])] \in Nat
  BY <1>1
<1>3. QED
  BY <1>2 DEF LastDelivered

LEMMA Widened ==
  ASSUME NEW l \in Nat, NEW k \in Nat, l <= k, NEW s \in Seq(1..l)
  PROVE  s \in Seq(1..k)
<1>1. 1..l \subseteq 1..k
  OBVIOUS
<1>2. QED
  BY <1>1

LEMMA LastOpIn ==
  ASSUME NEW l \in Nat, NEW s \in Seq(1..l), s # <<>>
  PROVE  LastOp(s) \in 1..l /\ Len(s) \in 1..Len(s)
BY DEF LastOp

\* The last operation of a sequence that was added to.
LEMMA LastOpOfAppend ==
  ASSUME NEW c \in Seq(Nat), NEW n \in Nat
  PROVE  /\ Append(c, n) \in Seq(Nat) /\ Append(c, n) # <<>> /\ LastOp(Append(c, n)) = n
         /\ Len(Append(c, n)) = Len(c) + 1 /\ Len(c) \in Nat
         /\ \A i \in 1..Len(c) : Append(c, n)[i] = c[i]
         /\ Append(c, n)[Len(c) + 1] = n
<1>1. /\ Append(c, n) \in Seq(Nat) /\ Len(Append(c, n)) = Len(c) + 1 /\ Len(c) \in Nat
      /\ \A i \in 1..Len(c) : Append(c, n)[i] = c[i]
      /\ Append(c, n)[Len(c) + 1] = n
  BY SequenceTypes
<1>2. QED
  BY <1>1 DEF LastOp

\* More segments on the sending side change nothing of what was received.
LEMMA ReceiverKept ==
  ASSUME TypeOK, TypeOK', NEW p \in Stations, Receiver(p),
         Holds(buffer[p], numRead[p], FragSize[p], tpdu[Other(p)]),
         Extends(tpdu'[Other(p)], tpdu[Other(p)]),
         delivered'[p] = delivered[p], received'[p] = received[p],
         \/ buffer'[p] = buffer[p] /\ numRead'[p] = numRead[p]
         \/ buffer'[p] = <<>> /\ numRead'[p] = 0
  PROVE  Receiver(p)' /\ Holds(buffer'[p], numRead'[p], FragSize[p], tpdu'[Other(p)])
<1> DEFINE t == tpdu[Other(p)]
           u == tpdu'[Other(p)]
           l == LastDelivered(p)
<1>1. t \in Seq(Segment) /\ u \in Seq(Segment) /\ l \in Nat /\ l <= Len(t) /\ Len(t) <= Len(u)
  <2>1. t \in Seq(Segment) /\ u \in Seq(Segment)
    BY Others DEF TypeOK
  <2>2. l \in Nat
    BY LastDeliveredIsNat
  <2>3. l <= Len(t) /\ Len(t) <= Len(u)
    BY DEF Receiver, Extends, Sent
  <2>4. QED
    BY <2>1, <2>2, <2>3
<1>2. LastDelivered(p)' = l
  BY DEF LastDelivered
<1>3. \A n \in 1..l : u[n] = t[n]
  BY <1>1 DEF Extends
<1>4. buffer[p] \in Seq(1..l) /\ PutTogether(received[p], l, t)
  BY DEF Receiver
<1>5. Holds(buffer[p], numRead[p], FragSize[p], t)
  OBVIOUS
<1>6. Sent(Other(p))' = Len(u)
  BY DEF Sent
<1> HIDE DEF t, l, u
<1>7. PutTogether(received[p], l, u)
  BY <1>1, <1>3, <1>4, LastOpIn DEF PutTogether
<1>8. Holds(buffer[p], numRead[p], FragSize[p], u)
  BY <1>1, <1>3, <1>4, <1>5 DEF Holds
<1>9. Holds(<<>>, 0, FragSize[p], u)
  BY TransportAssumption DEF Holds
<1>10. <<>> \in Seq(1..l)
  OBVIOUS
<1>11. buffer'[p] \in Seq(1..l) /\ Holds(buffer'[p], numRead'[p], FragSize[p], u)
  BY <1>4, <1>8, <1>9, <1>10
<1>12. Receiver(p)'
  <2>1. LastDelivered(p)' <= Sent(Other(p))'
    BY <1>1, <1>2, <1>6
  <2>2. received'[p] = received[p]
    OBVIOUS
  <2>3. QED
    BY <1>2, <1>7, <1>11, <2>1, <2>2 DEF Receiver, u
<1>13. QED
  BY <1>11, <1>12 DEF u

\* One more segment in the buffer.
LEMMA HoldsMore ==
  ASSUME NEW b \in Seq(Nat), NEW n \in Nat, NEW f \in Nat, NEW t, NEW m \in Nat,
         Holds(b, n, f, t), t[m].fir <=> b = <<>>, ~t[m].fin, t[m].len = Payload, n + Payload <= f
  PROVE  Holds(Append(b, m), n + Payload, f, t)
<1> DEFINE c == Append(b, m)
<1>1. /\ Len(c) = Len(b) + 1 /\ c[Len(b) + 1] = m /\ Len(b) \in Nat
      /\ \A i \in 1..Len(b) : c[i] = b[i]
  BY SequenceTypes
<1>2. b = <<>> <=> Len(b) = 0
  OBVIOUS
<1> HIDE DEF c
<1>3. n + Payload = Payload * Len(c)
  BY <1>1, TransportAssumption DEF Holds
<1>4. ASSUME NEW i \in 1..Len(c)
      PROVE  (t[c[i]].fir <=> (i = 1)) /\ ~t[c[i]].fin /\ t[c[i]].len = Payload
  <2>1. CASE i \in 1..Len(b)
    BY <1>1, <2>1 DEF Holds
  <2>2. CASE i \notin 1..Len(b)
    <3>1. i = Len(b) + 1 /\ c[i] = m
      BY <1>1, <2>2
    <3>2. i = 1 <=> b = <<>>
      BY <1>1, <1>2, <3>1
    <3>3. QED
      BY <3>1, <3>2
  <2>3. QED
    BY <2>1, <2>2
<1>5. QED
  BY <1>3, <1>4 DEF Holds, c

\* One more fragment put together, of which operation n is the last.
LEMMA PutTogetherMore ==
  ASSUME NEW l \in Nat, NEW n \in Nat, l < n, NEW t, NEW r \in Seq(Seq(Nat)), PutTogether(r, l, t),
         NEW c \in Seq(1..n), c # <<>>, LastOp(c) = n, t[n].fin
  PROVE  PutTogether(r, n, t) /\ PutTogether(Append(r, c), n, t)
<1>1. PutTogether(r, n, t)
  BY Widened DEF PutTogether
<1> DEFINE s == Append(r, c)
<1>2. c \in Seq(Nat)
  <2>1. 1..n \subseteq Nat
    OBVIOUS
  <2>2. QED
    BY <2>1
<1>3. /\ Len(s) = Len(r) + 1 /\ s[Len(r) + 1] = c /\ Len(r) \in Nat
      /\ \A i \in 1..Len(r) : s[i] = r[i]
  BY <1>2, SequenceTypes
<1> HIDE DEF s
<1>4. \A i \in 1..Len(s) : i \in 1..Len(r) \/ (i = Len(r) + 1 /\ s[i] = c)
  BY <1>3
<1>5. \A i \in 1..Len(s) : s[i] \in Seq(1..n) /\ s[i] # <<>> /\ t[LastOp(s[i])].fin
  BY <1>1, <1>3, <1>4 DEF PutTogether
<1>6. ASSUME NEW i \in 1..Len(s), NEW j \in 1..Len(s), i < j
      PROVE  LastOp(s[i]) < LastOp(s[j])
  <2>1. i \in 1..Len(r)
    BY <1>3, <1>6
  <2>2. CASE j \in 1..Len(r)
    BY <1>3, <1>6, <2>1, <2>2 DEF PutTogether
  <2>3. CASE s[j] = c
    <3>1. LastOp(r[i]) \in 1..l
      BY <2>1, LastOpIn DEF PutTogether
    <3>2. QED
      BY <1>3, <2>1, <2>3, <3>1
  <2>4. QED
    BY <1>4, <2>2, <2>3
<1>7. QED
  BY <1>1, <1>5, <1>6 DEF PutTogether, s

LEMMA ReceiverReads ==
  ASSUME TypeOK, NEW p \in Stations, Receiver(p),
         Holds(buffer[p], numRead[p], FragSize[p], tpdu[Other(p)]), HandleReceive(p)
  PROVE  Receiver(p)' /\ Holds(buffer'[p], numRead'[p], FragSize[p], tpdu'[Other(p)])
<1>1. PICK n \in LastDelivered(p) + 1 .. Sent(Other(p)) :
        RefuseSegment(p, n) \/ OverflowSegment(p, n) \/ AcceptSegment(p, n)
  BY DEF HandleReceive
<1> DEFINE u == tpdu[Other(p)]
           t == u[n]
           l == LastDelivered(p)
<1>2. l \in Nat /\ u \in Seq(Segment) /\ Sent(Other(p)) = Len(u)
  BY LastDeliveredIsNat, Others DEF TypeOK, Sent
<1>3. n \in Nat /\ l < n /\ n \in 1..Len(u)
  BY <1>2
<1>4. Arrives(p, n)
  BY <1>1 DEF RefuseSegment, OverflowSegment, AcceptSegment
<1>5. tpdu' = tpdu
  BY <1>4 DEF Arrives
<1>6. LastDelivered(p)' = n
  <2>1. delivered'[p] = Append(delivered[p], n) /\ delivered[p] \in Seq(Nat)
    BY <1>4 DEF Arrives, TypeOK
  <2>2. delivered'[p] # <<>> /\ LastOp(delivered'[p]) = n
    BY <1>3, <2>1, LastOpOfAppend
  <2>3. QED
    BY <2>2 DEF LastDelivered, LastOp
<1>7. /\ buffer[p] \in Seq(1..l) /\ PutTogether(received[p], l, u)
      /\ Holds(buffer[p], numRead[p], FragSize[p], u)
  BY DEF Receiver
<1>8. buffer[p] \in Seq(Nat) /\ received[p] \in Seq(Seq(Nat)) /\ numRead[p] \in Nat
      /\ FragSize[p] \in Nat /\ Payload \in Nat \ {0}
  BY TransportAssumption DEF TypeOK
<1>9. t.fir \in BOOLEAN /\ t.fin \in BOOLEAN
  BY <1>2, <1>3, SegmentTypes
<1> DEFINE b == BufferFor(p, t)
           c == Append(b, n)
<1>10. /\ t.fir => b = <<>> /\ ReadFor(p, t) = 0
       /\ ~t.fir => b = buffer[p] /\ ReadFor(p, t) = numRead[p]
  BY DEF BufferFor, ReadFor
<1> HIDE DEF u, t, l, b
<1>11. Holds(<<>>, 0, FragSize[p], u) /\ <<>> \in Seq(1..l) /\ <<>> \in Seq(Nat)
  BY <1>8 DEF Holds
<1>12. b \in Seq(1..l) /\ b \in Seq(Nat) /\ Holds(b, ReadFor(p, t), FragSize[p], u)
  <2>1. CASE t.fir
    BY <1>10, <1>11, <2>1
  <2>2. CASE ~t.fir
    BY <1>7, <1>8, <1>10, <2>2
  <2>3. QED
    BY <2>1, <2>2
<1>13. PutTogether(received[p], n, u)
  BY <1>2, <1>3, <1>7, Widened DEF PutTogether
<1>14. SUFFICES /\ buffer'[p] \in Seq(1..n) /\ PutTogether(received'[p], n, u)
                /\ Holds(buffer'[p], numRead'[p], FragSize[p], u)
  <2>1. n <= Sent(Other(p))'
    BY <1>2, <1>3, <1>5 DEF Sent
  <2>2. QED
    BY <1>5, <1>6, <2>1 DEF Receiver, u
<1>15. CASE RefuseSegment(p, n) \/ OverflowSegment(p, n)
  <2>1. /\ received'[p] = received[p]
        /\ \/ buffer'[p] = buffer[p] /\ numRead'[p] = numRead[p]
           \/ buffer'[p] = b /\ numRead'[p] = ReadFor(p, t)
           \/ buffer'[p] = <<>> /\ numRead'[p] = 0
    BY <1>15 DEF RefuseSegment, OverflowSegment, rx, TypeOK, t, u, b
  <2>2. buffer'[p] \in Seq(1..l) /\ Holds(buffer'[p], numRead'[p], FragSize[p], u)
    BY <1>7, <1>11, <1>12, <2>1
  <2>3. QED
    BY <1>2, <1>3, <1>13, <2>1, <2>2, Widened
<1>16. CASE AcceptSegment(p, n)
  <2>1. ValidateHeader(p, t) /\ Fits(p, t)
    BY <1>16 DEF AcceptSegment, t, u
  <2>2. \/ /\ t.fin /\ numRead'[p] = 0 /\ buffer'[p] = <<>>
           /\ received'[p] = Append(received[p], c)
        \/ /\ ~t.fin /\ numRead'[p] = ReadFor(p, t) + t.len /\ buffer'[p] = c
           /\ received'[p] = received[p]
    BY <1>16 DEF AcceptSegment, TypeOK, t, u, b
  <2>3. c \in Seq(1..n) /\ c # <<>> /\ LastOp(c) = n
    <3>1. b \in Seq(1..n) /\ n \in 1..n
      BY <1>2, <1>3, <1>12, Widened
    <3>2. c \in Seq(1..n) /\ Len(c) = Len(b) + 1 /\ c[Len(b) + 1] = n /\ Len(b) \in Nat
      BY <3>1, SequenceTypes
    <3> HIDE DEF c
    <3>3. c # <<>>
      BY <3>2
    <3>4. QED
      BY <3>2, <3>3 DEF LastOp
  <2>4. CASE t.fin
    <3>1. u[n].fin
      BY <2>4 DEF t
    <3>2. PutTogether(Append(received[p], c), n, u)
      BY <1>2, <1>3, <1>7, <1>8, <2>3, <3>1, PutTogetherMore
    <3>3. <<>> \in Seq(1..n)
      OBVIOUS
    <3>4. QED
      BY <1>11, <2>2, <2>4, <3>2, <3>3
  <2>5. CASE ~t.fin
    <3>1. t.len = Payload /\ ReadFor(p, t) + Payload <= FragSize[p] /\ (t.fir \/ numRead[p] > 0)
      BY <2>1, <2>5 DEF ValidateHeader, Fits
    <3>2. t.fir <=> b = <<>>
      <4>1. ASSUME ~t.fir PROVE b # <<>>
        <5>1. numRead[p] > 0 /\ b = buffer[p] /\ numRead[p] = Payload * Len(buffer[p])
          BY <1>7, <1>10, <3>1, <4>1 DEF Holds
        <5>2. Len(buffer[p]) # 0
          BY <1>8, <5>1
        <5>3. QED
          BY <5>1, <5>2
      <4>2. QED
        BY <1>10, <4>1
    <3>3. ReadFor(p, t) \in Nat
      BY <1>8, <1>9, <1>10
    <3>4. Holds(c, ReadFor(p, t) + Payload, FragSize[p], u)
      BY <1>3, <1>8, <1>12, <2>5, <3>1, <3>2, <3>3, HoldsMore DEF t
    <3>5. QED
      BY <1>13, <2>2, <2>3, <2>5, <3>1, <3>4
  <2>6. QED
    BY <1>9, <2>4, <2>5
<1>17. QED
  BY <1>1, <1>15, <1>16

---------------------------------------------------------------------------
(* The theorems *)

LEMMA InitIInv ==
  ASSUME Init
  PROVE  IInv
<1>1. TypeOK
  BY DEF Init, TypeOK
<1>2. ASSUME NEW p \in Stations
      PROVE  Sender(p) /\ Receiver(p) /\ Holds(buffer[p], numRead[p], FragSize[p], tpdu[Other(p)])
  <2>1. /\ tpdu[p] = <<>> /\ tpdu[Other(p)] = <<>> /\ delivered[p] = <<>> /\ buffer[p] = <<>>
        /\ received[p] = <<>> /\ numRead[p] = 0 /\ state[p] = "Closed"
    BY Others DEF Init
  <2>2. FragSize[p] \in Nat /\ Payload \in Nat
    BY TransportAssumption
  <2>3. Sender(p)
    BY <2>1 DEF Sender, Formed
  <2>4. Receiver(p)
    BY <2>1 DEF Receiver, PutTogether, LastDelivered, Sent
  <2>5. QED
    BY <2>1, <2>2, <2>3, <2>4 DEF Holds
<1>3. QED
  BY <1>1, <1>2 DEF IInv

LEMMA NextIInv ==
  ASSUME IInv, [Next]_vars
  PROVE  IInv'
<1>1. CASE Next
  <2>1. TypeOK /\ TypeOK'
    BY <1>1, TypesHold DEF IInv
  <2>2. PICK p \in Stations : LowerLayerUp(p) \/ LowerLayerDown(p) \/ Sending(p) \/ HandleReceive(p)
    BY <1>1 DEF Next
  <2>3. ASSUME NEW q \in Stations
        PROVE  Sender(q) /\ Receiver(q) /\ Holds(buffer[q], numRead[q], FragSize[q], tpdu[Other(q)])
    BY DEF IInv
  <2>4. ASSUME NEW q \in Stations, tpdu' = tpdu PROVE Extends(tpdu'[q], tpdu[q])
    BY <2>1, <2>4 DEF Extends, TypeOK
  <2>5. ASSUME NEW q \in Stations
        PROVE  Sender(q)' /\ Receiver(q)'
               /\ Holds(buffer'[q], numRead'[q], FragSize[q], tpdu'[Other(q)])
    <3>1. CASE LowerLayerUp(p)
      <4>1. /\ tpdu' = tpdu /\ handed' = handed /\ toSend' = toSend /\ delivered' = delivered
            /\ received' = received /\ buffer' = buffer /\ numRead' = numRead
            /\ (state'[q] = "Sending" => state[q] = "Sending")
        BY <2>1, <3>1 DEF LowerLayerUp, tx, rx, link, history, TypeOK
      <4>2. QED
        BY <2>1, <2>3, <2>4, <4>1, SenderKept, ReceiverKept, Others
    <3>2. CASE LowerLayerDown(p)
      <4>1. /\ tpdu' = tpdu /\ handed' = handed /\ toSend' = toSend /\ delivered' = delivered
            /\ received' = received
            /\ \/ buffer'[q] = buffer[q] /\ numRead'[q] = numRead[q]
               \/ buffer'[q] = <<>> /\ numRead'[q] = 0
            /\ (state'[q] = "Sending" => state[q] = "Sending")
        BY <2>1, <3>2 DEF LowerLayerDown, tx, TypeOK
      <4>2. QED
        BY <2>1, <2>3, <2>4, <4>1, SenderKept, ReceiverKept, Others
    <3>3. CASE Sending(p)
      <4>1. Sender(q)'
        BY <2>1, <2>3, <3>3, SenderOfOther, SenderSends
      <4>2. Extends(tpdu'[Other(q)], tpdu[Other(q)])
        <5>1. CASE Other(q) = p
          BY <2>1, <2>3, <3>3, <5>1, SenderSends
        <5>2. CASE Other(q) # p
          <6>1. tpdu'[Other(q)] = tpdu[Other(q)] /\ tpdu[Other(q)] \in Seq(Segment)
            BY <2>1, <3>3, <5>2, Others DEF Sending, Send, SendUnconfirmed, SendOdd, ContinueSend,
               FinishSend, HandleSendFailure, link, TypeOK
          <6>2. QED
            BY <6>1 DEF Extends
        <5>3. QED
          BY <5>1, <5>2
      <4>3. delivered' = delivered /\ received' = received /\ buffer' = buffer /\ numRead' = numRead
        BY <3>3 DEF Sending, Send, SendUnconfirmed, SendOdd, ContinueSend, FinishSend,
           HandleSendFailure, rx, link, history
      <4>4. QED
        BY <2>1, <2>3, <4>1, <4>2, <4>3, ReceiverKept
    <3>4. CASE HandleReceive(p)
      <4>1. PICK n : RefuseSegment(p, n) \/ OverflowSegment(p, n) \/ AcceptSegment(p, n)
        BY <3>4 DEF HandleReceive
      <4>2. Arrives(p, n)
        BY <4>1 DEF RefuseSegment, OverflowSegment, AcceptSegment
      <4>3. tpdu' = tpdu /\ handed' = handed /\ toSend' = toSend /\ state' = state
        BY <4>2 DEF Arrives, tx
      <4>4. Sender(q)'
        BY <2>3, <4>3, SenderKept
      <4>5. CASE q = p
        BY <2>1, <2>3, <3>4, <4>4, <4>5, ReceiverReads
      <4>6. CASE q # p
        <5>1. delivered'[q] = delivered[q]
          BY <2>1, <4>2, <4>6 DEF Arrives, TypeOK
        <5>2. received'[q] = received[q] /\ buffer'[q] = buffer[q] /\ numRead'[q] = numRead[q]
          BY <2>1, <4>1, <4>6 DEF RefuseSegment, OverflowSegment, AcceptSegment, rx, TypeOK
        <5>3. QED
          BY <2>1, <2>3, <2>4, <4>3, <4>4, <5>1, <5>2, ReceiverKept, Others
      <4>7. QED
        BY <4>5, <4>6
    <3>5. QED
      BY <2>2, <3>1, <3>2, <3>3, <3>4
  <2>6. QED
    BY <2>1, <2>5 DEF IInv
<1>2. CASE UNCHANGED vars
  BY <1>2 DEF IInv, TypeOK, Sender, Receiver, LastDelivered, Sent, vars, tx, rx, link, history
<1>3. QED
  BY <1>1, <1>2

LEMMA Invariance == Spec => []IInv
<1>1. Init => IInv
  BY InitIInv
<1>2. IInv /\ [Next]_vars => IInv'
  BY NextIInv
<1>3. QED
  BY <1>1, <1>2, PTL DEF Spec

\* The types are right; and whatever a peer sends, TransportRx counts what its buffer holds, and
\* that is one FIR segment followed by full ones that are neither FIR nor FIN, within the buffer.
THEOREM BufferCorrect == Spec => []Consistent
<1>1. IInv => Consistent
  <2>1. ASSUME IInv, NEW p \in Stations
        PROVE  /\ numRead[p] <= FragSize[p]
               /\ numRead[p] = Payload * Len(buffer[p])
               /\ \A i \in DOMAIN buffer[p] :
                    LET t == tpdu[Other(p)][buffer[p][i]] IN t.fir = (i = 1) /\ ~t.fin /\ t.len = Payload
    <3>1. Holds(buffer[p], numRead[p], FragSize[p], tpdu[Other(p)]) /\ buffer[p] \in Seq(Nat)
      BY <2>1 DEF IInv, TypeOK
    <3>2. DOMAIN buffer[p] = 1..Len(buffer[p])
      BY <3>1
    <3>3. ASSUME NEW i \in 1..Len(buffer[p])
          PROVE  tpdu[Other(p)][buffer[p][i]].fir \in BOOLEAN
      <4>1. buffer[p] \in Seq(1..LastDelivered(p)) /\ LastDelivered(p) <= Len(tpdu[Other(p)])
        BY <2>1 DEF IInv, Receiver, Sent
      <4>2. LastDelivered(p) \in Nat /\ tpdu[Other(p)] \in Seq(Segment)
        BY <2>1, LastDeliveredIsNat, Others DEF IInv, TypeOK
      <4>3. buffer[p][i] \in 1..Len(tpdu[Other(p)])
        BY <4>1, <4>2
      <4>4. QED
        BY <4>2, <4>3, SegmentTypes
    <3>4. QED
      BY <3>1, <3>2, <3>3 DEF Holds
  <2>2. QED
    BY <2>1 DEF Consistent, BufferHoldsWhatWasRead, IInv
<1>2. QED
  BY <1>1, Invariance, PTL

---------------------------------------------------------------------------
(* Transport implements the service of a link, for fragments *)

Busy == [p \in Stations |-> state[p] = "Sending"]

\* The fragments to which the last operations of the sequences r belong, of the segments t.
Frags(t, r) == [i \in DOMAIN r |-> t[LastOp(r[i])].frag]
Got == [p \in Stations |-> FragmentsReceived(p)]

\* The steps of the service, in terms of the variables of Transport.
LEMMA ServiceSteps ==
  ASSUME NEW p \in Stations
  PROVE  /\ \A b \in BOOLEAN :
              /\ ~Busy[p]
              /\ handed' = [handed EXCEPT ![p] = @ + 1]
              /\ Busy' = [Busy EXCEPT ![p] = b]
              /\ Got' = Got
              => Fragments!Next
         /\ Busy[p] /\ Busy' = [Busy EXCEPT ![p] = FALSE] /\ handed' = handed /\ Got' = Got
              => Fragments!Next
         /\ \A n \in Fragments!LastOf(Got[p]) + 1 .. handed[Other(p)] :
              /\ Got' = [Got EXCEPT ![p] = Append(@, n)]
              /\ handed' = handed /\ Busy' = Busy
              => Fragments!Next
         /\ handed' = handed /\ Busy' = Busy /\ Got' = Got => UNCHANGED Fragments!vars
<1>1. Fragments!Stations = Stations /\ Fragments!Other(p) = Other(p)
  BY DEF Fragments!Stations, Stations, Fragments!Other, Other
<1>2. ASSUME NEW b \in BOOLEAN, ~Busy[p], handed' = [handed EXCEPT ![p] = @ + 1],
             Busy' = [Busy EXCEPT ![p] = b], Got' = Got
      PROVE  Fragments!Next
  <2>1. Fragments!Submit(p, b)
    BY <1>2, Zenon DEF Fragments!Submit, Busy, Got
  <2>2. QED
    BY <1>1, <2>1 DEF Fragments!Next
<1>3. ASSUME Busy[p], Busy' = [Busy EXCEPT ![p] = FALSE], handed' = handed, Got' = Got
      PROVE  Fragments!Next
  <2>1. Fragments!Complete(p)
    BY <1>3, Zenon DEF Fragments!Complete, Busy, Got
  <2>2. QED
    BY <1>1, <2>1 DEF Fragments!Next
<1>4. ASSUME NEW n \in Fragments!LastOf(Got[p]) + 1 .. handed[Other(p)],
             Got' = [Got EXCEPT ![p] = Append(@, n)], handed' = handed, Busy' = Busy
      PROVE  Fragments!Next
  <2>1. Fragments!Deliver(p)
    BY <1>1, <1>4, Zenon DEF Fragments!Deliver, Busy, Got
  <2>2. QED
    BY <1>1, <2>1 DEF Fragments!Next
<1>5. handed' = handed /\ Busy' = Busy /\ Got' = Got => UNCHANGED Fragments!vars
  BY Zenon DEF Fragments!vars, Busy, Got
<1>6. QED
  BY <1>2, <1>3, <1>4, <1>5

\* Whether a station waits for an outcome, after its state has changed.
LEMMA BusyAfter ==
  ASSUME TypeOK, NEW p \in Stations, NEW s, state' = [state EXCEPT ![p] = s]
  PROVE  /\ s = "Sending" => Busy' = [Busy EXCEPT ![p] = TRUE]
         /\ s # "Sending" => Busy' = [Busy EXCEPT ![p] = FALSE]
         /\ s # "Sending" /\ state[p] # "Sending" => Busy' = Busy
<1>1. \A q \in Stations : state'[q] = IF q = p THEN s ELSE state[q]
  BY DEF TypeOK
<1>2. ASSUME s = "Sending" PROVE Busy' = [Busy EXCEPT ![p] = TRUE]
  BY <1>1, <1>2 DEF Busy
<1>3. ASSUME s # "Sending" PROVE Busy' = [Busy EXCEPT ![p] = FALSE]
  BY <1>1, <1>3 DEF Busy
<1>4. ASSUME s # "Sending", state[p] # "Sending" PROVE Busy' = Busy
  BY <1>1, <1>4 DEF Busy
<1>5. QED
  BY <1>2, <1>3, <1>4

LEMMA GotIs ==
  /\ Got = [p \in Stations |-> Frags(tpdu[Other(p)], received[p])]
  /\ Got' = [p \in Stations |-> Frags(tpdu'[Other(p)], received'[p])]
BY DEF Got, FragmentsReceived, FragmentOf, Frags, LastOp

\* The fragment to which the last operation of each received sequence belongs.
LEMMA FragsAre ==
  ASSUME NEW t \in Seq(Segment), NEW l \in Nat, l <= Len(t), NEW r \in Seq(Seq(Nat)),
         PutTogether(r, l, t)
  PROVE  /\ Frags(t, r) \in Seq(Nat) /\ Len(Frags(t, r)) = Len(r)
         /\ \A i \in 1..Len(r) :
              /\ LastOp(r[i]) \in 1..l /\ LastOp(r[i]) \in 1..Len(t)
              /\ Frags(t, r)[i] = t[LastOp(r[i])].frag
<1>1. ASSUME NEW i \in 1..Len(r)
      PROVE  LastOp(r[i]) \in 1..l /\ LastOp(r[i]) \in 1..Len(t) /\ t[LastOp(r[i])].frag \in Nat
  <2>1. LastOp(r[i]) \in 1..l
    BY LastOpIn DEF PutTogether
  <2>2. LastOp(r[i]) \in 1..Len(t)
    BY <2>1
  <2>3. QED
    BY <2>1, <2>2, SegmentTypes
<1>2. Frags(t, r) = [i \in 1..Len(r) |-> t[LastOp(r[i])].frag] /\ Len(r) \in Nat
  BY DEF Frags
<1>3. QED
  BY <1>1, <1>2

LEMMA SameSequence ==
  ASSUME NEW s \in Seq(Nat), NEW u \in Seq(Nat), Len(u) = Len(s), \A i \in 1..Len(s) : u[i] = s[i]
  PROVE  u = s
OBVIOUS

\* More segments on the sending side change no fragment that was received.
LEMMA FragsKept ==
  ASSUME NEW t \in Seq(Segment), NEW u \in Seq(Segment), Extends(u, t),
         NEW l \in Nat, l <= Len(t), NEW r \in Seq(Seq(Nat)), PutTogether(r, l, t)
  PROVE  Frags(u, r) = Frags(t, r)
<1>1. ASSUME NEW i \in 1..Len(r)
      PROVE  u[LastOp(r[i])] = t[LastOp(r[i])]
  <2>1. LastOp(r[i]) \in 1..Len(t)
    BY FragsAre
  <2>2. QED
    BY <2>1 DEF Extends
<1>2. DOMAIN r = 1..Len(r)
  OBVIOUS
<1>3. QED
  BY <1>1, <1>2 DEF Frags

\* One more sequence, which ends with operation n, is one more fragment.
LEMMA FragsMore ==
  ASSUME NEW t \in Seq(Segment), NEW l \in Nat, NEW n \in 1..Len(t), l < n,
         NEW r \in Seq(Seq(Nat)), PutTogether(r, l, t), NEW c \in Seq(Nat), LastOp(c) = n
  PROVE  Frags(t, Append(r, c)) = Append(Frags(t, r), t[n].frag)
<1> DEFINE f == Frags(t, r)
           g == Frags(t, Append(r, c))
           x == t[n].frag
<1>1. f \in Seq(Nat) /\ Len(f) = Len(r) /\ \A i \in 1..Len(r) : f[i] = t[LastOp(r[i])].frag
  BY FragsAre
<1>2. /\ Append(r, c) \in Seq(Seq(Nat)) /\ Len(Append(r, c)) = Len(r) + 1 /\ Len(r) \in Nat
      /\ \A i \in 1..Len(r) : Append(r, c)[i] = r[i]
      /\ Append(r, c)[Len(r) + 1] = c
  BY SequenceTypes
<1>3. g = [i \in 1..Len(r) + 1 |-> t[LastOp(Append(r, c)[i])].frag]
  BY <1>2 DEF Frags
<1>4. x \in Nat
  BY SegmentTypes
<1>5. \A i \in 1..Len(r) : g[i] = f[i]
  BY <1>1, <1>2, <1>3
<1>6. g[Len(r) + 1] = x
  BY <1>2, <1>3
<1> HIDE DEF f, g, x
<1>7. Append(f, x) \in Seq(Nat) /\ Len(Append(f, x)) = Len(r) + 1
      /\ (\A i \in 1..Len(r) : Append(f, x)[i] = f[i]) /\ Append(f, x)[Len(r) + 1] = x
  BY <1>1, <1>4, SequenceTypes
<1>8. \A i \in 1..Len(r) + 1 : g[i] = Append(f, x)[i] /\ g[i] \in Nat
  <2>1. \A i \in 1..Len(r) + 1 : g[i] = Append(f, x)[i]
    BY <1>2, <1>5, <1>6, <1>7
  <2>2. \A i \in 1..Len(r) + 1 : Append(f, x)[i] \in Nat
    BY <1>7
  <2>3. QED
    BY <2>1, <2>2
<1>9. g \in Seq(Nat) /\ Len(g) = Len(r) + 1
  BY <1>2, <1>3, <1>8
<1>10. g = Append(f, x)
  BY <1>7, <1>8, <1>9, SameSequence
<1>11. QED
  BY <1>10 DEF f, g, x

\* The fragment a later operation belongs to is newer than every one received.
LEMMA FragsNewer ==
  ASSUME NEW t \in Seq(Segment), NEW h \in Nat, Formed(t, h),
         NEW l \in Nat, NEW n \in 1..Len(t), l < n,
         NEW r \in Seq(Seq(Nat)), PutTogether(r, l, t)
  PROVE  t[n].frag \in Fragments!LastOf(Frags(t, r)) + 1 .. h
<1>1. t[n].frag \in Nat /\ 1 <= t[n].frag /\ t[n].frag <= h
  BY SegmentTypes DEF Formed
<1>2. Frags(t, r) \in Seq(Nat) /\ Len(Frags(t, r)) = Len(r)
      /\ \A i \in 1..Len(r) : /\ LastOp(r[i]) \in 1..l /\ LastOp(r[i]) \in 1..Len(t)
                              /\ Frags(t, r)[i] = t[LastOp(r[i])].frag
  <2>1. l <= Len(t)
    OBVIOUS
  <2>2. QED
    BY <2>1, FragsAre
<1>3. CASE Frags(t, r) = <<>>
  BY <1>1, <1>3 DEF Fragments!LastOf
<1>4. CASE Frags(t, r) # <<>>
  <2>1. Len(r) \in 1..Len(r) /\ Fragments!LastOf(Frags(t, r)) = Frags(t, r)[Len(r)]
    BY <1>2, <1>4 DEF Fragments!LastOf
  <2> DEFINE k == LastOp(r[Len(r)])
  <2>2. k \in 1..l /\ k \in 1..Len(t) /\ Fragments!LastOf(Frags(t, r)) = t[k].frag /\ t[k].fin
    BY <1>2, <2>1 DEF PutTogether
  <2> HIDE DEF k
  <2>3. t[k].frag \in Nat
    BY <2>2, SegmentTypes
  <2>4. k < n
    BY <2>2
  <2>5. t[k].frag < t[n].frag
    BY <2>2, <2>4 DEF Formed
  <2>6. QED
    BY <1>1, <2>2, <2>3, <2>5
<1>5. QED
  BY <1>3, <1>4

\* No new fragment: nothing changes in what the users received.
LEMMA GotKept ==
  ASSUME IInv, TypeOK', received' = received, \A q \in Stations : Extends(tpdu'[q], tpdu[q])
  PROVE  Got' = Got
<1>1. ASSUME NEW p \in Stations
      PROVE  Frags(tpdu'[Other(p)], received'[p]) = Frags(tpdu[Other(p)], received[p])
  <2>1. /\ tpdu[Other(p)] \in Seq(Segment) /\ tpdu'[Other(p)] \in Seq(Segment)
        /\ received[p] \in Seq(Seq(Nat)) /\ Extends(tpdu'[Other(p)], tpdu[Other(p)])
    BY Others DEF IInv, TypeOK
  <2>2. LastDelivered(p) \in Nat
    BY LastDeliveredIsNat DEF IInv
  <2>3. /\ LastDelivered(p) <= Len(tpdu[Other(p)])
        /\ PutTogether(received[p], LastDelivered(p), tpdu[Other(p)])
    BY DEF IInv, Receiver, Sent
  <2>4. QED
    BY <2>1, <2>2, <2>3, FragsKept
<1>2. QED
  BY <1>1, GotIs

\* A new fragment: the one operation n belongs to, newer than those before.
LEMMA GotMore ==
  ASSUME IInv, NEW p \in Stations, NEW n \in 1..Sent(Other(p)), LastDelivered(p) < n,
         tpdu' = tpdu, NEW c \in Seq(Nat), LastOp(c) = n,
         received' = [received EXCEPT ![p] = Append(@, c)]
  PROVE  /\ Got' = [Got EXCEPT ![p] = Append(@, tpdu[Other(p)][n].frag)]
         /\ tpdu[Other(p)][n].frag \in Fragments!LastOf(Got[p]) + 1 .. handed[Other(p)]
<1>1. /\ tpdu[Other(p)] \in Seq(Segment) /\ received[p] \in Seq(Seq(Nat))
      /\ handed[Other(p)] \in Nat /\ n \in 1..Len(tpdu[Other(p)])
  BY Others DEF IInv, TypeOK, Sent
<1>2. LastDelivered(p) \in Nat
  BY LastDeliveredIsNat DEF IInv
<1>3. PutTogether(received[p], LastDelivered(p), tpdu[Other(p)])
  BY DEF IInv, Receiver
<1>4. Formed(tpdu[Other(p)], handed[Other(p)])
  BY Others DEF IInv, Sender
<1>5. Frags(tpdu[Other(p)], Append(received[p], c))
        = Append(Frags(tpdu[Other(p)], received[p]), tpdu[Other(p)][n].frag)
  BY <1>1, <1>2, <1>3, FragsMore
<1>6. tpdu[Other(p)][n].frag
        \in Fragments!LastOf(Frags(tpdu[Other(p)], received[p])) + 1 .. handed[Other(p)]
  BY <1>1, <1>2, <1>3, <1>4, FragsNewer
<1>7. Got[p] = Frags(tpdu[Other(p)], received[p])
  BY GotIs
<1>8. ASSUME NEW q \in Stations
      PROVE  received'[q] = IF q = p THEN Append(received[p], c) ELSE received[q]
  BY DEF IInv, TypeOK
<1>9. Got' = [Got EXCEPT ![p] = Append(@, tpdu[Other(p)][n].frag)]
  <2>1. ASSUME NEW q \in Stations
        PROVE  Got'[q] = IF q = p THEN Append(Got[p], tpdu[Other(p)][n].frag) ELSE Got[q]
    <3>1. Got'[q] = Frags(tpdu[Other(q)], received'[q]) /\ Got[q] = Frags(tpdu[Other(q)], received[q])
      BY GotIs
    <3>2. CASE q = p
      BY <1>5, <1>7, <1>8, <3>1, <3>2
    <3>3. CASE q # p
      BY <1>8, <3>1, <3>3
    <3>4. QED
      BY <3>2, <3>3
  <2>2. Got' = [q \in Stations |-> Got'[q]] /\ Got = [q \in Stations |-> Got[q]]
    BY DEF Got
  <2>3. QED
    BY <2>1, <2>2, Zenon
<1>10. QED
  BY <1>6, <1>7, <1>9

\* The links only gain segments.
LEMMA LinksExtend ==
  ASSUME IInv, NEW p \in Stations, Sending(p)
  PROVE  \A q \in Stations : Extends(tpdu'[q], tpdu[q])
<1>1. TypeOK /\ Sender(p)
  BY DEF IInv
<1>2. ASSUME NEW q \in Stations PROVE Extends(tpdu'[q], tpdu[q])
  <2>1. CASE q = p
    BY <1>1, <2>1, SenderSends
  <2>2. CASE q # p
    <3>1. tpdu'[q] = tpdu[q] /\ tpdu[q] \in Seq(Segment)
      BY <1>1, <2>2 DEF Sending, Send, SendUnconfirmed, SendOdd, ContinueSend, FinishSend,
         HandleSendFailure, link, TypeOK
    <3>2. QED
      BY <3>1 DEF Extends
  <2>3. QED
    BY <2>1, <2>2
<1>3. QED
  BY <1>2

\* Every step is one of the service of a link for fragments, or none.
LEMMA StepIsFragments ==
  ASSUME IInv, TypeOK', NEW p \in Stations,
         LowerLayerUp(p) \/ LowerLayerDown(p) \/ Sending(p) \/ HandleReceive(p)
  PROVE  Fragments!Next \/ UNCHANGED Fragments!vars
<1>1. TypeOK
  BY DEF IInv
<1>2. ASSUME NEW q \in Stations, tpdu' = tpdu PROVE Extends(tpdu'[q], tpdu[q])
  BY <1>1, <1>2 DEF Extends, TypeOK
<1>3. Busy[p] <=> state[p] = "Sending"
  BY DEF Busy
<1>4. "Ready" # "Sending" /\ "Closed" # "Sending"
  OBVIOUS
<1>5. CASE LowerLayerUp(p)
  <2>1. /\ state[p] = "Closed" /\ state' = [state EXCEPT ![p] = "Ready"]
        /\ tpdu' = tpdu /\ received' = received /\ handed' = handed
    BY <1>5 DEF LowerLayerUp, link, history
  <2>2. Busy' = Busy
    BY <1>1, <1>4, <2>1, BusyAfter, Zenon
  <2>3. Got' = Got
    BY <1>2, <2>1, GotKept
  <2>4. QED
    BY <2>1, <2>2, <2>3, ServiceSteps
<1>6. CASE LowerLayerDown(p)
  <2>1. /\ state' = [state EXCEPT ![p] = "Closed"]
        /\ tpdu' = tpdu /\ received' = received /\ handed' = handed
    BY <1>6 DEF LowerLayerDown
  <2>2. Got' = Got
    BY <1>2, <2>1, GotKept
  <2>3. Busy' = [Busy EXCEPT ![p] = FALSE] /\ (state[p] # "Sending" => Busy' = Busy)
    BY <1>1, <1>4, <2>1, BusyAfter, Zenon
  <2>4. QED
    BY <1>3, <2>1, <2>2, <2>3, ServiceSteps
<1>7. CASE Sending(p)
  <2>1. \A q \in Stations : Extends(tpdu'[q], tpdu[q])
    BY <1>7, LinksExtend
  <2>2. received' = received
    BY <1>7 DEF Sending, Send, SendUnconfirmed, SendOdd, ContinueSend, FinishSend,
       HandleSendFailure, history
  <2>3. Got' = Got
    BY <2>1, <2>2, GotKept
  <2>4. CASE Send(p)
    <3>1. /\ state[p] = "Ready" /\ state' = [state EXCEPT ![p] = "Sending"]
          /\ handed' = [handed EXCEPT ![p] = @ + 1]
      BY <2>4 DEF Send, CanSend
    <3>2. Busy' = [Busy EXCEPT ![p] = TRUE] /\ ~Busy[p]
      BY <1>1, <1>3, <3>1, BusyAfter
    <3>3. QED
      BY <2>3, <3>1, <3>2, ServiceSteps
  <2>5. CASE SendUnconfirmed(p) \/ SendOdd(p)
    <3>1. /\ state[p] = "Ready" /\ state' = state
          /\ handed' = [handed EXCEPT ![p] = @ + 1]
      BY <2>5 DEF SendUnconfirmed, SendOdd, CanSend
    <3>2. Busy' = [Busy EXCEPT ![p] = FALSE] /\ ~Busy[p]
      BY <1>1, <1>3, <3>1 DEF Busy
    <3>3. QED
      BY <2>3, <3>1, <3>2, ServiceSteps
  <2>6. CASE ContinueSend(p)
    <3>1. state' = state /\ handed' = handed
      BY <2>6 DEF ContinueSend, history
    <3>2. Busy' = Busy
      BY <3>1 DEF Busy
    <3>3. QED
      BY <2>3, <3>1, <3>2, ServiceSteps
  <2>7. CASE FinishSend(p) \/ HandleSendFailure(p)
    <3>1. /\ state[p] = "Sending" /\ state' = [state EXCEPT ![p] = "Ready"] /\ handed' = handed
      BY <2>7 DEF FinishSend, HandleSendFailure, Acknowledged, history
    <3>2. Busy' = [Busy EXCEPT ![p] = FALSE] /\ Busy[p]
      BY <1>1, <1>3, <1>4, <3>1, BusyAfter, Zenon
    <3>3. QED
      BY <2>3, <3>1, <3>2, ServiceSteps
  <2>8. QED
    BY <1>7, <2>4, <2>5, <2>6, <2>7 DEF Sending
<1>8. CASE HandleReceive(p)
  <2>1. PICK n \in LastDelivered(p) + 1 .. Sent(Other(p)) :
          RefuseSegment(p, n) \/ OverflowSegment(p, n) \/ AcceptSegment(p, n)
    BY <1>8 DEF HandleReceive
  <2>2. tpdu' = tpdu /\ handed' = handed /\ state' = state
    BY <2>1 DEF RefuseSegment, OverflowSegment, AcceptSegment, Arrives
  <2>3. Busy' = Busy
    BY <2>2 DEF Busy
  <2>4. CASE received' = received
    <3>1. Got' = Got
      BY <1>2, <2>2, <2>4, GotKept
    <3>2. QED
      BY <2>2, <2>3, <3>1, ServiceSteps
  <2>5. CASE \E b \in Seq(Nat) : received' = [received EXCEPT ![p] = Append(@, Append(b, n))]
    <3>1. PICK b \in Seq(Nat) : received' = [received EXCEPT ![p] = Append(@, Append(b, n))]
      BY <2>5
    <3>2. n \in 1..Sent(Other(p)) /\ n \in Nat /\ LastDelivered(p) < n
      <4>1. LastDelivered(p) \in Nat
        BY <1>1, LastDeliveredIsNat
      <4>2. Sent(Other(p)) \in Nat
        BY <1>1, Others DEF TypeOK, Sent
      <4>3. QED
        BY <4>1, <4>2
    <3>3. Append(b, n) \in Seq(Nat) /\ LastOp(Append(b, n)) = n
      BY <3>2, SequenceTypes DEF LastOp
    <3>4. /\ Got' = [Got EXCEPT ![p] = Append(@, tpdu[Other(p)][n].frag)]
          /\ tpdu[Other(p)][n].frag \in Fragments!LastOf(Got[p]) + 1 .. handed[Other(p)]
      BY <2>2, <3>1, <3>2, <3>3, GotMore
    <3>5. QED
      BY <2>2, <2>3, <3>4, ServiceSteps
  <2>6. received' = received
        \/ \E b \in Seq(Nat) : received' = [received EXCEPT ![p] = Append(@, Append(b, n))]
    <3>1. \A t : BufferFor(p, t) \in Seq(Nat)
      BY <1>1 DEF BufferFor, TypeOK
    <3>2. QED
      BY <2>1, <3>1 DEF RefuseSegment, OverflowSegment, AcceptSegment
  <2>7. QED
    BY <2>4, <2>5, <2>6
<1>9. QED
  BY <1>5, <1>6, <1>7, <1>8

\* TransportLayer gives its user, for fragments, what LinkLayer gives TransportLayer for
\* segments: a fragment is passed up at most once and in the order of Send, and OnSendSuccess,
\* OnSendFailure or OnLowerLayerDown comes before the next is taken.
THEOREM FragmentsImplemented == Spec => ImplementsFragments
<1>1. Init => Fragments!Init
  <2>1. ASSUME Init
        PROVE  /\ Busy = [p \in Stations |-> FALSE] /\ Got = [p \in Stations |-> <<>>]
               /\ handed = [p \in Stations |-> 0]
    <3>1. \A p \in Stations : state[p] # "Sending" /\ received[p] = <<>>
      BY <2>1 DEF Init
    <3>2. \A p \in Stations : FragmentsReceived(p) = <<>>
      BY <3>1 DEF FragmentsReceived
    <3>3. QED
      BY <2>1, <3>1, <3>2 DEF Busy, Got, Init
  <2>2. Fragments!Stations = Stations
    BY DEF Fragments!Stations, Stations
  <2>3. QED
    BY <2>1, <2>2 DEF Fragments!Init, Busy, Got
<1>2. IInv /\ IInv' /\ [Next]_vars => [Fragments!Next]_(Fragments!vars)
  <2>1. ASSUME IInv, IInv', Next
        PROVE  Fragments!Next \/ UNCHANGED Fragments!vars
    <3>1. PICK p \in Stations :
            LowerLayerUp(p) \/ LowerLayerDown(p) \/ Sending(p) \/ HandleReceive(p)
      BY <2>1 DEF Next
    <3>2. TypeOK'
      BY <2>1 DEF IInv
    <3>3. QED
      BY <2>1, <3>1, <3>2, StepIsFragments
  <2>2. ASSUME UNCHANGED vars
        PROVE  UNCHANGED Fragments!vars
    BY <2>2 DEF vars, history, link, Fragments!vars, FragmentsReceived, FragmentOf
  <2>3. QED
    BY <2>1, <2>2
<1>3. QED
  BY <1>1, <1>2, Invariance, PTL DEF Spec, ImplementsFragments, Fragments!Spec

---------------------------------------------------------------------------
(* What a station that sends hands its link *)

LEMMA SegmentFilled ==
  ASSUME NEW f, NEW first, NEW rest \in Nat \ {0}, NEW s
  PROVE  LET g == SegmentOf(f, first, rest, s)
         IN  g.len \in Nat \ {0} /\ (g.fin \/ g.len = Payload)
<1>1. Payload \in Nat \ {0}
  BY TransportAssumption
<1>2. Least(rest, Payload) \in Nat \ {0} /\ (rest <= Payload \/ Least(rest, Payload) = Payload)
  BY <1>1 DEF Least
<1> DEFINE fin == rest <= Payload
           len == Least(rest, Payload)
<1>3. SegmentOf(f, first, rest, s) =
        [frag |-> f, own |-> TRUE, fir |-> first, fin |-> fin, seq |-> s, len |-> len]
  BY DEF SegmentOf
<1>4. len \in Nat \ {0} /\ (fin \/ len = Payload)
  BY <1>2
<1> HIDE DEF fin, len
<1>5. QED
  BY <1>3, <1>4

\* A segment that TransportTx forms.
OwnSegment(g) == g \in Segment /\ g.own /\ g.len > 0 /\ (g.fin \/ g.len = Payload)

\* A station hands its link segment g of fragment f with sequence s, the last one if nothing is
\* left, and waits.
HandsOver(q, g, f, s) ==
  /\ OwnSegment(g) /\ g.frag = f /\ g.seq = s
  /\ tpdu'[q] = Append(tpdu[q], g) /\ handed'[q] = f /\ txSeq'[q] = s /\ state'[q] = "Sending"
  /\ toSend'[q] \in Nat /\ (g.fin <=> toSend'[q] = 0)

LEMMA SendHandsOver ==
  ASSUME TypeOK, NEW q \in Stations, Send(q)
  PROVE  \E g \in Segment :
           /\ HandsOver(q, g, handed[q] + 1, txSeq[q])
           /\ g.fir /\ g.len + toSend'[q] <= FragSize[q] /\ stale' = stale
           /\ reported' = reported /\ cut' = cut
<1>1. handed[q] \in Nat /\ txSeq[q] \in Nat /\ FragSize[q] \in Nat /\ tpdu[q] \in Seq(Segment)
  BY TransportAssumption DEF TypeOK
<1>2. PICK size \in 1..FragSize[q] :
        LET first == SegmentOf(handed[q] + 1, TRUE, size, txSeq[q])
        IN  /\ CanSend(q, size)
            /\ tpdu' = [tpdu EXCEPT ![q] = Append(@, first)]
            /\ toSend' = [toSend EXCEPT ![q] = size - first.len]
  BY Zenon DEF Send
<1>3. size \in Nat \ {0} /\ size <= FragSize[q] /\ handed[q] + 1 \in Nat
  BY <1>1
<1>4. PICK g : g = SegmentOf(handed[q] + 1, TRUE, size, txSeq[q])
  OBVIOUS
<1>5. IsSegment(g, handed[q] + 1, size, txSeq[q]) /\ g.fir
  BY <1>1, <1>3, <1>4, SegmentFormed, Zenon
<1>6. g.len \in Nat \ {0} /\ (g.fin \/ g.len = Payload)
  BY <1>3, <1>4, SegmentFilled, Zenon
<1>7. OwnSegment(g)
  BY <1>5, <1>6 DEF OwnSegment, IsSegment
<1>8. /\ tpdu'[q] = Append(tpdu[q], g) /\ toSend'[q] = size - g.len
      /\ handed'[q] = handed[q] + 1 /\ state'[q] = "Sending" /\ txSeq' = txSeq
      /\ stale' = stale /\ reported' = reported /\ cut' = cut
  BY <1>2, <1>4 DEF Send, CanSend, TypeOK
<1>9. toSend'[q] \in Nat /\ (g.fin <=> toSend'[q] = 0) /\ g.len + toSend'[q] <= FragSize[q]
  BY <1>1, <1>3, <1>5, <1>6, <1>8 DEF IsSegment
<1>10. QED
  BY <1>5, <1>7, <1>8, <1>9 DEF HandsOver, IsSegment

LEMMA ContinueSendHandsOver ==
  ASSUME TypeOK, NEW q \in Stations, ContinueSend(q)
  PROVE  \E g \in Segment :
           /\ HandsOver(q, g, handed[q], NextSeq(txSeq[q]))
           /\ ~g.fir /\ g.len + toSend'[q] = toSend[q] /\ toSend[q] > 0 /\ state[q] = "Sending"
           /\ stale' = 0 => stale = 0 /\ LastDelivered(Other(q)) = Sent(q)
           /\ reported' = reported /\ cut' = cut
<1>1. handed[q] \in Nat /\ txSeq[q] \in Nat /\ tpdu[q] \in Seq(Segment) /\ toSend[q] \in Nat
      /\ stale \in Nat
  BY DEF TypeOK
<1>2. PICK g : g = SegmentOf(handed[q], FALSE, toSend[q], NextSeq(txSeq[q]))
  OBVIOUS
<1>3. toSend[q] > 0 /\ Acknowledged(q)
  BY DEF ContinueSend
<1>4. toSend[q] \in Nat \ {0} /\ NextSeq(txSeq[q]) \in Nat
  <2>1. toSend[q] \in Nat \ {0}
    BY <1>1, <1>3
  <2>2. QED
    BY <1>1, <2>1, NextSeqIsNat
<1>5. IsSegment(g, handed[q], toSend[q], NextSeq(txSeq[q])) /\ ~g.fir
  BY <1>1, <1>2, <1>4, SegmentFormed, Zenon
<1>6. g.len \in Nat \ {0} /\ (g.fin \/ g.len = Payload)
  BY <1>2, <1>4, SegmentFilled, Zenon
<1>7. OwnSegment(g)
  BY <1>5, <1>6 DEF OwnSegment, IsSegment
<1>8. /\ tpdu'[q] = Append(tpdu[q], g) /\ toSend'[q] = toSend[q] - g.len
      /\ handed'[q] = handed[q] /\ state'[q] = "Sending" /\ txSeq'[q] = NextSeq(txSeq[q])
      /\ reported' = reported /\ cut' = cut /\ state[q] = "Sending"
  BY <1>2, <1>3 DEF ContinueSend, Acknowledged, TypeOK, history
<1>9. toSend'[q] \in Nat /\ (g.fin <=> toSend'[q] = 0) /\ g.len + toSend'[q] = toSend[q]
  BY <1>1, <1>5, <1>6, <1>8 DEF IsSegment
<1>10. stale' = 0 => stale = 0 /\ LastDelivered(Other(q)) = Sent(q)
  BY <1>1, <1>3 DEF Acknowledged
<1>11. QED
  BY <1>3, <1>5, <1>7, <1>8, <1>9, <1>10 DEF HandsOver, IsSegment

LEMMA SendUnconfirmedHands ==
  ASSUME TypeOK, NEW q \in Stations, SendUnconfirmed(q)
  PROVE  \E s \in Seq(Segment) :
           /\ AllSegments(s, handed[q] + 1, txSeq[q])
           /\ tpdu'[q] = tpdu[q] \o s /\ txSeq'[q] = (txSeq[q] + Len(s)) % SeqModulus
           /\ state'[q] = "Ready"
<1>1. PICK size \in 1..FragSize[q] :
        /\ CanSend(q, size)
        /\ tpdu' = [tpdu EXCEPT ![q] = @ \o SegmentsFor(handed[q] + 1, txSeq[q], size)]
        /\ txSeq' = [txSeq EXCEPT ![q] = (@ + (size + Payload - 1) \div Payload) % SeqModulus]
  BY Zenon DEF SendUnconfirmed, SegmentsFor
<1>2. size \in Nat \ {0} /\ handed[q] + 1 \in Nat /\ txSeq[q] \in Nat
  BY TransportAssumption DEF TypeOK
<1>3. PICK s : s = SegmentsFor(handed[q] + 1, txSeq[q], size)
  OBVIOUS
<1>4. AllSegments(s, handed[q] + 1, txSeq[q]) /\ Len(s) = (size + Payload - 1) \div Payload
  BY <1>2, <1>3, SegmentsOfFragment
<1>5. s \in Seq(Segment)
  BY <1>4, Zenon DEF AllSegments
<1>6. tpdu' = [tpdu EXCEPT ![q] = @ \o s] /\ txSeq' = [txSeq EXCEPT ![q] = (@ + Len(s)) % SeqModulus]
  BY <1>1, <1>3, <1>4
<1>7. tpdu'[q] = tpdu[q] \o s /\ txSeq'[q] = (txSeq[q] + Len(s)) % SeqModulus
  BY <1>6 DEF TypeOK
<1>8. state'[q] = "Ready"
  BY <1>1 DEF SendUnconfirmed, CanSend
<1>9. QED
  BY <1>4, <1>5, <1>7, <1>8

LEMMA SendOddHands ==
  ASSUME TypeOK, NEW q \in Stations, SendOdd(q)
  PROVE  \E g \in Segment :
           ~g.own /\ tpdu'[q] = Append(tpdu[q], g) /\ txSeq'[q] = txSeq[q] /\ state'[q] = "Ready"
<1>1. PICK fir \in BOOLEAN, fin \in BOOLEAN, s \in 0..SeqModulus - 1, n \in 0..Payload :
        tpdu' = [tpdu EXCEPT ![q] =
                   Append(@, [frag |-> handed[q] + 1, own |-> FALSE, fir |-> fir, fin |-> fin,
                              seq |-> s, len |-> n])]
  BY DEF SendOdd
<1> DEFINE g == [frag |-> handed[q] + 1, own |-> FALSE, fir |-> fir, fin |-> fin,
                 seq |-> s, len |-> n]
<1>2. g \in Segment /\ ~g.own
  BY TransportAssumption DEF Segment, TypeOK
<1>3. tpdu' = [tpdu EXCEPT ![q] = Append(@, g)] /\ txSeq' = txSeq /\ state'[q] = "Ready"
  BY <1>1 DEF SendOdd, tx
<1> HIDE DEF g
<1>4. tpdu'[q] = Append(tpdu[q], g)
  BY <1>3 DEF TypeOK
<1>5. QED
  BY <1>2, <1>3, <1>4

---------------------------------------------------------------------------
(* What a station makes of a segment that arrives *)

\* Segment g is refused, ends the fragment for lack of space, or is added as operation n.
Refused(p, g) ==
  /\ g.len = 0 \/ ~ValidateHeader(p, g)
  /\ received'[p] = received[p]
  /\ \/ rxSeq'[p] = rxSeq[p] /\ buffer'[p] = buffer[p] /\ numRead'[p] = numRead[p]
     \/ buffer'[p] = <<>> /\ numRead'[p] = 0

Overflowed(p, g) ==
  ~Fits(p, g) /\ received'[p] = received[p] /\ buffer'[p] = <<>> /\ numRead'[p] = 0

Accepted(p, g, n) ==
  /\ ValidateHeader(p, g) /\ rxSeq'[p] = NextSeq(g.seq)
  /\ \/ /\ g.fin /\ buffer'[p] = <<>> /\ numRead'[p] = 0
        /\ received'[p] = Append(received[p], Append(BufferFor(p, g), n))
     \/ /\ ~g.fin /\ received'[p] = received[p]
        /\ buffer'[p] = Append(BufferFor(p, g), n) /\ numRead'[p] = ReadFor(p, g) + g.len

LEMMA Reading ==
  ASSUME TypeOK, NEW p \in Stations, HandleReceive(p)
  PROVE  \E n \in 1..Sent(Other(p)) :
           /\ LastDelivered(p) < n /\ LastDelivered(p)' = n
           /\ tpdu' = tpdu /\ handed' = handed /\ state' = state /\ txSeq' = txSeq
           /\ toSend' = toSend /\ reported' = reported /\ cut' = cut /\ stale' = stale
           /\ \A q \in Stations : q # p =>
                /\ received'[q] = received[q] /\ buffer'[q] = buffer[q]
                /\ rxSeq'[q] = rxSeq[q] /\ numRead'[q] = numRead[q] /\ delivered'[q] = delivered[q]
           /\ LET g == tpdu[Other(p)][n]
              IN  Refused(p, g) \/ Overflowed(p, g) \/ Accepted(p, g, n)
<1>1. PICK n \in LastDelivered(p) + 1 .. Sent(Other(p)) :
        RefuseSegment(p, n) \/ OverflowSegment(p, n) \/ AcceptSegment(p, n)
  BY DEF HandleReceive
<1> DEFINE g == tpdu[Other(p)][n]
<1>2. LastDelivered(p) \in Nat /\ Sent(Other(p)) \in Nat
  <2>1. LastDelivered(p) \in Nat
    BY LastDeliveredIsNat
  <2>2. Sent(Other(p)) \in Nat
    BY Others DEF TypeOK, Sent
  <2>3. QED
    BY <2>1, <2>2
<1>3. n \in 1..Sent(Other(p)) /\ LastDelivered(p) < n /\ n \in Nat
  BY <1>2
<1>4. Arrives(p, n)
  BY <1>1 DEF RefuseSegment, OverflowSegment, AcceptSegment
<1>5. LastDelivered(p)' = n
  <2>1. delivered'[p] = Append(delivered[p], n) /\ delivered[p] \in Seq(Nat)
    BY <1>4 DEF Arrives, TypeOK
  <2>2. delivered'[p] # <<>> /\ LastOp(delivered'[p]) = n
    BY <1>3, <2>1, LastOpOfAppend
  <2>3. QED
    BY <2>2 DEF LastDelivered, LastOp
<1>6. /\ tpdu' = tpdu /\ handed' = handed /\ state' = state /\ txSeq' = txSeq
      /\ toSend' = toSend /\ reported' = reported /\ cut' = cut /\ stale' = stale
  BY <1>4 DEF Arrives, tx
<1> HIDE DEF g
<1>7. /\ received \in [Stations -> Seq(Seq(Nat))] /\ buffer \in [Stations -> Seq(Nat)]
      /\ rxSeq \in [Stations -> Nat] /\ numRead \in [Stations -> Nat]
  BY DEF TypeOK
<1>8. ASSUME RefuseSegment(p, n)
      PROVE  Refused(p, g)
  <2>1. /\ received' = received /\ (g.len = 0 \/ ~ValidateHeader(p, g))
        /\ \/ rxSeq' = rxSeq /\ buffer' = buffer /\ numRead' = numRead
           \/ /\ rxSeq' = [rxSeq EXCEPT ![p] = SeqFor(p, g)]
              /\ numRead' = [numRead EXCEPT ![p] = ReadFor(p, g)]
              /\ buffer' = [buffer EXCEPT ![p] = BufferFor(p, g)]
    BY <1>8 DEF RefuseSegment, rx, g
  <2>2. \/ rxSeq'[p] = rxSeq[p] /\ buffer'[p] = buffer[p] /\ numRead'[p] = numRead[p]
        \/ buffer'[p] = <<>> /\ numRead'[p] = 0
    BY <1>7, <2>1 DEF SeqFor, ReadFor, BufferFor
  <2>3. QED
    BY <2>1, <2>2 DEF Refused
<1>9. ASSUME OverflowSegment(p, n)
      PROVE  Overflowed(p, g)
  BY <1>7, <1>9 DEF OverflowSegment, Overflowed, g
<1>10. ASSUME AcceptSegment(p, n)
       PROVE  Accepted(p, g, n)
  <2>1. /\ ValidateHeader(p, g) /\ rxSeq' = [rxSeq EXCEPT ![p] = NextSeq(SeqFor(p, g))]
        /\ \/ /\ g.fin
              /\ numRead' = [numRead EXCEPT ![p] = 0]
              /\ buffer' = [buffer EXCEPT ![p] = <<>>]
              /\ received' = [received EXCEPT ![p] = Append(@, Append(BufferFor(p, g), n))]
           \/ /\ ~g.fin
              /\ numRead' = [numRead EXCEPT ![p] = ReadFor(p, g) + g.len]
              /\ buffer' = [buffer EXCEPT ![p] = Append(BufferFor(p, g), n)]
              /\ received' = received
    BY <1>10 DEF AcceptSegment, g
  <2>2. SeqFor(p, g) = g.seq
    BY <2>1 DEF ValidateHeader
  <2>3. rxSeq'[p] = NextSeq(g.seq)
    BY <1>7, <2>1, <2>2
  <2>4. \/ /\ g.fin /\ buffer'[p] = <<>> /\ numRead'[p] = 0
           /\ received'[p] = Append(received[p], Append(BufferFor(p, g), n))
        \/ /\ ~g.fin /\ received'[p] = received[p]
           /\ buffer'[p] = Append(BufferFor(p, g), n) /\ numRead'[p] = ReadFor(p, g) + g.len
    BY <1>7, <2>1
  <2>5. QED
    BY <2>1, <2>3, <2>4 DEF Accepted
<1>11. ASSUME NEW q \in Stations, q # p
       PROVE  /\ received'[q] = received[q] /\ buffer'[q] = buffer[q]
              /\ rxSeq'[q] = rxSeq[q] /\ numRead'[q] = numRead[q] /\ delivered'[q] = delivered[q]
  <2>1. delivered'[q] = delivered[q]
    BY <1>4, <1>11 DEF Arrives, TypeOK
  <2>2. /\ received'[q] = received[q] /\ buffer'[q] = buffer[q]
        /\ rxSeq'[q] = rxSeq[q] /\ numRead'[q] = numRead[q]
    BY <1>1, <1>7, <1>11 DEF RefuseSegment, OverflowSegment, AcceptSegment, rx
  <2>3. QED
    BY <2>1, <2>2
<1>12. Refused(p, g) \/ Overflowed(p, g) \/ Accepted(p, g, n)
  BY <1>1, <1>8, <1>9, <1>10
<1>13. QED
  BY <1>3, <1>5, <1>6, <1>11, <1>12 DEF g

\* A segment that is valid starts a fragment or goes on with what the buffer holds.
LEMMA ValidSegment ==
  ASSUME IInv, NEW p \in Stations, NEW g, ValidateHeader(p, g)
  PROVE  \/ g.fir /\ BufferFor(p, g) = <<>> /\ ReadFor(p, g) = 0
         \/ /\ ~g.fir /\ BufferFor(p, g) = buffer[p] /\ ReadFor(p, g) = numRead[p]
            /\ buffer[p] # <<>> /\ g.seq = rxSeq[p]
<1>1. buffer[p] \in Seq(Nat) /\ Payload \in Nat /\ numRead[p] = Payload * Len(buffer[p])
  BY TransportAssumption DEF IInv, TypeOK, Holds
<1>2. CASE g.fir
  BY <1>2 DEF BufferFor, ReadFor
<1>3. CASE ~g.fir
  <2>1. numRead[p] > 0 /\ g.seq = rxSeq[p]
    BY <1>3 DEF ValidateHeader, SeqFor
  <2>2. Len(buffer[p]) # 0
    BY <1>1, <2>1
  <2>3. buffer[p] # <<>>
    BY <1>1, <2>2
  <2>4. QED
    BY <1>3, <2>1, <2>3 DEF BufferFor, ReadFor
<1>4. QED
  BY <1>2, <1>3

\* What the buffer and the received fragments are made of has been delivered.
LEMMA Within ==
  ASSUME IInv, NEW p \in Stations
  PROVE  /\ tpdu[Other(p)] \in Seq(Segment) /\ Len(tpdu[Other(p)]) = Sent(Other(p))
         /\ LastDelivered(p) \in Nat /\ LastDelivered(p) <= Sent(Other(p))
         /\ buffer[p] \in Seq(1..LastDelivered(p)) /\ buffer[p] \in Seq(Nat)
         /\ received[p] \in Seq(Seq(Nat))
         /\ \A i \in 1..Len(received[p]) :
              received[p][i] # <<>> /\ received[p][i] \in Seq(1..LastDelivered(p))
<1>1. tpdu[Other(p)] \in Seq(Segment) /\ buffer[p] \in Seq(Nat) /\ received[p] \in Seq(Seq(Nat))
  BY Others DEF IInv, TypeOK
<1>2. LastDelivered(p) \in Nat
  BY LastDeliveredIsNat DEF IInv
<1>3. Receiver(p)
  BY DEF IInv
<1>4. QED
  BY <1>1, <1>2, <1>3 DEF Receiver, PutTogether, Sent

---------------------------------------------------------------------------
(* A second invariant: how the segments of a buffer follow one another *)

\* A receiver expects the sequence after that of the last segment in its buffer.
GoesOn(p) ==
  buffer[p] # <<>> => rxSeq[p] = NextSeq(tpdu[Other(p)][LastOp(buffer[p])].seq)

LEMMA GoesOnKept ==
  ASSUME IInv, NEW p \in Stations, GoesOn(p), Extends(tpdu'[Other(p)], tpdu[Other(p)]),
         \/ buffer'[p] = buffer[p] /\ rxSeq'[p] = rxSeq[p]
         \/ buffer'[p] = <<>>
  PROVE  GoesOn(p)'
<1>1. CASE buffer'[p] = <<>>
  BY <1>1 DEF GoesOn
<1>2. CASE buffer'[p] = buffer[p] /\ rxSeq'[p] = rxSeq[p]
  <2>1. ASSUME buffer[p] # <<>>
        PROVE  tpdu'[Other(p)][LastOp(buffer[p])] = tpdu[Other(p)][LastOp(buffer[p])]
    <3>1. LastOp(buffer[p]) \in 1..LastDelivered(p)
      BY <2>1, Within, LastOpIn
    <3>2. LastOp(buffer[p]) \in 1..Len(tpdu[Other(p)])
      BY <3>1, Within
    <3>3. QED
      BY <3>2 DEF Extends
  <2>2. QED
    BY <1>2, <2>1 DEF GoesOn
<1>3. QED
  BY <1>1, <1>2

LEMMA GoesOnReads ==
  ASSUME IInv, NEW p \in Stations, GoesOn(p), tpdu' = tpdu, NEW n \in 1..Sent(Other(p)),
         LET g == tpdu[Other(p)][n] IN Refused(p, g) \/ Overflowed(p, g) \/ Accepted(p, g, n)
  PROVE  GoesOn(p)'
<1> DEFINE g == tpdu[Other(p)][n]
<1>1. Extends(tpdu'[Other(p)], tpdu[Other(p)])
  BY Within DEF Extends
<1>2. CASE Refused(p, g) \/ Overflowed(p, g)
  BY <1>1, <1>2, GoesOnKept DEF Refused, Overflowed
<1>3. CASE Accepted(p, g, n)
  <2>1. BufferFor(p, g) \in Seq(Nat)
    BY Within DEF BufferFor
  <2>2. LastOp(Append(BufferFor(p, g), n)) = n
    BY <2>1, LastOpOfAppend
  <2>3. rxSeq'[p] = NextSeq(g.seq)
        /\ (buffer'[p] = <<>> \/ buffer'[p] = Append(BufferFor(p, g), n))
    BY <1>3 DEF Accepted
  <2>4. QED
    BY <2>2, <2>3 DEF GoesOn
<1>4. QED
  BY <1>2, <1>3

\* The operations b are one after the other and belong to one fragment.
Adjacent(b, t) == \A i \in 1..Len(b) : b[i] = b[1] + i - 1 /\ t[b[i]].frag = t[b[1]].frag

LEMMA AdjacentKept ==
  ASSUME NEW t \in Seq(Segment), NEW u \in Seq(Segment), Extends(u, t), NEW l \in Nat, l <= Len(t),
         NEW b \in Seq(1..l)
  PROVE  /\ \A i \in 1..Len(b) : u[b[i]] = t[b[i]]
         /\ Adjacent(b, t) => Adjacent(b, u)
<1>1. \A i \in 1..Len(b) : b[i] \in 1..Len(t)
  <2>1. \A i \in 1..Len(b) : b[i] \in 1..l
    OBVIOUS
  <2>2. QED
    BY <2>1
<1>2. \A i \in 1..Len(b) : u[b[i]] = t[b[i]]
  BY <1>1 DEF Extends
<1>3. \A i \in 1..Len(b) : 1 \in 1..Len(b)
  OBVIOUS
<1>4. QED
  BY <1>2, <1>3 DEF Adjacent

LEMMA AdjacentMore ==
  ASSUME NEW t, NEW b \in Seq(Nat), NEW n \in Nat,
         b # <<>> => Adjacent(b, t) /\ n = LastOp(b) + 1 /\ t[n].frag = t[LastOp(b)].frag
  PROVE  Adjacent(Append(b, n), t)
<1> DEFINE c == Append(b, n)
<1>1. /\ Len(c) = Len(b) + 1 /\ Len(b) \in Nat /\ c[Len(b) + 1] = n
      /\ \A i \in 1..Len(b) : c[i] = b[i]
  BY LastOpOfAppend
<1>2. b = <<>> <=> Len(b) = 0
  OBVIOUS
<1> SUFFICES Adjacent(c, t)
  OBVIOUS
<1> HIDE DEF c
<1>3. CASE b = <<>>
  <2>1. \A i \in 1..Len(c) : i = 1 /\ c[i] = n
    BY <1>1, <1>2, <1>3
  <2>2. QED
    BY <2>1 DEF Adjacent
<1>4. CASE b # <<>>
  <2>1. /\ c[1] = b[1] /\ b[1] \in Nat
        /\ LastOp(b) = b[1] + Len(b) - 1 /\ t[LastOp(b)].frag = t[b[1]].frag
    <3>1. 1 \in 1..Len(b) /\ Len(b) \in 1..Len(b)
      BY <1>1, <1>2, <1>4
    <3>2. c[1] = b[1] /\ b[1] \in Nat
      BY <1>1, <3>1
    <3>3. LastOp(b) = b[1] + Len(b) - 1 /\ t[LastOp(b)].frag = t[b[1]].frag
      BY <1>4, <3>1 DEF Adjacent, LastOp
    <3>4. QED
      BY <3>2, <3>3
  <2>2. ASSUME NEW i \in 1..Len(c)
        PROVE  c[i] = c[1] + i - 1 /\ t[c[i]].frag = t[c[1]].frag
    <3>1. CASE i \in 1..Len(b)
      BY <1>1, <1>4, <2>1, <3>1 DEF Adjacent
    <3>2. CASE i \notin 1..Len(b)
      <4>1. i = Len(b) + 1 /\ c[i] = n /\ n = LastOp(b) + 1
        BY <1>1, <1>4, <3>2
      <4>2. t[n].frag = t[LastOp(b)].frag
        BY <1>4
      <4>3. QED
        BY <1>1, <2>1, <4>1, <4>2
    <3>3. QED
      BY <3>1, <3>2
  <2>3. QED
    BY <2>2 DEF Adjacent
<1>5. QED
  BY <1>3, <1>4

\* Each of the fragments r was put together from all its segments.
Whole(r, t) ==
  \A i \in 1..Len(r) : t[r[i][1]].fir /\ t[LastOp(r[i])].fin /\ Adjacent(r[i], t)

LEMMA WholeKept ==
  ASSUME NEW t \in Seq(Segment), NEW u \in Seq(Segment), Extends(u, t), NEW l \in Nat, l <= Len(t),
         NEW r, \A i \in 1..Len(r) : r[i] # <<>> /\ r[i] \in Seq(1..l), Whole(r, t)
  PROVE  Whole(r, u)
<1>1. ASSUME NEW i \in 1..Len(r)
      PROVE  u[r[i][1]].fir /\ u[LastOp(r[i])].fin /\ Adjacent(r[i], u)
  <2>1. PICK c \in Seq(1..l) : c = r[i] /\ c # <<>>
    OBVIOUS
  <2>2. 1 \in 1..Len(c) /\ Len(c) \in 1..Len(c)
    BY <2>1
  <2>3. u[c[1]] = t[c[1]] /\ u[c[Len(c)]] = t[c[Len(c)]] /\ (Adjacent(c, t) => Adjacent(c, u))
    <3>1. (\A j \in 1..Len(c) : u[c[j]] = t[c[j]]) /\ (Adjacent(c, t) => Adjacent(c, u))
      BY AdjacentKept
    <3>2. QED
      BY <2>2, <3>1
  <2>4. QED
    BY <2>1, <2>3 DEF Whole, LastOp
<1>2. QED
  BY <1>1 DEF Whole

LEMMA WholeMore ==
  ASSUME NEW t, NEW r \in Seq(Seq(Nat)), Whole(r, t), NEW c \in Seq(Nat),
         t[c[1]].fir, t[LastOp(c)].fin, Adjacent(c, t)
  PROVE  Whole(Append(r, c), t)
<1> DEFINE s == Append(r, c)
<1>1. /\ Len(s) = Len(r) + 1 /\ Len(r) \in Nat /\ s[Len(r) + 1] = c
      /\ \A i \in 1..Len(r) : s[i] = r[i]
  BY SequenceTypes
<1> HIDE DEF s
<1>2. \A i \in 1..Len(s) : (i \in 1..Len(r) /\ s[i] = r[i]) \/ s[i] = c
  BY <1>1
<1>3. QED
  BY <1>2 DEF Whole, s

---------------------------------------------------------------------------
(* Over a link that confirms *)

\* The segments t handed to a link that confirms when operation l was delivered last: one that
\* goes on with a fragment is handed over after the one before it was delivered.
Acked(t, l) ==
  \A i \in 1..Len(t) :
    /\ OwnSegment(t[i])
    /\ ~t[i].fir =>
         /\ i > 1 /\ i - 1 <= l
         /\ t[i].frag = t[i - 1].frag /\ t[i].seq = NextSeq(t[i - 1].seq)

\* The segment for whose outcome a station waits is the last of the segments t.
Waits(q) ==
  state[q] = "Sending" =>
    LET t == tpdu[q]
        n == Len(tpdu[q])
    IN  /\ n > 0 /\ t[n].frag = handed[q] /\ t[n].seq = txSeq[q]
        /\ t[n].fin <=> toSend[q] = 0

ConfirmedLine(p) ==
  Other(p) \in Confirming /\ stale = 0 =>
    /\ Acked(tpdu[Other(p)], LastDelivered(p))
    /\ Waits(Other(p))
    /\ buffer[p] # <<>> => LastOp(buffer[p]) = LastDelivered(p)
    /\ Adjacent(buffer[p], tpdu[Other(p)])
    /\ Whole(received[p], tpdu[Other(p)])

LEMMA AckedMore ==
  ASSUME NEW t \in Seq(Segment), NEW l \in Nat, l <= Len(t), Acked(t, l), NEW g, OwnSegment(g),
         ~g.fir => /\ Len(t) > 0 /\ l = Len(t)
                   /\ g.frag = t[Len(t)].frag /\ g.seq = NextSeq(t[Len(t)].seq)
  PROVE  Acked(Append(t, g), l)
<1> DEFINE u == Append(t, g)
<1>1. g \in Segment
  BY DEF OwnSegment
<1>2. /\ Len(u) = Len(t) + 1 /\ Len(t) \in Nat /\ u[Len(t) + 1] = g
      /\ \A i \in 1..Len(t) : u[i] = t[i]
  BY <1>1, SequenceTypes
<1> HIDE DEF u
<1>3. ASSUME NEW i \in 1..Len(u)
      PROVE  /\ OwnSegment(u[i])
             /\ ~u[i].fir =>
                  /\ i > 1 /\ i - 1 <= l
                  /\ u[i].frag = u[i - 1].frag /\ u[i].seq = NextSeq(u[i - 1].seq)
  <2>1. CASE i \in 1..Len(t)
    <3>1. u[i] = t[i] /\ (i > 1 => u[i - 1] = t[i - 1])
      BY <1>2, <2>1
    <3>2. QED
      BY <2>1, <3>1 DEF Acked
  <2>2. CASE i \notin 1..Len(t)
    <3>1. i = Len(t) + 1 /\ u[i] = g /\ i - 1 = Len(t) /\ (Len(t) > 0 => u[i - 1] = t[Len(t)])
      BY <1>2, <2>2
    <3>2. OwnSegment(u[i])
      BY <3>1
    <3>3. ASSUME ~u[i].fir
          PROVE  /\ i > 1 /\ i - 1 <= l
                 /\ u[i].frag = u[i - 1].frag /\ u[i].seq = NextSeq(u[i - 1].seq)
      <4>1. Len(t) > 0 /\ l = Len(t) /\ g.frag = t[Len(t)].frag /\ g.seq = NextSeq(t[Len(t)].seq)
        BY <3>1, <3>3
      <4>2. u[i - 1] = t[Len(t)]
        BY <3>1, <4>1
      <4>3. QED
        BY <1>2, <3>1, <4>1, <4>2
    <3>4. QED
      BY <3>2, <3>3
  <2>3. QED
    BY <2>1, <2>2
<1>4. QED
  BY <1>3 DEF Acked, u

\* What a step that receives nothing leaves of the segments in the buffer and in the fragments.
LEMMA PutTogetherKept ==
  ASSUME IInv, IInv', NEW p \in Stations, Extends(tpdu'[Other(p)], tpdu[Other(p)]),
         delivered'[p] = delivered[p], received'[p] = received[p],
         buffer'[p] = buffer[p] \/ buffer'[p] = <<>>,
         buffer[p] # <<>> => LastOp(buffer[p]) = LastDelivered(p),
         Adjacent(buffer[p], tpdu[Other(p)]), Whole(received[p], tpdu[Other(p)])
  PROVE  /\ LastDelivered(p)' = LastDelivered(p)
         /\ buffer'[p] # <<>> => LastOp(buffer'[p]) = LastDelivered(p)
         /\ Adjacent(buffer'[p], tpdu'[Other(p)]) /\ Whole(received'[p], tpdu'[Other(p)])
<1> DEFINE t == tpdu[Other(p)]
           u == tpdu'[Other(p)]
           l == LastDelivered(p)
<1>1. LastDelivered(p)' = l
  BY DEF LastDelivered
<1>2. /\ t \in Seq(Segment) /\ u \in Seq(Segment) /\ Extends(u, t) /\ l \in Nat /\ l <= Len(t)
      /\ buffer[p] \in Seq(1..l)
      /\ \A i \in 1..Len(received[p]) : received[p][i] # <<>> /\ received[p][i] \in Seq(1..l)
  <2>1. u \in Seq(Segment)
    BY Others DEF IInv, TypeOK
  <2>2. QED
    BY <2>1, Within
<1> HIDE DEF t, u, l
<1>3. Adjacent(buffer[p], u) /\ Whole(received[p], u)
  <2>1. Adjacent(buffer[p], t) /\ Whole(received[p], t)
    BY DEF t
  <2>2. QED
    BY <1>2, <2>1, AdjacentKept, WholeKept
<1>4. Adjacent(<<>>, u)
  BY DEF Adjacent
<1>5. QED
  BY <1>1, <1>3, <1>4 DEF u, l

\* The stale acknowledgements are only counted up.
LEMMA StaleGrows ==
  ASSUME IInv, NEW p \in Stations,
         LowerLayerUp(p) \/ LowerLayerDown(p) \/ Sending(p) \/ HandleReceive(p), stale' = 0
  PROVE  stale = 0
<1>1. stale \in Nat
  BY DEF IInv, TypeOK
<1>2. CASE LowerLayerUp(p) \/ LowerLayerDown(p)
  BY <1>2 DEF LowerLayerUp, LowerLayerDown
<1>3. CASE Sending(p)
  <2>1. stale' = stale \/ Acknowledged(p)
    BY <1>3, Zenon DEF Sending, Send, SendUnconfirmed, SendOdd, ContinueSend, FinishSend,
       HandleSendFailure
  <2>2. Acknowledged(p) => stale' = stale \/ stale' = stale + 1
    BY DEF Acknowledged
  <2>3. QED
    BY <1>1, <2>1, <2>2
<1>4. CASE HandleReceive(p)
  BY <1>4, Reading DEF IInv
<1>5. QED
  BY <1>2, <1>3, <1>4

\* A step of p leaves what the other station hands its link.
LEMMA OtherSenderKept ==
  ASSUME IInv, NEW p \in Stations, NEW q \in Stations, q # p,
         LowerLayerUp(p) \/ LowerLayerDown(p) \/ Sending(p) \/ HandleReceive(p)
  PROVE  /\ tpdu'[q] = tpdu[q] /\ handed'[q] = handed[q] /\ toSend'[q] = toSend[q]
         /\ txSeq'[q] = txSeq[q] /\ state'[q] = state[q] /\ reported'[q] = reported[q]
<1>1. TypeOK
  BY DEF IInv
<1>2. CASE LowerLayerUp(p) \/ LowerLayerDown(p)
  BY <1>1, <1>2 DEF LowerLayerUp, LowerLayerDown, TypeOK, tx, link, history
<1>3. CASE Sending(p)
  <2>1. CASE Send(p)
    BY <1>1, <2>1 DEF Send, CanSend, TypeOK
  <2>2. CASE SendUnconfirmed(p)
    BY <1>1, <2>2 DEF SendUnconfirmed, CanSend, TypeOK
  <2>3. CASE SendOdd(p)
    BY <1>1, <2>3 DEF SendOdd, TypeOK, tx
  <2>4. CASE ContinueSend(p)
    BY <1>1, <2>4 DEF ContinueSend, TypeOK, history
  <2>5. CASE FinishSend(p) \/ HandleSendFailure(p)
    BY <1>1, <2>5 DEF FinishSend, HandleSendFailure, TypeOK, tx, link, history
  <2>6. QED
    BY <1>3, <2>1, <2>2, <2>3, <2>4, <2>5 DEF Sending
<1>4. CASE HandleReceive(p)
  BY <1>1, <1>4, Reading
<1>5. QED
  BY <1>2, <1>3, <1>4

\* A step of p leaves what the other station received, and p's sending all it received itself.
LEMMA OtherReceiverKept ==
  ASSUME IInv, NEW p \in Stations, NEW q \in Stations,
         \/ q # p /\ (LowerLayerUp(p) \/ LowerLayerDown(p) \/ HandleReceive(p))
         \/ Sending(p)
  PROVE  /\ buffer'[q] = buffer[q] /\ rxSeq'[q] = rxSeq[q] /\ numRead'[q] = numRead[q]
         /\ delivered'[q] = delivered[q] /\ received'[q] = received[q]
<1>1. TypeOK
  BY DEF IInv
<1>2. CASE q # p /\ (LowerLayerUp(p) \/ LowerLayerDown(p))
  BY <1>1, <1>2 DEF LowerLayerUp, LowerLayerDown, TypeOK, rx, link, history
<1>3. CASE Sending(p)
  BY <1>3 DEF Sending, Send, SendUnconfirmed, SendOdd, ContinueSend, FinishSend,
     HandleSendFailure, rx, link, history
<1>4. CASE q # p /\ HandleReceive(p)
  BY <1>1, <1>4, Reading
<1>5. QED
  BY <1>2, <1>3, <1>4

LEMMA ConfirmedSends ==
  ASSUME IInv, IInv', NEW p \in Stations, ConfirmedLine(p), Sending(Other(p))
  PROVE  ConfirmedLine(p)'
<1> DEFINE q == Other(p)
           t == tpdu[q]
           l == LastDelivered(p)
<1>1. q \in Stations /\ TypeOK /\ Other(q) = p
  BY Others DEF IInv
<1>2. SUFFICES ASSUME q \in Confirming, stale' = 0
               PROVE  /\ Acked(tpdu'[q], l) /\ Waits(q)'
                      /\ LastDelivered(p)' = l
                      /\ buffer'[p] # <<>> => LastOp(buffer'[p]) = l
                      /\ Adjacent(buffer'[p], tpdu'[q]) /\ Whole(received'[p], tpdu'[q])
  BY DEF ConfirmedLine
<1>3. stale = 0
  <2>1. q \in Stations /\ Sending(q) /\ stale' = 0
    BY <1>1, <1>2
  <2> HIDE DEF q
  <2>2. QED
    BY <2>1, StaleGrows
<1>4. /\ Acked(t, l) /\ Waits(q) /\ (buffer[p] # <<>> => LastOp(buffer[p]) = l)
      /\ Adjacent(buffer[p], t) /\ Whole(received[p], t)
  BY <1>2, <1>3 DEF ConfirmedLine
<1>5. /\ LastDelivered(p)' = l
      /\ buffer'[p] # <<>> => LastOp(buffer'[p]) = l
      /\ Adjacent(buffer'[p], tpdu'[q]) /\ Whole(received'[p], tpdu'[q])
  <2>1. Extends(tpdu'[q], tpdu[q])
    BY <1>1, LinksExtend
  <2>2. buffer'[p] = buffer[p] /\ delivered'[p] = delivered[p] /\ received'[p] = received[p]
    BY <1>1, OtherReceiverKept
  <2>3. QED
    BY <1>4, <2>1, <2>2, PutTogetherKept
<1>6. t \in Seq(Segment) /\ l \in Nat /\ l <= Len(t) /\ Sent(q) = Len(t)
  BY Within
<1> HIDE DEF q, t, l
<1>7. SUFFICES Acked(tpdu'[q], l) /\ Waits(q)'
  BY <1>5
<1>8. CASE Send(q)
  <2>1. PICK g \in Segment : HandsOver(q, g, handed[q] + 1, txSeq[q]) /\ g.fir
    BY <1>1, <1>8, SendHandsOver
  <2>2. tpdu'[q] = Append(t, g) /\ OwnSegment(g)
    BY <2>1 DEF HandsOver, t
  <2>3. Acked(tpdu'[q], l)
    BY <1>4, <1>6, <2>1, <2>2, AckedMore
  <2>4. Len(tpdu'[q]) > 0 /\ tpdu'[q][Len(tpdu'[q])] = g
    BY <1>6, <2>2, SequenceTypes
  <2>5. Waits(q)'
    BY <2>1, <2>4 DEF Waits, HandsOver
  <2>6. QED
    BY <2>3, <2>5
<1>9. CASE ContinueSend(q)
  <2>1. PICK g \in Segment :
          /\ HandsOver(q, g, handed[q], NextSeq(txSeq[q])) /\ state[q] = "Sending"
          /\ stale' = 0 => stale = 0 /\ LastDelivered(Other(q)) = Sent(q)
    BY <1>1, <1>9, ContinueSendHandsOver
  <2>2. tpdu'[q] = Append(t, g) /\ OwnSegment(g) /\ g.frag = handed[q] /\ g.seq = NextSeq(txSeq[q])
    BY <2>1 DEF HandsOver, t
  <2>3. l = Len(t)
    BY <1>1, <1>2, <1>6, <2>1 DEF l
  <2>4. Len(t) > 0 /\ t[Len(t)].frag = handed[q] /\ t[Len(t)].seq = txSeq[q]
    BY <1>4, <2>1 DEF Waits, t
  <2>5. Acked(tpdu'[q], l)
    BY <1>4, <1>6, <2>2, <2>3, <2>4, AckedMore
  <2>6. Len(tpdu'[q]) > 0 /\ tpdu'[q][Len(tpdu'[q])] = g
    BY <1>6, <2>2, SequenceTypes
  <2>7. Waits(q)'
    BY <2>1, <2>6 DEF Waits, HandsOver
  <2>8. QED
    BY <2>5, <2>7
<1>10. CASE FinishSend(q) \/ HandleSendFailure(q)
  <2>1. tpdu'[q] = tpdu[q] /\ state'[q] = "Ready"
    BY <1>1, <1>10 DEF FinishSend, HandleSendFailure, TypeOK, link
  <2>2. Waits(q)'
    BY <2>1 DEF Waits
  <2>3. QED
    BY <1>4, <2>1, <2>2 DEF t
<1>11. ~SendUnconfirmed(q) /\ ~SendOdd(q)
  BY <1>1, <1>2, TransportAssumption DEF SendUnconfirmed, SendOdd
<1>12. QED
  BY <1>8, <1>9, <1>10, <1>11 DEF Sending, q

\* Over a link that confirms every segment that arrives is valid, unless a receiver that forgot
\* what came before gets one that goes on with it.
LEMMA ConfirmedValid ==
  ASSUME IInv, NEW p \in Stations, GoesOn(p), ConfirmedLine(p), Other(p) \in Confirming, stale = 0,
         NEW n \in 1..Sent(Other(p)), LastDelivered(p) < n
  PROVE  LET t == tpdu[Other(p)]
             l == LastDelivered(p)
         IN  /\ OwnSegment(t[n]) /\ t[n].len \in Nat \ {0}
             /\ ~t[n].fir => n = l + 1 /\ t[n].frag = t[l].frag
             /\ t[n].fir \/ buffer[p] # <<>> => ValidateHeader(p, t[n])
<1> DEFINE t == tpdu[Other(p)]
           l == LastDelivered(p)
           g == t[n]
<1>1. Payload \in Nat \ {0}
  BY TransportAssumption
<1>2. /\ Acked(t, l) /\ (buffer[p] # <<>> => LastOp(buffer[p]) = l)
  BY DEF ConfirmedLine
<1>3. /\ t \in Seq(Segment) /\ l \in Nat /\ l <= Len(t)
      /\ buffer[p] \in Seq(Nat) /\ n \in 1..Len(t) /\ n \in Nat /\ l < n
  BY Within
<1>4. Holds(buffer[p], numRead[p], FragSize[p], t) /\ numRead[p] \in Nat
  BY DEF IInv, TypeOK
<1>5. buffer[p] # <<>> => rxSeq[p] = NextSeq(t[LastOp(buffer[p])].seq)
  BY DEF GoesOn
<1> HIDE DEF t, l
<1>6. /\ OwnSegment(g) /\ g.len \in Nat \ {0}
      /\ ~g.fir => n = l + 1 /\ g.frag = t[l].frag /\ g.seq = NextSeq(t[l].seq)
  <2>1. OwnSegment(g) /\ (~g.fir => /\ n > 1 /\ n - 1 <= l
                                    /\ g.frag = t[n - 1].frag /\ g.seq = NextSeq(t[n - 1].seq))
    BY <1>2, <1>3 DEF Acked
  <2>2. ~g.fir => n = l + 1 /\ g.frag = t[l].frag /\ g.seq = NextSeq(t[l].seq)
    <3>1. ASSUME ~g.fir PROVE n - 1 = l
      BY <1>3, <2>1, <3>1
    <3>2. QED
      BY <1>3, <2>1, <3>1
  <2>3. g.len \in Nat
    BY <1>3, SegmentTypes
  <2>4. QED
    BY <2>1, <2>2, <2>3 DEF OwnSegment
<1>7. buffer[p] # <<>> => numRead[p] > 0
  <2>1. numRead[p] = Payload * Len(buffer[p])
    BY <1>4 DEF Holds
  <2>2. buffer[p] # <<>> => Len(buffer[p]) \in Nat \ {0}
    BY <1>3
  <2>3. QED
    BY <1>1, <2>1, <2>2
<1> HIDE DEF g
<1>8. g.fir \/ buffer[p] # <<>> => ValidateHeader(p, g)
  BY <1>2, <1>5, <1>6, <1>7 DEF ValidateHeader, SeqFor, OwnSegment
<1>9. QED
  BY <1>6, <1>8 DEF g, t, l

\* What arrives is put behind what it goes on with.
LEMMA ConfirmedReads ==
  ASSUME IInv, IInv', NEW p \in Stations, GoesOn(p), ConfirmedLine(p), HandleReceive(p)
  PROVE  ConfirmedLine(p)'
<1> DEFINE q == Other(p)
           t == tpdu[q]
           l == LastDelivered(p)
<1>1. q \in Stations /\ TypeOK /\ Payload \in Nat \ {0}
  BY Others, TransportAssumption DEF IInv
<1>2. PICK n \in 1..Sent(q) :
        /\ l < n /\ LastDelivered(p)' = n
        /\ tpdu' = tpdu /\ handed' = handed /\ state' = state /\ txSeq' = txSeq
        /\ toSend' = toSend /\ stale' = stale
        /\ LET g == t[n] IN Refused(p, g) \/ Overflowed(p, g) \/ Accepted(p, g, n)
  BY <1>1, Reading
<1>3. SUFFICES ASSUME q \in Confirming, stale = 0
               PROVE  /\ Acked(t, n) /\ Waits(q)'
                      /\ buffer'[p] # <<>> => LastOp(buffer'[p]) = n
                      /\ Adjacent(buffer'[p], t) /\ Whole(received'[p], t)
  BY <1>2 DEF ConfirmedLine
<1>4. /\ Acked(t, l) /\ Waits(q) /\ (buffer[p] # <<>> => LastOp(buffer[p]) = l)
      /\ Adjacent(buffer[p], t) /\ Whole(received[p], t)
  BY <1>3 DEF ConfirmedLine
<1>5. /\ t \in Seq(Segment) /\ l \in Nat /\ l <= Len(t) /\ Sent(q) = Len(t)
      /\ buffer[p] \in Seq(Nat) /\ received[p] \in Seq(Seq(Nat))
      /\ buffer[p] \in Seq(1..l)
  BY Within
<1>6. Holds(buffer[p], numRead[p], FragSize[p], t) /\ numRead[p] \in Nat
  BY DEF IInv, TypeOK
<1>7. buffer[p] # <<>> => rxSeq[p] = NextSeq(t[LastOp(buffer[p])].seq)
  BY DEF GoesOn
<1> DEFINE g == t[n]
<1>8. Refused(p, g) \/ Overflowed(p, g) \/ Accepted(p, g, n)
  BY <1>2
<1>9. n \in 1..Len(t) /\ n \in Nat
  BY <1>2, <1>5
<1>10. Waits(q)'
  BY <1>1, <1>2, <1>4 DEF Waits
<1> HIDE DEF q, t, l
<1>11. Acked(t, n)
  BY <1>2, <1>4, <1>5, <1>9 DEF Acked
<1>12. /\ OwnSegment(g) /\ g.len \in Nat \ {0}
       /\ ~g.fir => n = l + 1 /\ g.frag = t[l].frag
       /\ g.fir \/ buffer[p] # <<>> => ValidateHeader(p, g)
  BY <1>2, <1>3, ConfirmedValid DEF q, t, l
<1> HIDE DEF g
<1>13. Adjacent(<<>>, t)
  BY DEF Adjacent
<1>14. CASE Refused(p, g)
  <2>1. buffer[p] = <<>> /\ ~g.fir
    BY <1>12, <1>14 DEF OwnSegment, Refused
  <2>2. buffer'[p] = <<>> /\ received'[p] = received[p]
    BY <1>14, <2>1 DEF Refused
  <2>3. QED
    BY <1>4, <1>10, <1>11, <1>13, <2>2
<1>15. CASE Overflowed(p, g)
  BY <1>4, <1>10, <1>11, <1>13, <1>15 DEF Overflowed
<1>16. CASE Accepted(p, g, n)
  <2> DEFINE b == BufferFor(p, g)
             c == Append(b, n)
  <2>1. \/ g.fir /\ b = <<>>
        \/ ~g.fir /\ b = buffer[p] /\ buffer[p] # <<>>
    BY <1>16, ValidSegment DEF Accepted
  <2>2. b \in Seq(Nat)
    BY <1>5 DEF BufferFor
  <2> HIDE DEF b
  <2>3. b # <<>> => Adjacent(b, t) /\ n = LastOp(b) + 1 /\ g.frag = t[LastOp(b)].frag
    BY <1>4, <1>12, <2>1
  <2>4. Adjacent(c, t)
    BY <1>9, <2>2, <2>3, AdjacentMore DEF g
  <2>5. c \in Seq(Nat) /\ LastOp(c) = n /\ c[1] = (IF b = <<>> THEN n ELSE b[1])
    <3>1. c \in Seq(Nat) /\ LastOp(c) = n /\ Len(b) \in Nat
          /\ (\A i \in 1..Len(b) : c[i] = b[i]) /\ c[Len(b) + 1] = n
      BY <1>9, <2>2, LastOpOfAppend
    <3>2. b # <<>> => 1 \in 1..Len(b)
      BY <2>2
    <3>3. b = <<>> => Len(b) = 0
      OBVIOUS
    <3> HIDE DEF c
    <3>4. QED
      BY <3>1, <3>2, <3>3
  <2> HIDE DEF c
  <2>6. t[c[1]].fir
    <3>1. CASE b = <<>>
      BY <2>1, <2>5, <3>1 DEF g
    <3>2. CASE b # <<>>
      <4>1. b = buffer[p] /\ 1 \in 1..Len(buffer[p]) /\ c[1] = buffer[p][1]
        BY <1>5, <2>1, <2>5, <3>2
      <4>2. QED
        BY <1>6, <4>1 DEF Holds
    <3>3. QED
      BY <3>1, <3>2
  <2>7. g.fin => Whole(Append(received[p], c), t)
    BY <1>4, <1>5, <2>4, <2>5, <2>6, WholeMore DEF g
  <2>8. \/ g.fin /\ buffer'[p] = <<>> /\ received'[p] = Append(received[p], c)
        \/ received'[p] = received[p] /\ buffer'[p] = c
    BY <1>16 DEF Accepted, c, b
  <2>9. QED
    BY <1>4, <1>10, <1>11, <1>13, <2>4, <2>5, <2>7, <2>8
<1>17. QED
  BY <1>8, <1>14, <1>15, <1>16 DEF g

LEMMA ConfirmedKept ==
  ASSUME IInv, IInv', NEW p \in Stations, ConfirmedLine(p), stale' = 0 => stale = 0,
         tpdu'[Other(p)] = tpdu[Other(p)], handed'[Other(p)] = handed[Other(p)],
         toSend'[Other(p)] = toSend[Other(p)], txSeq'[Other(p)] = txSeq[Other(p)],
         state'[Other(p)] = "Sending" => state[Other(p)] = "Sending",
         delivered'[p] = delivered[p], received'[p] = received[p],
         buffer'[p] = buffer[p] \/ buffer'[p] = <<>>
  PROVE  ConfirmedLine(p)'
<1>1. SUFFICES ASSUME Other(p) \in Confirming, stale = 0
               PROVE  /\ Acked(tpdu'[Other(p)], LastDelivered(p)') /\ Waits(Other(p))'
                      /\ buffer'[p] # <<>> => LastOp(buffer'[p]) = LastDelivered(p)'
                      /\ Adjacent(buffer'[p], tpdu'[Other(p)]) /\ Whole(received'[p], tpdu'[Other(p)])
  BY DEF ConfirmedLine
<1>2. /\ Acked(tpdu[Other(p)], LastDelivered(p)) /\ Waits(Other(p))
      /\ (buffer[p] # <<>> => LastOp(buffer[p]) = LastDelivered(p))
      /\ Adjacent(buffer[p], tpdu[Other(p)]) /\ Whole(received[p], tpdu[Other(p)])
  BY <1>1 DEF ConfirmedLine
<1>3. Extends(tpdu'[Other(p)], tpdu[Other(p)])
  BY Within DEF Extends
<1>4. /\ LastDelivered(p)' = LastDelivered(p)
      /\ buffer'[p] # <<>> => LastOp(buffer'[p]) = LastDelivered(p)
      /\ Adjacent(buffer'[p], tpdu'[Other(p)]) /\ Whole(received'[p], tpdu'[Other(p)])
  BY <1>2, <1>3, PutTogetherKept
<1>5. Waits(Other(p))'
  BY <1>2 DEF Waits
<1>6. Acked(tpdu'[Other(p)], LastDelivered(p)')
  BY <1>2, <1>4
<1>7. QED
  BY <1>4, <1>5, <1>6

---------------------------------------------------------------------------
(* What is reported as sent *)

\* Fragment f of the segments t is among the fragments r.
Among(f, r, t) == \E i \in 1..Len(r) : t[LastOp(r[i])].frag = f

\* What p still has to receive of the fragment its peer is sending fits its buffer, and what was
\* delivered of it is there: the segments t of fragment f, of which operation l was delivered
\* last, rest bytes are not in t, b holds read bytes of it, and size is that of the sender's buffer.
Gets(t, f, l, rest, b, read, r, size) ==
  LET n == Len(t)
  IN  IF l = n
        THEN IF t[n].fin THEN Among(f, r, t) ELSE b # <<>> /\ read + rest <= size
        ELSE IF t[n].fir THEN t[n].len + rest <= size
                         ELSE b # <<>> /\ read + t[n].len + rest <= size

ReportedLine(p) ==
  LET q == Other(p)
  IN  q \in Confirming /\ stale = 0 /\ FragSize[q] <= FragSize[p] =>
        /\ state[q] = "Sending" /\ handed[q] \notin cut[q] =>
             Gets(tpdu[q], handed[q], LastDelivered(p), toSend[q], buffer[p], numRead[p],
                  received[p], FragSize[q])
        /\ \A f \in reported[q] \ cut[q] : Among(f, received[p], tpdu[q])

LEMMA AmongKept ==
  ASSUME NEW t \in Seq(Segment), NEW u \in Seq(Segment), Extends(u, t), NEW l \in Nat, l <= Len(t),
         NEW r, \A i \in 1..Len(r) : r[i] # <<>> /\ r[i] \in Seq(1..l), NEW f, Among(f, r, t)
  PROVE  Among(f, r, u)
<1>1. PICK i \in 1..Len(r) : t[LastOp(r[i])].frag = f
  BY DEF Among
<1>2. LastOp(r[i]) \in 1..l
  BY LastOpIn
<1>3. u[LastOp(r[i])] = t[LastOp(r[i])]
  BY <1>2 DEF Extends
<1>4. QED
  BY <1>1, <1>3 DEF Among

LEMMA AmongMore ==
  ASSUME NEW r \in Seq(Seq(Nat)), NEW c \in Seq(Nat), NEW t
  PROVE  /\ \A f : Among(f, r, t) => Among(f, Append(r, c), t)
         /\ Among(t[LastOp(c)].frag, Append(r, c), t)
<1> DEFINE s == Append(r, c)
<1>1. /\ Len(s) = Len(r) + 1 /\ Len(r) \in Nat /\ s[Len(r) + 1] = c
      /\ \A i \in 1..Len(r) : s[i] = r[i]
  BY SequenceTypes
<1> HIDE DEF s
<1>2. (\A i \in 1..Len(r) : i \in 1..Len(s)) /\ Len(r) + 1 \in 1..Len(s)
  BY <1>1
<1>3. \A f : Among(f, r, t) => Among(f, s, t)
  BY <1>1, <1>2 DEF Among
<1>4. Among(t[LastOp(c)].frag, s, t)
  BY <1>1, <1>2 DEF Among
<1>5. QED
  BY <1>3, <1>4 DEF s

\* A fragment over a link that confirms: it is handed over segment by segment, each after the
\* one before was delivered, and is reported when the last one was.
LEMMA ReportedSends ==
  ASSUME IInv, IInv', NEW p \in Stations, ConfirmedLine(p), ReportedLine(p), Sending(Other(p))
  PROVE  ReportedLine(p)'
<1> DEFINE q == Other(p)
           t == tpdu[q]
           l == LastDelivered(p)
           r == received[p]
<1>1. q \in Stations /\ TypeOK /\ Other(q) = p
  BY Others DEF IInv
<1>2. /\ buffer'[p] = buffer[p] /\ numRead'[p] = numRead[p] /\ delivered'[p] = delivered[p]
      /\ received'[p] = r
  BY <1>1, OtherReceiverKept
<1>3. LastDelivered(p)' = l
  BY <1>2 DEF LastDelivered
<1>4. cut' = cut
  BY <1>1 DEF Sending, Send, SendUnconfirmed, SendOdd, ContinueSend, FinishSend,
     HandleSendFailure, history
<1>5. SUFFICES ASSUME q \in Confirming, stale' = 0, FragSize[q] <= FragSize[p]
               PROVE  /\ state'[q] = "Sending" /\ handed'[q] \notin cut[q] =>
                           Gets(tpdu'[q], handed'[q], l, toSend'[q], buffer[p], numRead[p], r,
                                FragSize[q])
                      /\ \A f \in reported'[q] \ cut[q] : Among(f, r, tpdu'[q])
  BY <1>2, <1>3, <1>4 DEF ReportedLine
<1>6. stale = 0
  <2>1. q \in Stations /\ Sending(q) /\ stale' = 0
    BY <1>1, <1>5
  <2> HIDE DEF q
  <2>2. QED
    BY <2>1, StaleGrows
<1>7. Acked(t, l) /\ Waits(q)
  BY <1>5, <1>6 DEF ConfirmedLine
<1>8. /\ state[q] = "Sending" /\ handed[q] \notin cut[q] =>
           Gets(t, handed[q], l, toSend[q], buffer[p], numRead[p], r, FragSize[q])
      /\ \A f \in reported[q] \ cut[q] : Among(f, r, t)
  BY <1>5, <1>6 DEF ReportedLine
<1>9. /\ t \in Seq(Segment) /\ l \in Nat /\ l <= Len(t) /\ Sent(q) = Len(t)
      /\ \A i \in 1..Len(r) : r[i] # <<>> /\ r[i] \in Seq(1..l)
  BY Within
<1>10. Extends(tpdu'[q], t) /\ tpdu'[q] \in Seq(Segment)
  BY <1>1, LinksExtend DEF IInv, TypeOK
<1>11. \A f : Among(f, r, t) => Among(f, r, tpdu'[q])
  BY <1>9, <1>10, AmongKept
<1>12. /\ numRead[p] \in Nat /\ toSend[q] \in Nat /\ toSend'[q] \in Nat /\ FragSize[q] \in Nat
  BY <1>1, TransportAssumption DEF IInv, TypeOK
<1> HIDE DEF q, t, l, r
<1>13. CASE Send(q)
  <2>1. PICK g \in Segment : /\ HandsOver(q, g, handed[q] + 1, txSeq[q])
                             /\ g.fir /\ g.len + toSend'[q] <= FragSize[q] /\ reported' = reported
    BY <1>1, <1>13, SendHandsOver
  <2>2. tpdu'[q] = Append(t, g)
    BY <2>1 DEF HandsOver, t
  <2>3. Len(tpdu'[q]) = Len(t) + 1 /\ tpdu'[q][Len(tpdu'[q])] = g /\ l # Len(tpdu'[q])
    BY <1>9, <2>2, SequenceTypes
  <2>4. Gets(tpdu'[q], handed'[q], l, toSend'[q], buffer[p], numRead[p], r, FragSize[q])
    BY <2>1, <2>3 DEF Gets
  <2>5. QED
    BY <1>8, <1>11, <2>1, <2>4
<1>14. CASE ContinueSend(q)
  <2>1. PICK g \in Segment :
          /\ HandsOver(q, g, handed[q], NextSeq(txSeq[q])) /\ state[q] = "Sending"
          /\ ~g.fir /\ g.len + toSend'[q] = toSend[q] /\ toSend[q] > 0
          /\ stale' = 0 => stale = 0 /\ LastDelivered(Other(q)) = Sent(q)
          /\ reported' = reported
    BY <1>1, <1>14, ContinueSendHandsOver
  <2>2. tpdu'[q] = Append(t, g) /\ handed'[q] = handed[q]
    BY <2>1 DEF HandsOver, t
  <2>3. l = Len(t)
    BY <1>1, <1>5, <1>9, <2>1 DEF l
  <2>4. Len(tpdu'[q]) = Len(t) + 1 /\ tpdu'[q][Len(tpdu'[q])] = g /\ l # Len(tpdu'[q])
    BY <1>9, <2>2, <2>3, SequenceTypes
  <2>5. ~t[Len(t)].fin
    BY <1>7, <1>12, <2>1 DEF Waits, t
  <2>6. ASSUME handed[q] \notin cut[q]
        PROVE  Gets(tpdu'[q], handed'[q], l, toSend'[q], buffer[p], numRead[p], r, FragSize[q])
    <3>1. buffer[p] # <<>> /\ numRead[p] + toSend[q] <= FragSize[q]
      BY <1>8, <2>1, <2>3, <2>5, <2>6 DEF Gets
    <3>2. numRead[p] + g.len + toSend'[q] <= FragSize[q]
      <4>1. g.len \in Nat
        BY DEF Segment
      <4>2. QED
        BY <1>12, <2>1, <3>1, <4>1
    <3>3. QED
      BY <2>1, <2>4, <3>1, <3>2 DEF Gets
  <2>7. QED
    BY <1>8, <1>11, <2>1, <2>2, <2>6
<1>15. CASE FinishSend(q)
  <2>1. /\ tpdu' = tpdu /\ state'[q] = "Ready" /\ toSend[q] = 0 /\ state[q] = "Sending"
        /\ reported'[q] = reported[q] \cup {handed[q]}
    BY <1>1, <1>15 DEF FinishSend, Acknowledged, TypeOK, link
  <2>2. LastDelivered(Other(q)) = Sent(q)
    BY <1>5, <1>6, <1>15 DEF FinishSend, Acknowledged
  <2>3. l = Len(t)
    BY <1>1, <1>9, <2>2 DEF l
  <2>4. t[Len(t)].fin
    BY <1>7, <2>1 DEF Waits, t
  <2>5. handed[q] \notin cut[q] => Among(handed[q], r, t)
    BY <1>8, <2>1, <2>3, <2>4 DEF Gets
  <2>6. QED
    BY <1>8, <2>1, <2>5 DEF t
<1>16. CASE HandleSendFailure(q)
  <2>1. tpdu' = tpdu /\ state'[q] = "Ready" /\ reported' = reported
    BY <1>1, <1>16 DEF HandleSendFailure, TypeOK, link, history
  <2>2. QED
    BY <1>8, <2>1 DEF t
<1>17. ~SendUnconfirmed(q) /\ ~SendOdd(q)
  BY <1>1, <1>5, TransportAssumption DEF SendUnconfirmed, SendOdd
<1>18. QED
  BY <1>13, <1>14, <1>15, <1>16, <1>17 DEF Sending, q

LEMMA ReportedReads ==
  ASSUME IInv, IInv', NEW p \in Stations, GoesOn(p), ConfirmedLine(p), ReportedLine(p),
         HandleReceive(p)
  PROVE  ReportedLine(p)'
<1> DEFINE q == Other(p)
           t == tpdu[q]
           l == LastDelivered(p)
           r == received[p]
<1>1. q \in Stations /\ TypeOK
  BY Others DEF IInv
<1>2. PICK n \in 1..Sent(q) :
        /\ l < n /\ LastDelivered(p)' = n
        /\ tpdu' = tpdu /\ handed' = handed /\ state' = state
        /\ toSend' = toSend /\ stale' = stale /\ reported' = reported /\ cut' = cut
        /\ LET g == t[n] IN Refused(p, g) \/ Overflowed(p, g) \/ Accepted(p, g, n)
  BY <1>1, Reading
<1>3. SUFFICES ASSUME q \in Confirming, stale = 0, FragSize[q] <= FragSize[p]
               PROVE  /\ state[q] = "Sending" /\ handed[q] \notin cut[q] =>
                           Gets(t, handed[q], n, toSend[q], buffer'[p], numRead'[p], received'[p],
                                FragSize[q])
                      /\ \A f \in reported[q] \ cut[q] : Among(f, received'[p], t)
  BY <1>2 DEF ReportedLine
<1>4. Acked(t, l) /\ Waits(q)
  BY <1>3 DEF ConfirmedLine
<1>5. /\ state[q] = "Sending" /\ handed[q] \notin cut[q] =>
           Gets(t, handed[q], l, toSend[q], buffer[p], numRead[p], r, FragSize[q])
      /\ \A f \in reported[q] \ cut[q] : Among(f, r, t)
  BY <1>3 DEF ReportedLine
<1>6. /\ t \in Seq(Segment) /\ l \in Nat /\ l <= Len(t) /\ Sent(q) = Len(t)
      /\ buffer[p] \in Seq(Nat) /\ r \in Seq(Seq(Nat))
  BY Within
<1>7. /\ numRead[p] \in Nat /\ toSend[q] \in Nat /\ FragSize[q] \in Nat /\ FragSize[p] \in Nat
  BY <1>1, TransportAssumption DEF TypeOK
<1> DEFINE g == t[n]
<1>8. /\ OwnSegment(g) /\ g.len \in Nat \ {0}
      /\ ~g.fir => n = l + 1
      /\ g.fir \/ buffer[p] # <<>> => ValidateHeader(p, g)
  BY <1>2, <1>3, ConfirmedValid
<1>9. Refused(p, g) \/ Overflowed(p, g) \/ Accepted(p, g, n)
  BY <1>2
<1>10. n \in 1..Len(t) /\ n \in Nat /\ l < n
  BY <1>2, <1>6
<1> DEFINE c == Append(BufferFor(p, g), n)
<1>11. c \in Seq(Nat) /\ c # <<>> /\ LastOp(c) = n
  <2>1. BufferFor(p, g) \in Seq(Nat)
    BY <1>6 DEF BufferFor
  <2>2. QED
    BY <1>10, <2>1, LastOpOfAppend
<1>12. \/ received'[p] = r
       \/ received'[p] = Append(r, c)
  BY <1>9 DEF Refused, Overflowed, Accepted
<1>13. \A f : Among(f, r, t) => Among(f, received'[p], t)
  BY <1>6, <1>11, <1>12, AmongMore
<1>14. /\ g.fir => ReadFor(p, g) = 0
       /\ ~g.fir => ReadFor(p, g) = numRead[p]
  BY DEF ReadFor
<1>15. Waits(q) => (state[q] = "Sending" => t[Len(t)].frag = handed[q])
  BY DEF Waits
<1> HIDE DEF q, t, l, r, c
<1>16. ASSUME state[q] = "Sending", handed[q] \notin cut[q]
       PROVE  Gets(t, handed[q], n, toSend[q], buffer'[p], numRead'[p], received'[p], FragSize[q])
  <2>1. IF t[Len(t)].fir THEN t[Len(t)].len + toSend[q] <= FragSize[q]
                         ELSE buffer[p] # <<>> /\ numRead[p] + t[Len(t)].len + toSend[q] <= FragSize[q]
    BY <1>5, <1>6, <1>10, <1>16 DEF Gets
  <2>2. CASE n < Len(t)
    <3>1. Len(t) \in 1..Len(t) /\ Len(t) - 1 > l
      BY <1>6, <1>10, <2>2
    <3>2. t[Len(t)].fir
      BY <1>4, <1>6, <3>1 DEF Acked
    <3>3. QED
      BY <1>10, <2>1, <2>2, <3>2 DEF Gets
  <2>3. CASE n = Len(t)
    <3>1. /\ g.fir => g.len + toSend[q] <= FragSize[q]
          /\ ~g.fir => buffer[p] # <<>> /\ numRead[p] + g.len + toSend[q] <= FragSize[q]
      BY <2>1, <2>3
    <3> HIDE DEF g
    <3>2. ReadFor(p, g) \in Nat /\ ReadFor(p, g) + g.len + toSend[q] <= FragSize[q]
      BY <1>7, <1>8, <1>14, <3>1
    <3>3. ValidateHeader(p, g) /\ Fits(p, g)
      <4>1. ReadFor(p, g) + g.len <= FragSize[p]
        BY <1>3, <1>7, <1>8, <3>2
      <4>2. QED
        BY <1>8, <3>1, <4>1 DEF Fits
    <3>4. Accepted(p, g, n)
      BY <1>8, <1>9, <3>3 DEF Refused, Overflowed
    <3>5. CASE g.fin
      <4>1. received'[p] = Append(r, c)
        BY <3>4, <3>5 DEF Accepted, c, r
      <4>2. t[LastOp(c)].frag = handed[q]
        BY <1>4, <1>11, <1>15, <1>16, <2>3
      <4>3. Among(handed[q], received'[p], t)
        BY <1>6, <1>11, <4>1, <4>2, AmongMore
      <4>4. QED
        BY <2>3, <3>5, <4>3 DEF Gets, g
    <3>6. CASE ~g.fin
      <4>1. buffer'[p] = c /\ numRead'[p] = ReadFor(p, g) + g.len
        BY <3>4, <3>6 DEF Accepted, c
      <4>2. buffer'[p] # <<>> /\ numRead'[p] + toSend[q] <= FragSize[q]
        BY <1>11, <3>2, <4>1
      <4>3. QED
        BY <2>3, <3>6, <4>2 DEF Gets, g
    <3>7. QED
      BY <3>5, <3>6
  <2>4. QED
    BY <1>6, <1>10, <2>2, <2>3
<1>17. QED
  BY <1>5, <1>13, <1>16

LEMMA ReportedKept ==
  ASSUME IInv, IInv', NEW p \in Stations, ReportedLine(p), stale' = 0 => stale = 0,
         tpdu'[Other(p)] = tpdu[Other(p)], handed'[Other(p)] = handed[Other(p)],
         toSend'[Other(p)] = toSend[Other(p)], reported'[Other(p)] = reported[Other(p)],
         state'[Other(p)] = "Sending" => state[Other(p)] = "Sending",
         delivered'[p] = delivered[p], received'[p] = received[p],
         \/ cut'[Other(p)] = cut[Other(p)] /\ buffer'[p] = buffer[p] /\ numRead'[p] = numRead[p]
         \/ cut'[Other(p)] = cut[Other(p)] \cup {handed[Other(p)]}
  PROVE  ReportedLine(p)'
<1>1. LastDelivered(p)' = LastDelivered(p)
  BY DEF LastDelivered
<1>2. QED
  BY <1>1 DEF ReportedLine

---------------------------------------------------------------------------
(* Over a link that does not confirm *)

\* Division with the modulus of the sequence.
LEMMA ModIs ==
  ASSUME NEW k \in Int, NEW r \in 0..SeqModulus - 1
  PROVE  (k * SeqModulus + r) % SeqModulus = r
<1> DEFINE a == k * SeqModulus + r
           j == a \div SeqModulus
           z == a % SeqModulus
<1>1. SeqModulus \in Nat \ {0} /\ a \in Int /\ r \in Int
  BY TransportAssumption
<1>2. j \in Int /\ z \in 0..SeqModulus - 1 /\ a = SeqModulus * j + z
  BY <1>1
<1> HIDE DEF j, z
<1>3. (k - j) * SeqModulus = z - r
  BY <1>1, <1>2
<1>4. CASE k - j >= 1
  <2>1. (k - j - 1) * SeqModulus >= 0
    BY <1>1, <1>2, <1>4
  <2>2. (k - j - 1) * SeqModulus = (k - j) * SeqModulus - SeqModulus
    BY <1>1, <1>2
  <2>3. QED
    BY <1>1, <1>2, <1>3, <2>1, <2>2
<1>5. CASE j - k >= 1
  <2>1. (j - k - 1) * SeqModulus >= 0
    BY <1>1, <1>2, <1>5
  <2>2. (j - k - 1) * SeqModulus = 0 - (k - j) * SeqModulus - SeqModulus
    BY <1>1, <1>2
  <2>3. QED
    BY <1>1, <1>2, <1>3, <2>1, <2>2
<1>6. CASE k = j
  BY <1>1, <1>2, <1>6 DEF z
<1>7. QED
  BY <1>1, <1>2, <1>4, <1>5, <1>6

\* What is left of a when whole turns of the sequence are taken away.
LEMMA ModOf ==
  ASSUME NEW a \in Nat
  PROVE  \E k \in Nat : /\ a % SeqModulus \in 0..SeqModulus - 1
                        /\ a = k * SeqModulus + (a % SeqModulus)
<1>1. SeqModulus \in Nat \ {0}
  BY TransportAssumption
<1>2. /\ a \div SeqModulus \in Nat /\ a % SeqModulus \in 0..SeqModulus - 1
      /\ a = (a \div SeqModulus) * SeqModulus + (a % SeqModulus)
  BY <1>1
<1>3. QED
  BY <1>2

LEMMA ModPlus ==
  ASSUME NEW a \in Nat, NEW i \in Nat
  PROVE  ((a % SeqModulus) + i) % SeqModulus = (a + i) % SeqModulus
<1>1. SeqModulus \in Nat \ {0}
  BY TransportAssumption
<1>2. PICK k \in Nat : a % SeqModulus \in 0..SeqModulus - 1 /\ a = k * SeqModulus + (a % SeqModulus)
  BY ModOf
<1> DEFINE x == a % SeqModulus
<1>3. x \in Nat /\ a = k * SeqModulus + x
  BY <1>1, <1>2
<1> HIDE DEF x
<1>4. PICK j \in Nat : /\ (x + i) % SeqModulus \in 0..SeqModulus - 1
                       /\ x + i = j * SeqModulus + ((x + i) % SeqModulus)
  BY <1>3, ModOf
<1> DEFINE r == (x + i) % SeqModulus
<1>5. r \in 0..SeqModulus - 1 /\ x + i = j * SeqModulus + r
  BY <1>4
<1> HIDE DEF r
<1>6. a + i = (k + j) * SeqModulus + r
  <2>1. (k + j) * SeqModulus = k * SeqModulus + j * SeqModulus
    BY <1>1
  <2>2. k * SeqModulus \in Nat /\ j * SeqModulus \in Nat
    BY <1>1
  <2>3. QED
    BY <1>1, <1>3, <1>5, <2>1, <2>2
<1>7. (a + i) % SeqModulus = r
  BY <1>5, <1>6, ModIs
<1>8. QED
  BY <1>7 DEF r, x

\* Within one turn of the sequence, its next value is that of the next segment.
LEMMA ModNext ==
  ASSUME NEW a \in Nat, NEW d \in 1..SeqModulus, (a + d) % SeqModulus = (a + 1) % SeqModulus
  PROVE  d = 1
<1>1. SeqModulus \in Nat \ {0} /\ d \in Nat /\ d >= 1 /\ d <= SeqModulus
  BY TransportAssumption
<1>2. PICK k \in Nat : /\ (a + 1) % SeqModulus \in 0..SeqModulus - 1
                       /\ a + 1 = k * SeqModulus + ((a + 1) % SeqModulus)
  BY ModOf
<1> DEFINE r == (a + 1) % SeqModulus
<1>3. r \in 0..SeqModulus - 1 /\ a + 1 = k * SeqModulus + r /\ (a + d) % SeqModulus = r
  BY <1>2
<1> HIDE DEF r
<1>4. k * SeqModulus \in Nat /\ (k + 1) * SeqModulus = k * SeqModulus + SeqModulus
  BY <1>1
<1>5. CASE r + d - 1 < SeqModulus
  <2>1. r + d - 1 \in 0..SeqModulus - 1 /\ a + d = k * SeqModulus + (r + d - 1)
    BY <1>1, <1>3, <1>4, <1>5
  <2>2. (k * SeqModulus + (r + d - 1)) % SeqModulus = r + d - 1
    BY <2>1, ModIs
  <2>3. r = r + d - 1
    BY <1>3, <2>1, <2>2
  <2>4. QED
    BY <1>1, <1>3, <2>3
<1>6. CASE r + d - 1 >= SeqModulus
  <2>1. /\ r + d - 1 - SeqModulus \in 0..SeqModulus - 1
        /\ a + d = (k + 1) * SeqModulus + (r + d - 1 - SeqModulus)
    BY <1>1, <1>3, <1>4, <1>6
  <2>2. ((k + 1) * SeqModulus + (r + d - 1 - SeqModulus)) % SeqModulus = r + d - 1 - SeqModulus
    BY <2>1, ModIs
  <2>3. r = r + d - 1 - SeqModulus
    BY <1>3, <2>1, <2>2
  <2>4. QED
    BY <1>1, <1>3, <2>3
<1>7. QED
  BY <1>1, <1>3, <1>5, <1>6

\* The numbers c count the segments of t that TransportTx formed and whose sequences follow
\* those numbers; s is the next sequence.
Counts(c, t, s) ==
  /\ c \in [1..Len(t) + 1 -> Nat]
  /\ \A i, k \in 1..Len(t) + 1 : i <= k => c[i] <= c[k] /\ c[k] - c[i] <= k - i
  /\ \A i \in 1..Len(t) : t[i].own => c[i + 1] = c[i] + 1 /\ t[i].seq = c[i] % SeqModulus
  /\ s = c[Len(t) + 1] % SeqModulus

\* The segments of a fragment that TransportTx formed are next to one another.
Together(t) ==
  \A i \in 1..Len(t) : t[i].own /\ ~t[i].fin =>
    i < Len(t) /\ t[i + 1].own /\ t[i + 1].frag = t[i].frag

\* c with m more numbers, each of which is e (0 or 1) more than the one before.
More(c, L, m, e) ==
  [i \in 1..L + 1 + m |->
     IF i <= L + 1 THEN c[i] ELSE IF e = 1 THEN c[L + 1] + (i - L - 1) ELSE c[L + 1]]

\* What is so of these numbers d when c are the first L + 1 of them.
Longer(d, c, L, m, e) ==
  /\ d \in [1..L + 1 + m -> Nat]
  /\ \A i, k \in 1..L + 1 + m : i <= k => d[i] <= d[k] /\ d[k] - d[i] <= k - i
  /\ \A i \in 1..L + 1 : d[i] = c[i]
  /\ \A i \in 0..m : d[L + 1 + i] = IF e = 1 THEN c[L + 1] + i ELSE c[L + 1]
  /\ c[L + 1] \in Nat

LEMMA CountsMore ==
  ASSUME NEW t \in Seq(Segment), NEW c, NEW x, Counts(c, t, x), NEW m \in Nat, NEW e \in {0, 1}
  PROVE  Longer(More(c, Len(t), m, e), c, Len(t), m, e)
<1> DEFINE L == Len(t)
           d == More(c, L, m, e)
<1>1. /\ L \in Nat /\ c \in [1..L + 1 -> Nat]
      /\ \A i, k \in 1..L + 1 : i <= k => c[i] <= c[k] /\ c[k] - c[i] <= k - i
  BY DEF Counts
<1>2. L + 1 \in 1..L + 1 /\ c[L + 1] \in Nat
  BY <1>1
<1> HIDE DEF L
<1>3. \A i \in 1..L + 1 : i \in 1..L + 1 + m /\ d[i] = c[i] /\ c[i] \in Nat
  BY <1>1 DEF More
<1>4. \A i \in 1..L + 1 + m : i > L + 1 =>
        d[i] = IF e = 1 THEN c[L + 1] + (i - L - 1) ELSE c[L + 1]
  BY <1>1 DEF More
<1>5. d = [i \in 1..L + 1 + m |-> d[i]]
  BY DEF More
<1> HIDE DEF d
<1>6. d \in [1..L + 1 + m -> Nat]
  <2>1. ASSUME NEW i \in 1..L + 1 + m PROVE d[i] \in Nat
    <3>1. CASE i <= L + 1
      BY <1>1, <1>3, <3>1
    <3>2. CASE i > L + 1
      BY <1>1, <1>2, <1>4, <3>2
    <3>3. QED
      BY <1>1, <3>1, <3>2
  <2>2. QED
    BY <1>5, <2>1
<1>7. ASSUME NEW i \in 1..L + 1 + m, NEW k \in 1..L + 1 + m, i <= k
      PROVE  d[i] <= d[k] /\ d[k] - d[i] <= k - i
  <2>1. CASE k <= L + 1
    <3>1. i \in 1..L + 1 /\ k \in 1..L + 1
      BY <1>1, <1>7, <2>1
    <3>2. QED
      BY <1>1, <1>3, <1>7, <3>1
  <2>2. CASE i <= L + 1 /\ k > L + 1
    <3>1. /\ c[i] <= c[L + 1] /\ c[L + 1] - c[i] <= L + 1 - i /\ c[i] \in Nat
      BY <1>1, <1>2, <1>3, <1>7, <2>2
    <3>2. d[i] = c[i] /\ (d[k] = c[L + 1] + (k - L - 1) \/ d[k] = c[L + 1])
      BY <1>1, <1>3, <1>4, <2>2
    <3>3. i \in Int /\ k \in Int /\ L \in Int /\ c[L + 1] \in Int /\ k - L - 1 >= 0
      BY <1>1, <1>2, <2>2
    <3>4. d[k] <= c[L + 1] + (k - L - 1) /\ c[L + 1] <= d[k] /\ d[k] \in Int
      BY <3>2, <3>3
    <3>5. d[i] <= c[L + 1] /\ c[L + 1] - d[i] <= L + 1 - i /\ d[i] \in Int
      BY <3>1, <3>2
    <3> DEFINE v == d[i]
               y == d[k]
               z == c[L + 1]
    <3>6. /\ v \in Int /\ y \in Int /\ z \in Int
          /\ v <= z /\ z <= y /\ z - v <= L + 1 - i /\ y <= z + (k - L - 1)
      BY <3>3, <3>4, <3>5
    <3> HIDE DEF v, y, z
    <3>7. v <= y /\ y - v <= k - i
      BY <3>3, <3>6
    <3>8. QED
      BY <3>7 DEF v, y
  <2>3. CASE i > L + 1
    <3>1. /\ d[i] = IF e = 1 THEN c[L + 1] + (i - L - 1) ELSE c[L + 1]
          /\ d[k] = IF e = 1 THEN c[L + 1] + (k - L - 1) ELSE c[L + 1]
      BY <1>1, <1>4, <1>7, <2>3
    <3>2. QED
      BY <1>1, <1>2, <1>7, <3>1
  <2>4. QED
    BY <1>1, <2>1, <2>2, <2>3
<1>8. ASSUME NEW i \in 0..m
      PROVE  d[L + 1 + i] = IF e = 1 THEN c[L + 1] + i ELSE c[L + 1]
  <2>1. CASE i = 0
    BY <1>1, <1>2, <1>3, <2>1
  <2>2. CASE i > 0
    <3>1. PICK k \in 1..L + 1 + m : k = L + 1 + i
      BY <1>1, <2>2
    <3>2. k > L + 1 /\ k - L - 1 = i
      BY <1>1, <2>2, <3>1
    <3>3. d[k] = IF e = 1 THEN c[L + 1] + (k - L - 1) ELSE c[L + 1]
      BY <1>4, <3>2
    <3>4. QED
      BY <3>1, <3>2, <3>3
  <2>3. QED
    BY <2>1, <2>2
<1>9. QED
  BY <1>2, <1>3, <1>6, <1>7, <1>8 DEF Longer, d, L

\* One segment that TransportTx did not form.
LEMMA CountsOdd ==
  ASSUME NEW t \in Seq(Segment), NEW c, NEW s, Counts(c, t, s), NEW g \in Segment, ~g.own
  PROVE  \E d : Counts(d, Append(t, g), s)
<1> DEFINE u == Append(t, g)
           d == More(c, Len(t), 1, 0)
<1>1. /\ Len(u) = Len(t) + 1 /\ Len(t) \in Nat /\ u[Len(t) + 1] = g
      /\ \A i \in 1..Len(t) : u[i] = t[i]
  BY SequenceTypes
<1>2. /\ d \in [1..Len(t) + 1 + 1 -> Nat]
      /\ \A i, k \in 1..Len(t) + 1 + 1 : i <= k => d[i] <= d[k] /\ d[k] - d[i] <= k - i
      /\ \A i \in 1..Len(t) + 1 : d[i] = c[i]
      /\ \A i \in 0..1 : d[Len(t) + 1 + i] = c[Len(t) + 1]
      /\ c[Len(t) + 1] \in Nat
  <2>1. 0 \in {0, 1} /\ 1 \in Nat
    OBVIOUS
  <2>2. Longer(d, c, Len(t), 1, 0)
    BY <2>1, CountsMore
  <2> HIDE DEF d
  <2>3. QED
    BY <2>2 DEF Longer
<1> HIDE DEF u, d
<1>3. d[Len(u) + 1] = c[Len(t) + 1]
  BY <1>1, <1>2
<1>4. ASSUME NEW i \in 1..Len(u), u[i].own
      PROVE  d[i + 1] = d[i] + 1 /\ u[i].seq = d[i] % SeqModulus
  <2>1. i \in 1..Len(t) /\ u[i] = t[i]
    BY <1>1, <1>4
  <2>2. d[i + 1] = c[i + 1] /\ d[i] = c[i]
    BY <1>1, <1>2, <2>1
  <2>3. QED
    BY <1>4, <2>1, <2>2 DEF Counts
<1>5. s = d[Len(u) + 1] % SeqModulus
  BY <1>3 DEF Counts
<1>6. /\ d \in [1..Len(u) + 1 -> Nat]
      /\ \A i, k \in 1..Len(u) + 1 : i <= k => d[i] <= d[k] /\ d[k] - d[i] <= k - i
  BY <1>1, <1>2
<1>7. Counts(d, u, s)
  BY <1>4, <1>5, <1>6 DEF Counts
<1>8. QED
  BY <1>7 DEF u

\* The segments of a fragment that TransportTx formed.
LEMMA CountsFragment ==
  ASSUME NEW t \in Seq(Segment), NEW c, NEW x, Counts(c, t, x),
         NEW s \in Seq(Segment), NEW f, AllSegments(s, f, x)
  PROVE  \E d : Counts(d, t \o s, (x + Len(s)) % SeqModulus)
<1> DEFINE u == t \o s
           L == Len(t)
           d == More(c, L, Len(s), 1)
<1>1. /\ Len(u) = L + Len(s) /\ L \in Nat /\ Len(s) \in Nat
      /\ \A i \in 1..L : u[i] = t[i]
      /\ \A i \in 1..Len(s) : u[L + i] = s[i]
  OBVIOUS
<1>2. /\ d \in [1..L + 1 + Len(s) -> Nat]
      /\ \A i, k \in 1..L + 1 + Len(s) : i <= k => d[i] <= d[k] /\ d[k] - d[i] <= k - i
      /\ \A i \in 1..L + 1 : d[i] = c[i]
      /\ \A i \in 0..Len(s) : d[L + 1 + i] = c[L + 1] + i
      /\ c[L + 1] \in Nat
  <2>1. Len(s) \in Nat /\ 1 \in {0, 1}
    OBVIOUS
  <2>2. Longer(d, c, L, Len(s), 1)
    BY <2>1, CountsMore
  <2> HIDE DEF d, L
  <2>3. QED
    BY <2>2 DEF Longer
<1>3. /\ \A i \in 1..L : t[i].own => c[i + 1] = c[i] + 1 /\ t[i].seq = c[i] % SeqModulus
      /\ x = c[L + 1] % SeqModulus
  BY DEF Counts
<1>4. \A i \in 1..Len(s) : s[i].own /\ s[i].seq = (x + i - 1) % SeqModulus
  BY Zenon DEF AllSegments
<1> HIDE DEF u, d, L
<1>5. \A i \in 0..Len(s) : d[L + 1 + i] = c[L + 1] + i
  BY <1>2, Zenon
<1>6. \A i \in Nat : (x + i) % SeqModulus = (c[L + 1] + i) % SeqModulus
  BY <1>2, <1>3, ModPlus
<1>7. ASSUME NEW i \in 1..Len(u), u[i].own
      PROVE  d[i + 1] = d[i] + 1 /\ u[i].seq = d[i] % SeqModulus
  <2>1. CASE i \in 1..L
    <3>1. u[i] = t[i] /\ d[i + 1] = c[i + 1] /\ d[i] = c[i]
      BY <1>1, <1>2, <2>1
    <3>2. QED
      BY <1>3, <1>7, <2>1, <3>1
  <2>2. CASE i \notin 1..L
    <3>1. PICK j \in 1..Len(s) : i = L + j /\ u[i] = s[j]
      <4>1. i - L \in 1..Len(s) /\ i = L + (i - L)
        BY <1>1, <2>2
      <4>2. QED
        BY <1>1, <4>1
    <3>2. j - 1 \in 0..Len(s) /\ j \in 0..Len(s) /\ L + 1 + (j - 1) = i /\ L + 1 + j = i + 1
      BY <1>1, <3>1
    <3>3. d[i] = c[L + 1] + (j - 1) /\ d[i + 1] = c[L + 1] + j
      BY <1>5, <3>2
    <3>4. j - 1 \in Nat /\ x + j - 1 = x + (j - 1)
      <4>1. x \in Int
        BY <1>2, <1>3, TransportAssumption
      <4>2. QED
        BY <4>1
    <3>5. (x + (j - 1)) % SeqModulus = (c[L + 1] + (j - 1)) % SeqModulus
      BY <1>6, <3>4
    <3>6. s[j].seq = (x + j - 1) % SeqModulus
      BY <1>4
    <3>7. u[i].seq = d[i] % SeqModulus
      BY <3>1, <3>3, <3>4, <3>5, <3>6
    <3>8. d[i + 1] = d[i] + 1
      BY <1>2, <3>3
    <3>9. QED
      BY <3>7, <3>8
  <2>3. QED
    BY <2>1, <2>2
<1>8. (x + Len(s)) % SeqModulus = d[Len(u) + 1] % SeqModulus
  <2>1. Len(u) + 1 = L + 1 + Len(s) /\ Len(s) \in 0..Len(s)
    BY <1>1
  <2>2. d[Len(u) + 1] = c[L + 1] + Len(s)
    BY <1>5, <2>1
  <2>3. QED
    BY <1>1, <1>6, <2>2
<1>9. /\ d \in [1..Len(u) + 1 -> Nat]
      /\ \A i, k \in 1..Len(u) + 1 : i <= k => d[i] <= d[k] /\ d[k] - d[i] <= k - i
  <2>1. Len(u) + 1 = L + 1 + Len(s)
    BY <1>1
  <2>2. QED
    BY <1>2, <2>1
<1>10. Counts(d, u, (x + Len(s)) % SeqModulus)
  BY <1>7, <1>8, <1>9 DEF Counts
<1>11. QED
  BY <1>10 DEF u

\* Within one turn of the sequence, a segment whose sequence comes next is the next segment.
LEMMA NextIsNext ==
  ASSUME NEW t \in Seq(Segment), NEW c, NEW x, Counts(c, t, x), Together(t),
         NEW i \in 1..Len(t), NEW k \in 1..Len(t), i < k, k <= i + SeqModulus,
         t[i].own, t[k].own, ~t[i].fin, t[k].seq = NextSeq(t[i].seq)
  PROVE  k = i + 1 /\ t[k].frag = t[i].frag
<1>1. /\ i + 1 \in 1..Len(t) /\ t[i + 1].own /\ t[i + 1].frag = t[i].frag
  BY DEF Together
<1>2. SeqModulus \in Nat \ {0} /\ i \in Nat /\ k \in Nat
  BY TransportAssumption
<1>3. /\ i \in 1..Len(t) + 1 /\ i + 1 \in 1..Len(t) + 1 /\ k \in 1..Len(t) + 1
      /\ i + 2 \in 1..Len(t) + 1
  BY <1>1
<1>4. /\ c[i] \in Nat /\ c[k] \in Nat /\ c[i + 1] = c[i] + 1 /\ c[i + 1 + 1] = c[i + 1] + 1
      /\ t[i].seq = c[i] % SeqModulus /\ t[k].seq = c[k] % SeqModulus
  BY <1>1, <1>3 DEF Counts
<1>5. c[i + 1] <= c[k] /\ c[k] - c[i] <= k - i /\ (i + 2 <= k => c[i + 2] <= c[k])
  <2>1. \A a, b \in 1..Len(t) + 1 : a <= b => c[a] <= c[b] /\ c[b] - c[a] <= b - a
    BY DEF Counts
  <2>2. i + 1 <= k /\ i <= k
    BY <1>2
  <2>3. QED
    BY <1>3, <2>1, <2>2
<1> DEFINE d == c[k] - c[i]
<1>6. d \in 1..SeqModulus /\ c[k] = c[i] + d
  <2>1. c[i] + 1 <= c[k] /\ c[k] - c[i] <= k - i /\ k - i <= SeqModulus
    BY <1>2, <1>4, <1>5
  <2>2. c[i] \in Nat /\ c[k] \in Nat /\ k - i \in Int
    BY <1>2, <1>4
  <2>3. QED
    BY <1>2, <2>1, <2>2
<1> HIDE DEF d
<1>7. (c[i] + d) % SeqModulus = (c[i] + 1) % SeqModulus
  <2>1. ((c[i] % SeqModulus) + 1) % SeqModulus = (c[i] + 1) % SeqModulus
    BY <1>4, ModPlus
  <2>2. t[k].seq = ((c[i] % SeqModulus) + 1) % SeqModulus
    BY <1>4 DEF NextSeq
  <2>3. QED
    BY <1>4, <1>6, <2>1, <2>2
<1>8. d = 1
  BY <1>4, <1>6, <1>7, ModNext
<1>9. k = i + 1
  <2>1. i + 1 + 1 = i + 2
    BY <1>2
  <2>2. ~(i + 2 <= k)
    BY <1>4, <1>5, <1>6, <1>8, <2>1
  <2>3. QED
    BY <1>2, <2>2
<1>10. QED
  BY <1>1, <1>9

LEMMA TogetherOdd ==
  ASSUME NEW t \in Seq(Segment), Together(t), NEW g \in Segment, ~g.own
  PROVE  Together(Append(t, g))
<1> DEFINE u == Append(t, g)
<1>1. /\ Len(u) = Len(t) + 1 /\ Len(t) \in Nat /\ u[Len(t) + 1] = g
      /\ \A i \in 1..Len(t) : u[i] = t[i]
  BY SequenceTypes
<1> HIDE DEF u
<1>2. ASSUME NEW i \in 1..Len(u), u[i].own, ~u[i].fin
      PROVE  i < Len(u) /\ u[i + 1].own /\ u[i + 1].frag = u[i].frag
  <2>1. i \in 1..Len(t) /\ u[i] = t[i]
    BY <1>1, <1>2
  <2>2. i < Len(t) /\ t[i + 1].own /\ t[i + 1].frag = t[i].frag
    BY <1>2, <2>1 DEF Together
  <2>3. u[i + 1] = t[i + 1]
    BY <1>1, <2>1, <2>2
  <2>4. QED
    BY <1>1, <2>1, <2>2, <2>3
<1>3. QED
  BY <1>2 DEF Together, u

LEMMA TogetherFragment ==
  ASSUME NEW t \in Seq(Segment), Together(t), NEW s \in Seq(Segment), NEW f, NEW x,
         AllSegments(s, f, x)
  PROVE  Together(t \o s)
<1> DEFINE u == t \o s
<1>1. /\ Len(u) = Len(t) + Len(s) /\ Len(t) \in Nat /\ Len(s) \in Nat
      /\ \A i \in 1..Len(t) : u[i] = t[i]
      /\ \A i \in 1..Len(s) : u[Len(t) + i] = s[i]
  OBVIOUS
<1>2. \A i \in 1..Len(s) : s[i].own /\ s[i].frag = f /\ (s[i].fin <=> i = Len(s))
  BY Zenon DEF AllSegments
<1> HIDE DEF u
<1>3. ASSUME NEW i \in 1..Len(u), u[i].own, ~u[i].fin
      PROVE  i < Len(u) /\ u[i + 1].own /\ u[i + 1].frag = u[i].frag
  <2>1. CASE i \in 1..Len(t)
    <3>1. i < Len(t) /\ t[i + 1].own /\ t[i + 1].frag = t[i].frag /\ u[i] = t[i]
      BY <1>1, <1>3, <2>1 DEF Together
    <3>2. u[i + 1] = t[i + 1]
      BY <1>1, <2>1, <3>1
    <3>3. QED
      BY <1>1, <3>1, <3>2
  <2>2. CASE i \notin 1..Len(t)
    <3>1. PICK j \in 1..Len(s) : i = Len(t) + j /\ u[i] = s[j]
      <4>1. i - Len(t) \in 1..Len(s) /\ i = Len(t) + (i - Len(t))
        BY <1>1, <2>2
      <4>2. QED
        BY <1>1, <4>1
    <3>2. j < Len(s)
      BY <1>1, <1>2, <1>3, <3>1
    <3>3. j + 1 \in 1..Len(s) /\ i + 1 = Len(t) + (j + 1)
      BY <1>1, <3>1, <3>2
    <3>4. u[i + 1] = s[j + 1]
      BY <1>1, <3>3
    <3>5. QED
      BY <1>1, <1>2, <3>1, <3>2, <3>3, <3>4
  <2>3. QED
    BY <2>1, <2>2
<1>4. QED
  BY <1>3 DEF Together, u

\* What may make of the operations c something else than one fragment: a segment that
\* TransportTx did not form, or a full turn of the sequence between two of them.
Mixed(c, t) ==
  \/ \E j \in 1..Len(c) : ~t[c[j]].own
  \/ \E j \in 2..Len(c) : c[j] > c[j - 1] + SeqModulus

LEMMA MixedKept ==
  ASSUME NEW t \in Seq(Segment), NEW u \in Seq(Segment), Extends(u, t), NEW l \in Nat, l <= Len(t),
         NEW b \in Seq(1..l)
  PROVE  Mixed(b, t) => Mixed(b, u)
<1>1. \A i \in 1..Len(b) : u[b[i]] = t[b[i]]
  BY AdjacentKept
<1>2. QED
  BY <1>1 DEF Mixed

\* An operation is put behind those it goes on with.
LEMMA MixedMore ==
  ASSUME NEW t \in Seq(Segment), NEW c, NEW x, Counts(c, t, x), Together(t),
         NEW l \in Nat, NEW n \in 1..Len(t), l < n, NEW b \in Seq(1..l), NEW a,
         a = Append(b, n), Adjacent(b, t) \/ Mixed(b, t),
         b # <<>> => ~t[LastOp(b)].fin /\ t[n].seq = NextSeq(t[LastOp(b)].seq)
  PROVE  Adjacent(a, t) \/ Mixed(a, t)
<1>1. b \in Seq(Nat) /\ n \in Nat
  <2>1. 1..l \subseteq Nat
    OBVIOUS
  <2>2. QED
    BY <2>1
<1>2. /\ Len(a) = Len(b) + 1 /\ Len(b) \in Nat /\ a[Len(b) + 1] = n
      /\ \A i \in 1..Len(b) : a[i] = b[i]
  BY <1>1, LastOpOfAppend
<1>3. CASE Mixed(b, t)
  <2>1. CASE \E j \in 1..Len(b) : ~t[b[j]].own
    <3>1. PICK j \in 1..Len(b) : ~t[b[j]].own
      BY <2>1
    <3>2. j \in 1..Len(a) /\ a[j] = b[j]
      BY <1>2
    <3>3. QED
      BY <3>1, <3>2 DEF Mixed
  <2>2. CASE \E j \in 2..Len(b) : b[j] > b[j - 1] + SeqModulus
    <3>1. PICK j \in 2..Len(b) : b[j] > b[j - 1] + SeqModulus
      BY <2>2
    <3>2. j \in 2..Len(a) /\ a[j] = b[j] /\ a[j - 1] = b[j - 1]
      BY <1>2
    <3>3. QED
      BY <3>1, <3>2 DEF Mixed
  <2>3. QED
    BY <1>3, <2>1, <2>2 DEF Mixed
<1>4. CASE Adjacent(b, t) /\ b = <<>>
  BY <1>1, <1>4, AdjacentMore
<1>5. CASE Adjacent(b, t) /\ b # <<>>
  <2> DEFINE m == LastOp(b)
  <2>1. /\ Len(b) \in 1..Len(b) /\ a[Len(b)] = m /\ m \in 1..l /\ m \in 1..Len(t) /\ m < n
    <3>1. m \in 1..l /\ Len(b) \in 1..Len(b)
      BY <1>5, LastOpIn
    <3>2. a[Len(b)] = m
      BY <1>2, <3>1 DEF LastOp
    <3>3. QED
      BY <3>1, <3>2
  <2>2. ~t[m].fin /\ t[n].seq = NextSeq(t[m].seq)
    BY <1>5
  <2> HIDE DEF m
  <2>3. CASE ~t[m].own
    <3>1. Len(b) \in 1..Len(a)
      BY <1>2, <2>1
    <3>2. QED
      BY <2>1, <2>3, <3>1 DEF Mixed
  <2>4. CASE ~t[n].own
    <3>1. Len(b) + 1 \in 1..Len(a)
      BY <1>2
    <3>2. QED
      BY <1>2, <2>4, <3>1 DEF Mixed
  <2>5. CASE n > m + SeqModulus
    <3>1. PICK j \in 2..Len(a) : j = Len(b) + 1 /\ j - 1 = Len(b)
      BY <1>2, <2>1
    <3>2. a[j] = n /\ a[j - 1] = m
      BY <1>2, <2>1, <3>1
    <3>3. QED
      BY <2>5, <3>2 DEF Mixed
  <2>6. CASE t[m].own /\ t[n].own /\ ~(n > m + SeqModulus)
    <3>1. n <= m + SeqModulus
      BY <1>1, <2>1, <2>6, TransportAssumption
    <3>2. n = m + 1 /\ t[n].frag = t[m].frag
      BY <2>1, <2>2, <2>6, <3>1, NextIsNext
    <3>3. Adjacent(a, t)
      BY <1>1, <1>5, <3>2, AdjacentMore DEF m
    <3>4. QED
      BY <3>3
  <2>7. QED
    BY <2>3, <2>4, <2>5, <2>6
<1>6. QED
  BY <1>3, <1>4, <1>5

\* Each of the fragments r begins with a first segment, and is whole or mixed.
WholeOrMixed(r, t) ==
  \A i \in 1..Len(r) : t[r[i][1]].fir /\ (Adjacent(r[i], t) \/ Mixed(r[i], t))

UnconfirmedLine(p) ==
  LET q == Other(p)
  IN  q \notin Confirming =>
        /\ state[q] # "Sending"
        /\ \E c : Counts(c, tpdu[q], txSeq[q])
        /\ Together(tpdu[q])
        /\ Adjacent(buffer[p], tpdu[q]) \/ Mixed(buffer[p], tpdu[q])
        /\ WholeOrMixed(received[p], tpdu[q])

LEMMA WholeOrMixedKept ==
  ASSUME NEW t \in Seq(Segment), NEW u \in Seq(Segment), Extends(u, t), NEW l \in Nat, l <= Len(t),
         NEW r, \A i \in 1..Len(r) : r[i] # <<>> /\ r[i] \in Seq(1..l), WholeOrMixed(r, t)
  PROVE  WholeOrMixed(r, u)
<1>1. ASSUME NEW i \in 1..Len(r)
      PROVE  u[r[i][1]].fir /\ (Adjacent(r[i], u) \/ Mixed(r[i], u))
  <2>1. PICK c \in Seq(1..l) : c = r[i] /\ c # <<>>
    OBVIOUS
  <2>2. 1 \in 1..Len(c)
    BY <2>1
  <2>3. u[c[1]] = t[c[1]] /\ (Adjacent(c, t) => Adjacent(c, u))
    <3>1. (\A j \in 1..Len(c) : u[c[j]] = t[c[j]]) /\ (Adjacent(c, t) => Adjacent(c, u))
      BY AdjacentKept
    <3>2. QED
      BY <2>2, <3>1
  <2>4. Mixed(c, t) => Mixed(c, u)
    BY MixedKept
  <2>5. t[c[1]].fir /\ (Adjacent(c, t) \/ Mixed(c, t))
    BY <2>1 DEF WholeOrMixed
  <2>6. QED
    BY <2>1, <2>3, <2>4, <2>5
<1>2. QED
  BY <1>1 DEF WholeOrMixed

LEMMA WholeOrMixedMore ==
  ASSUME NEW t, NEW r \in Seq(Seq(Nat)), WholeOrMixed(r, t), NEW c \in Seq(Nat),
         t[c[1]].fir, Adjacent(c, t) \/ Mixed(c, t)
  PROVE  WholeOrMixed(Append(r, c), t)
<1> DEFINE s == Append(r, c)
<1>1. /\ Len(s) = Len(r) + 1 /\ Len(r) \in Nat /\ s[Len(r) + 1] = c
      /\ \A i \in 1..Len(r) : s[i] = r[i]
  BY SequenceTypes
<1> HIDE DEF s
<1>2. \A i \in 1..Len(s) : (i \in 1..Len(r) /\ s[i] = r[i]) \/ s[i] = c
  BY <1>1
<1>3. QED
  BY <1>2 DEF WholeOrMixed, s

\* A step that receives nothing, and after which the links have only gained segments.
LEMMA UnconfirmedKept ==
  ASSUME IInv, IInv', NEW p \in Stations, UnconfirmedLine(p),
         Extends(tpdu'[Other(p)], tpdu[Other(p)]), received'[p] = received[p],
         buffer'[p] = buffer[p] \/ buffer'[p] = <<>>,
         Other(p) \notin Confirming =>
           /\ state'[Other(p)] # "Sending"
           /\ \E c : Counts(c, tpdu'[Other(p)], txSeq'[Other(p)])
           /\ Together(tpdu'[Other(p)])
  PROVE  UnconfirmedLine(p)'
<1> DEFINE q == Other(p)
           t == tpdu[q]
           u == tpdu'[q]
           l == LastDelivered(p)
<1>1. SUFFICES ASSUME q \notin Confirming
               PROVE  /\ Adjacent(buffer'[p], u) \/ Mixed(buffer'[p], u)
                      /\ WholeOrMixed(received[p], u)
  BY DEF UnconfirmedLine
<1>2. (Adjacent(buffer[p], t) \/ Mixed(buffer[p], t)) /\ WholeOrMixed(received[p], t)
  BY <1>1 DEF UnconfirmedLine
<1>3. /\ t \in Seq(Segment) /\ u \in Seq(Segment) /\ Extends(u, t) /\ l \in Nat /\ l <= Len(t)
      /\ buffer[p] \in Seq(1..l)
      /\ \A i \in 1..Len(received[p]) : received[p][i] # <<>> /\ received[p][i] \in Seq(1..l)
  <2>1. u \in Seq(Segment)
    BY Others DEF IInv, TypeOK
  <2>2. QED
    BY <2>1, Within
<1> HIDE DEF t, u, l
<1>4. Adjacent(buffer[p], u) \/ Mixed(buffer[p], u)
  BY <1>2, <1>3, AdjacentKept, MixedKept
<1>5. WholeOrMixed(received[p], u)
  BY <1>2, <1>3, WholeOrMixedKept
<1>6. Adjacent(<<>>, u)
  BY DEF Adjacent
<1>7. QED
  BY <1>4, <1>5, <1>6

LEMMA UnconfirmedSends ==
  ASSUME IInv, IInv', NEW p \in Stations, UnconfirmedLine(p), Sending(Other(p))
  PROVE  UnconfirmedLine(p)'
<1> DEFINE q == Other(p)
           t == tpdu[q]
<1>1. q \in Stations /\ TypeOK /\ t \in Seq(Segment)
  BY Others DEF IInv, TypeOK
<1>2. Extends(tpdu'[q], tpdu[q]) /\ received'[p] = received[p] /\ buffer'[p] = buffer[p]
  BY <1>1, LinksExtend, OtherReceiverKept
<1>3. SUFFICES ASSUME q \notin Confirming
               PROVE  /\ state'[q] # "Sending"
                      /\ \E c : Counts(c, tpdu'[q], txSeq'[q])
                      /\ Together(tpdu'[q])
  BY <1>2, UnconfirmedKept
<1>4. state[q] # "Sending" /\ Together(t)
  BY <1>3 DEF UnconfirmedLine
<1>5. PICK c : Counts(c, t, txSeq[q])
  BY <1>3 DEF UnconfirmedLine
<1>6. SendUnconfirmed(q) \/ SendOdd(q)
  BY <1>3, <1>4 DEF Sending, Send, ContinueSend, FinishSend, HandleSendFailure, Acknowledged
<1>7. "Ready" # "Sending"
  OBVIOUS
<1> HIDE DEF q, t
<1>8. CASE SendUnconfirmed(q)
  <2>1. PICK s \in Seq(Segment) :
          /\ AllSegments(s, handed[q] + 1, txSeq[q])
          /\ tpdu'[q] = tpdu[q] \o s /\ txSeq'[q] = (txSeq[q] + Len(s)) % SeqModulus
          /\ state'[q] = "Ready"
    BY <1>1, <1>8, SendUnconfirmedHands
  <2>2. tpdu'[q] = t \o s
    BY <2>1 DEF t
  <2>3. \E d : Counts(d, tpdu'[q], txSeq'[q])
    <3>1. \E d : Counts(d, t \o s, (txSeq[q] + Len(s)) % SeqModulus)
      BY <1>1, <1>5, <2>1, CountsFragment
    <3>2. QED
      BY <2>1, <2>2, <3>1, Zenon
  <2>4. Together(tpdu'[q])
    <3>1. Together(t \o s)
      BY <1>1, <1>4, <2>1, TogetherFragment
    <3>2. QED
      BY <2>2, <3>1
  <2>5. QED
    BY <1>7, <2>1, <2>3, <2>4
<1>9. CASE SendOdd(q)
  <2>1. PICK g \in Segment :
          ~g.own /\ tpdu'[q] = Append(tpdu[q], g) /\ txSeq'[q] = txSeq[q] /\ state'[q] = "Ready"
    BY <1>1, <1>9, SendOddHands
  <2>2. tpdu'[q] = Append(t, g)
    BY <2>1 DEF t
  <2>3. \E d : Counts(d, Append(t, g), txSeq[q])
    BY <1>1, <1>5, <2>1, CountsOdd
  <2>4. Together(Append(t, g))
    BY <1>1, <1>4, <2>1, TogetherOdd
  <2>5. QED
    BY <1>7, <2>1, <2>2, <2>3, <2>4
<1>10. QED
  BY <1>6, <1>8, <1>9

LEMMA UnconfirmedReads ==
  ASSUME IInv, IInv', NEW p \in Stations, GoesOn(p), UnconfirmedLine(p), HandleReceive(p)
  PROVE  UnconfirmedLine(p)'
<1> DEFINE q == Other(p)
           t == tpdu[q]
           l == LastDelivered(p)
<1>1. q \in Stations /\ TypeOK
  BY Others DEF IInv
<1>2. PICK n \in 1..Sent(q) :
        /\ l < n /\ tpdu' = tpdu /\ state' = state /\ txSeq' = txSeq
        /\ LET g == t[n] IN Refused(p, g) \/ Overflowed(p, g) \/ Accepted(p, g, n)
  BY <1>1, Reading
<1>3. SUFFICES ASSUME q \notin Confirming
               PROVE  /\ Adjacent(buffer'[p], t) \/ Mixed(buffer'[p], t)
                      /\ WholeOrMixed(received'[p], t)
  BY <1>2 DEF UnconfirmedLine
<1>4. /\ Together(t) /\ (Adjacent(buffer[p], t) \/ Mixed(buffer[p], t))
      /\ WholeOrMixed(received[p], t)
  BY <1>3 DEF UnconfirmedLine
<1>5. PICK k : Counts(k, t, txSeq[q])
  BY <1>3 DEF UnconfirmedLine
<1>6. /\ t \in Seq(Segment) /\ l \in Nat /\ l <= Len(t) /\ Sent(q) = Len(t)
      /\ received[p] \in Seq(Seq(Nat)) /\ buffer[p] \in Seq(1..l) /\ buffer[p] \in Seq(Nat)
  BY Within
<1>7. n \in 1..Len(t) /\ n \in Nat /\ l < n
  BY <1>2, <1>6
<1>8. Holds(buffer[p], numRead[p], FragSize[p], t)
  BY DEF IInv
<1>9. buffer[p] # <<>> => rxSeq[p] = NextSeq(t[LastOp(buffer[p])].seq)
  BY DEF GoesOn
<1> DEFINE g == t[n]
           b == BufferFor(p, g)
           a == Append(b, n)
<1>10. Refused(p, g) \/ Overflowed(p, g) \/ Accepted(p, g, n)
  BY <1>2
<1> HIDE DEF q, t, l
<1>11. Adjacent(<<>>, t)
  BY DEF Adjacent
<1>12. CASE Refused(p, g) \/ Overflowed(p, g)
  BY <1>4, <1>11, <1>12 DEF Refused, Overflowed
<1>13. CASE Accepted(p, g, n)
  <2>1. \/ g.fir /\ b = <<>>
        \/ ~g.fir /\ b = buffer[p] /\ buffer[p] # <<>> /\ g.seq = rxSeq[p]
    BY <1>13, ValidSegment DEF Accepted
  <2>2. \/ g.fin /\ buffer'[p] = <<>> /\ received'[p] = Append(received[p], a)
        \/ received'[p] = received[p] /\ buffer'[p] = a
    BY <1>13 DEF Accepted
  <2> HIDE DEF a, b, g
  <2>3. b \in Seq(1..l) /\ b \in Seq(Nat)
    <3>1. <<>> \in Seq(1..l) /\ <<>> \in Seq(Nat)
      OBVIOUS
    <3>2. QED
      BY <1>6, <2>1, <3>1
  <2>4. b # <<>> => ~t[LastOp(b)].fin /\ t[n].seq = NextSeq(t[LastOp(b)].seq)
    <3>1. ASSUME b # <<>>
          PROVE  b = buffer[p] /\ buffer[p] # <<>> /\ t[n].seq = rxSeq[p]
      BY <2>1, <3>1 DEF g
    <3>2. ASSUME buffer[p] # <<>>
          PROVE  ~t[LastOp(buffer[p])].fin
      <4>1. Len(buffer[p]) \in 1..Len(buffer[p])
        BY <1>6, <3>2
      <4>2. QED
        BY <1>8, <4>1 DEF Holds, LastOp
    <3>3. QED
      BY <1>9, <3>1, <3>2
  <2>5. Adjacent(b, t) \/ Mixed(b, t)
    BY <1>4, <1>11, <2>1
  <2>6. Adjacent(a, t) \/ Mixed(a, t)
    BY <1>4, <1>5, <1>6, <1>7, <2>3, <2>4, <2>5, MixedMore DEF a
  <2>7. a \in Seq(Nat) /\ a[1] = (IF b = <<>> THEN n ELSE b[1])
    <3>1. a \in Seq(Nat) /\ Len(b) \in Nat
          /\ (\A i \in 1..Len(b) : a[i] = b[i]) /\ a[Len(b) + 1] = n
      BY <1>7, <2>3, LastOpOfAppend DEF a
    <3>2. b # <<>> => 1 \in 1..Len(b)
      BY <2>3
    <3>3. b = <<>> => Len(b) = 0
      OBVIOUS
    <3>4. QED
      BY <3>1, <3>2, <3>3
  <2>8. t[a[1]].fir
    <3>1. CASE b = <<>>
      BY <2>1, <2>7, <3>1 DEF g
    <3>2. CASE b # <<>>
      <4>1. b = buffer[p] /\ 1 \in 1..Len(buffer[p]) /\ a[1] = buffer[p][1]
        BY <1>6, <2>1, <2>7, <3>2
      <4>2. QED
        BY <1>8, <4>1 DEF Holds
    <3>3. QED
      BY <3>1, <3>2
  <2>9. WholeOrMixed(Append(received[p], a), t)
    BY <1>4, <1>6, <2>6, <2>7, <2>8, WholeOrMixedMore
  <2>10. QED
    BY <1>4, <1>11, <2>2, <2>6, <2>9
<1>14. QED
  BY <1>10, <1>12, <1>13

---------------------------------------------------------------------------
(* The theorems about whole fragments *)

JInv ==
  \A p \in Stations : GoesOn(p) /\ ConfirmedLine(p) /\ ReportedLine(p) /\ UnconfirmedLine(p)

LEMMA InitJInv ==
  ASSUME Init
  PROVE  JInv
<1>1. ASSUME NEW p \in Stations
      PROVE  GoesOn(p) /\ ConfirmedLine(p) /\ ReportedLine(p) /\ UnconfirmedLine(p)
  <2> DEFINE q == Other(p)
  <2>1. /\ q \in Stations /\ tpdu[q] = <<>> /\ buffer[p] = <<>> /\ received[p] = <<>>
        /\ state[q] = "Closed" /\ reported[q] = {} /\ txSeq[q] = 0
    BY Others DEF Init
  <2> HIDE DEF q
  <2>2. GoesOn(p)
    BY <2>1 DEF GoesOn
  <2>3. Adjacent(<<>>, <<>>) /\ Whole(<<>>, <<>>) /\ WholeOrMixed(<<>>, <<>>) /\ Together(<<>>)
        /\ Acked(<<>>, LastDelivered(p))
    BY DEF Adjacent, Whole, WholeOrMixed, Together, Acked
  <2>4. ConfirmedLine(p)
    BY <2>1, <2>3 DEF ConfirmedLine, Waits, q
  <2>5. ReportedLine(p)
    BY <2>1 DEF ReportedLine, q
  <2>6. Counts([i \in 1..1 |-> 0], <<>>, 0)
    <3>1. 0 % SeqModulus = 0
      BY TransportAssumption
    <3>2. QED
      BY <3>1 DEF Counts
  <2>7. UnconfirmedLine(p)
    BY <2>1, <2>3, <2>6 DEF UnconfirmedLine, q
  <2>8. QED
    BY <2>2, <2>4, <2>5, <2>7
<1>2. QED
  BY <1>1 DEF JInv

\* What every step does to what p made of the segments of its peer.
LEMMA LineSteps ==
  ASSUME IInv, IInv', NEW p \in Stations, NEW a \in Stations,
         GoesOn(p), ConfirmedLine(p), ReportedLine(p), UnconfirmedLine(p),
         LowerLayerUp(a) \/ LowerLayerDown(a) \/ Sending(a) \/ HandleReceive(a)
  PROVE  GoesOn(p)' /\ ConfirmedLine(p)' /\ ReportedLine(p)' /\ UnconfirmedLine(p)'
<1> DEFINE q == Other(p)
<1>1. q \in Stations /\ q # p /\ Other(q) = p /\ (a = p \/ a = q) /\ TypeOK
  BY Others DEF Stations, Other, IInv
<1>2. stale' = 0 => stale = 0
  BY StaleGrows
<1>3. ASSUME tpdu'[q] = tpdu[q] PROVE Extends(tpdu'[q], tpdu[q])
  BY <1>3, Within DEF Extends
<1>4. ASSUME tpdu'[q] = tpdu[q], handed'[q] = handed[q], toSend'[q] = toSend[q],
             txSeq'[q] = txSeq[q], reported'[q] = reported[q],
             state'[q] = state[q] \/ state'[q] = "Ready" \/ state'[q] = "Closed",
             delivered'[p] = delivered[p], received'[p] = received[p],
             \/ /\ cut'[q] = cut[q] /\ buffer'[p] = buffer[p] /\ numRead'[p] = numRead[p]
                /\ rxSeq'[p] = rxSeq[p]
             \/ buffer'[p] = <<>> /\ cut'[q] = cut[q] \cup {handed[q]}
      PROVE  GoesOn(p)' /\ ConfirmedLine(p)' /\ ReportedLine(p)' /\ UnconfirmedLine(p)'
  <2>1. (state'[q] = "Sending" => state[q] = "Sending") /\ Extends(tpdu'[q], tpdu[q])
    BY <1>3, <1>4
  <2>2. GoesOn(p)'
    BY <1>4, <2>1, GoesOnKept
  <2>3. ConfirmedLine(p)'
    BY <1>2, <1>4, <2>1, ConfirmedKept
  <2>4. ReportedLine(p)'
    BY <1>2, <1>4, <2>1, ReportedKept
  <2>5. q \notin Confirming =>
          /\ state'[q] # "Sending" /\ Together(tpdu'[q])
          /\ \E c : Counts(c, tpdu'[q], txSeq'[q])
    BY <1>4, <2>1 DEF UnconfirmedLine
  <2>6. UnconfirmedLine(p)'
    BY <1>4, <2>1, <2>5, UnconfirmedKept
  <2>7. QED
    BY <2>2, <2>3, <2>4, <2>6
<1>5. CASE LowerLayerUp(a)
  <2>1. /\ tpdu' = tpdu /\ handed' = handed /\ toSend' = toSend /\ txSeq' = txSeq
        /\ reported' = reported /\ delivered' = delivered /\ received' = received
        /\ cut' = cut /\ buffer' = buffer /\ numRead' = numRead /\ rxSeq' = rxSeq
    BY <1>5 DEF LowerLayerUp, tx, rx, link, history
  <2>2. state'[q] = state[q] \/ state'[q] = "Ready"
    BY <1>1, <1>5 DEF LowerLayerUp, TypeOK
  <2> HIDE DEF q
  <2>3. QED
    BY <1>4, <2>1, <2>2
<1>6. CASE LowerLayerDown(a)
  <2>1. /\ tpdu' = tpdu /\ handed' = handed /\ toSend' = toSend /\ txSeq' = txSeq
        /\ reported' = reported /\ delivered' = delivered /\ received' = received
    BY <1>6 DEF LowerLayerDown, tx
  <2>2. state'[q] = state[q] \/ state'[q] = "Closed"
    BY <1>1, <1>6 DEF LowerLayerDown, TypeOK
  <2>3. \/ /\ cut'[q] = cut[q] /\ buffer'[p] = buffer[p] /\ numRead'[p] = numRead[p]
           /\ rxSeq'[p] = rxSeq[p]
        \/ buffer'[p] = <<>> /\ cut'[q] = cut[q] \cup {handed[q]}
    <3>1. CASE a = p
      BY <1>1, <1>6, <3>1 DEF LowerLayerDown, TypeOK
    <3>2. CASE a = q
      BY <1>1, <1>6, <3>2 DEF LowerLayerDown, TypeOK
    <3>3. QED
      BY <1>1, <3>1, <3>2
  <2> HIDE DEF q
  <2>4. QED
    BY <1>4, <2>1, <2>2, <2>3
<1>7. CASE Sending(a)
  <2>1. CASE a = q
    <3>1. Extends(tpdu'[q], tpdu[q])
      BY <1>1, <1>7, <2>1, LinksExtend
    <3>2. buffer'[p] = buffer[p] /\ rxSeq'[p] = rxSeq[p]
      BY <1>7, OtherReceiverKept
    <3>3. GoesOn(p)'
      BY <3>1, <3>2, GoesOnKept
    <3>4. Sending(Other(p))
      BY <1>7, <2>1
    <3>5. QED
      BY <3>3, <3>4, ConfirmedSends, ReportedSends, UnconfirmedSends
  <2>2. CASE a = p
    <3>1. /\ tpdu'[q] = tpdu[q] /\ handed'[q] = handed[q] /\ toSend'[q] = toSend[q]
          /\ txSeq'[q] = txSeq[q] /\ state'[q] = state[q] /\ reported'[q] = reported[q]
      BY <1>1, <1>7, <2>2, OtherSenderKept
    <3>2. /\ buffer'[p] = buffer[p] /\ rxSeq'[p] = rxSeq[p] /\ numRead'[p] = numRead[p]
          /\ delivered'[p] = delivered[p] /\ received'[p] = received[p]
      BY <1>7, OtherReceiverKept
    <3>3. cut' = cut
      BY <1>7 DEF Sending, Send, SendUnconfirmed, SendOdd, ContinueSend, FinishSend,
         HandleSendFailure, history
    <3> HIDE DEF q
    <3>4. QED
      BY <1>4, <3>1, <3>2, <3>3
  <2>3. QED
    BY <1>1, <2>1, <2>2
<1>8. CASE HandleReceive(a)
  <2>1. CASE a = p
    <3>1. HandleReceive(p)
      BY <1>8, <2>1
    <3>2. PICK n \in 1..Sent(Other(p)) :
            /\ tpdu' = tpdu
            /\ LET g == tpdu[Other(p)][n]
               IN  Refused(p, g) \/ Overflowed(p, g) \/ Accepted(p, g, n)
      BY <1>1, <3>1, Reading
    <3>3. GoesOn(p)'
      BY <3>2, GoesOnReads
    <3>4. QED
      BY <3>1, <3>3, ConfirmedReads, ReportedReads, UnconfirmedReads
  <2>2. CASE a = q
    <3>1. /\ tpdu' = tpdu /\ handed' = handed /\ state' = state /\ txSeq' = txSeq
          /\ toSend' = toSend /\ reported' = reported /\ cut' = cut
          /\ received'[p] = received[p] /\ buffer'[p] = buffer[p]
          /\ rxSeq'[p] = rxSeq[p] /\ numRead'[p] = numRead[p] /\ delivered'[p] = delivered[p]
      BY <1>1, <1>8, <2>2, Reading
    <3> HIDE DEF q
    <3>2. QED
      BY <1>4, <3>1
  <2>3. QED
    BY <1>1, <2>1, <2>2
<1>9. QED
  BY <1>5, <1>6, <1>7, <1>8

LEMMA NextJInv ==
  ASSUME JInv, IInv, IInv', [Next]_vars
  PROVE  JInv'
<1>1. CASE Next
  <2>1. PICK a \in Stations :
          LowerLayerUp(a) \/ LowerLayerDown(a) \/ Sending(a) \/ HandleReceive(a)
    BY <1>1 DEF Next
  <2>2. ASSUME NEW p \in Stations
        PROVE  GoesOn(p)' /\ ConfirmedLine(p)' /\ ReportedLine(p)' /\ UnconfirmedLine(p)'
    <3>1. GoesOn(p) /\ ConfirmedLine(p) /\ ReportedLine(p) /\ UnconfirmedLine(p)
      BY DEF JInv
    <3>2. QED
      BY <2>1, <3>1, LineSteps
  <2>3. QED
    BY <2>2 DEF JInv
<1>2. CASE UNCHANGED vars
  BY <1>2 DEF JInv, GoesOn, ConfirmedLine, ReportedLine, UnconfirmedLine, Waits, LastDelivered,
     vars, tx, rx, link, history
<1>3. QED
  BY <1>1, <1>2

LEMMA SecondInvariance == Spec => [](IInv /\ JInv)
<1>1. Init => JInv
  BY InitJInv
<1>2. JInv /\ IInv /\ IInv' /\ [Next]_vars => JInv'
  BY NextJInv
<1>3. QED
  BY <1>1, <1>2, Invariance, PTL DEF Spec

\* A fragment that was put together from adjacent segments, the first of which is FIR and the last
\* of which is FIN, is whole.
LEMMA AdjacentIsWhole ==
  ASSUME IInv, NEW p \in Stations, NEW i \in DOMAIN received[p],
         tpdu[Other(p)][received[p][i][1]].fir, Adjacent(received[p][i], tpdu[Other(p)])
  PROVE  IsWhole(Other(p), received[p][i])
<1>1. PutTogether(received[p], LastDelivered(p), tpdu[Other(p)]) /\ received[p] \in Seq(Seq(Nat))
  BY DEF IInv, Receiver, TypeOK
<1>2. i \in 1..Len(received[p])
  BY <1>1
<1>3. PICK c \in Seq(Nat) : c = received[p][i] /\ tpdu[Other(p)][LastOp(c)].fin
  BY <1>1, <1>2 DEF PutTogether
<1>4. DOMAIN c = 1..Len(c)
  OBVIOUS
<1>5. tpdu[Other(p)][c[1]].fir /\ Adjacent(c, tpdu[Other(p)])
  BY <1>3
<1>6. IsWhole(Other(p), c)
  BY <1>3, <1>4, <1>5 DEF IsWhole, Adjacent, LastOp
<1>7. QED
  BY <1>3, <1>6

\* Over a link that confirms, TransportRx passes up fragments that are whole, and a fragment for
\* which TransportTx signals OnSendSuccess has been passed up.
THEOREM ConfirmedCorrect == Spec => []ConfirmedArriveWhole
<1>1. IInv /\ JInv => ConfirmedArriveWhole
  <2>1. ASSUME IInv, JInv, NEW p \in Stations, Other(p) \in Confirming, stale = 0,
               NEW i \in DOMAIN received[p]
        PROVE  IsWhole(Other(p), received[p][i])
    <3>1. Whole(received[p], tpdu[Other(p)])
      BY <2>1 DEF JInv, ConfirmedLine
    <3>2. i \in 1..Len(received[p])
      BY <2>1, Within
    <3>3. QED
      BY <2>1, <3>1, <3>2, AdjacentIsWhole DEF Whole
  <2>2. ASSUME IInv, JInv, NEW q \in Confirming, stale = 0, FragSize[q] <= FragSize[Other(q)],
               NEW f \in reported[q] \ cut[q]
        PROVE  \E i \in DOMAIN received[Other(q)] : FragmentOf(Other(q), received[Other(q)][i]) = f
    <3>1. q \in Stations /\ Other(q) \in Stations /\ Other(Other(q)) = q
      BY TransportAssumption, Others
    <3>2. ReportedLine(Other(q))
      BY <2>2, <3>1 DEF JInv
    <3>3. Among(f, received[Other(q)], tpdu[q])
      BY <2>2, <3>1, <3>2 DEF ReportedLine
    <3>4. DOMAIN received[Other(q)] = 1..Len(received[Other(q)])
      BY <2>2, <3>1, Within
    <3>5. QED
      BY <3>1, <3>3, <3>4 DEF Among, FragmentOf, LastOp
  <2>3. ASSUME IInv, NEW q \in Confirming
        PROVE  /\ stale > 0 \/ stale = 0
               /\ FragSize[q] > FragSize[Other(q)] \/ FragSize[q] <= FragSize[Other(q)]
    <3>1. stale \in Nat /\ q \in Stations /\ FragSize[q] \in Nat /\ FragSize[Other(q)] \in Nat
      BY <2>3, TransportAssumption, Others DEF IInv, TypeOK
    <3>2. QED
      BY <3>1
  <2>4. IInv /\ JInv => ConfirmedAreWhole
    BY <2>1 DEF ConfirmedAreWhole
  <2>5. IInv /\ JInv => SentMeansReceived
    BY <2>2, <2>3 DEF SentMeansReceived
  <2>6. QED
    BY <2>4, <2>5 DEF ConfirmedArriveWhole
<1>2. QED
  BY <1>1, SecondInvariance, PTL

\* Without confirmation, what TransportRx passes up is whole as well, unless the peer sent segments
\* that TransportTx does not form, or as many as the sequence counts were lost in between.
THEOREM UnconfirmedCorrect == Spec => []MixedOnlyAfterWrap
<1>1. IInv /\ JInv => MixedOnlyAfterWrap
  <2>1. ASSUME IInv, JInv, NEW p \in Stations, Other(p) \notin Confirming,
               NEW i \in DOMAIN received[p]
        PROVE  LET c == received[p][i]
               IN  \/ IsWhole(Other(p), c)
                   \/ \E j \in DOMAIN c : ~tpdu[Other(p)][c[j]].own
                   \/ \E j \in 2..Len(c) : c[j] > c[j - 1] + SeqModulus
    <3>1. WholeOrMixed(received[p], tpdu[Other(p)])
      BY <2>1 DEF JInv, UnconfirmedLine
    <3>2. received[p] \in Seq(Seq(Nat)) /\ i \in 1..Len(received[p])
      BY <2>1, Within
    <3>3. DOMAIN received[p][i] = 1..Len(received[p][i])
      BY <3>2
    <3>4. CASE Adjacent(received[p][i], tpdu[Other(p)])
      BY <2>1, <3>1, <3>2, <3>4, AdjacentIsWhole DEF WholeOrMixed
    <3>5. CASE Mixed(received[p][i], tpdu[Other(p)])
      BY <3>3, <3>5 DEF Mixed
    <3>6. QED
      BY <3>1, <3>2, <3>4, <3>5 DEF WholeOrMixed
  <2>2. QED
    BY <2>1 DEF MixedOnlyAfterWrap
<1>2. QED
  BY <1>1, SecondInvariance, PTL
=============================================================================
