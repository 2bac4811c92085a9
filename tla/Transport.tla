----------------------------- MODULE Transport -----------------------------
(***************************************************************************)
(* The DNP3 transport function of two stations: TransportLayer, its states *)
(* (TransportStates), TransportTx and TransportRx. It cuts a fragment into *)
(* segments, hands them one by one to the link layer below and puts those  *)
(* it receives together again.                                             *)
(*                                                                         *)
(* The link between them is the one LinkService promises: an operation is  *)
(* delivered at most once and in order, or never. A station in Confirming  *)
(* waits for the outcome of each operation; the others are told of success *)
(* before the call returns (LinkLayer::SendUnconfirmedUserData), so a      *)
(* fragment of theirs leaves in one step.                                  *)
(*                                                                         *)
(* A station in Foreign runs another vendor's stack, which also sends      *)
(* segments that TransportTx never forms: with any sequence, with no       *)
(* payload, or with a short one that is not the last of its fragment.      *)
(***************************************************************************)
EXTENDS Integers, Sequences, FiniteSets

CONSTANTS
  Master, Outstation,  \* the two stations
  Confirming,          \* the stations whose link layer is configured with UseConfirms
  Foreign,             \* the stations that run another implementation
  FragSize,            \* FragSize[p]: M_FRAG_SIZE, the buffers of TransportTx and TransportRx
  Payload,             \* TL_MAX_TPDU_PAYLOAD
  SeqModulus,          \* 64
  Budgets,             \* bound: budget is one of these functions
  MaxOdd,              \* bound: segments a foreign station sends that TransportTx would not form
  MaxDowns,            \* bound: losses of the lower layer
  MaxStale             \* bound: operations acknowledged by an answer to an earlier one

Stations == {Master, Outstation}
Other(p) == IF p = Master THEN Outstation ELSE Master

ASSUME TransportAssumption ==
  /\ Master # Outstation
  /\ Confirming \subseteq Stations /\ Foreign \subseteq Stations \ Confirming
  /\ FragSize \in [Stations -> Nat \ {0}]
  /\ Payload \in Nat \ {0} /\ SeqModulus \in Nat \ {0}
  /\ Budgets \subseteq [Stations -> Nat] /\ MaxOdd \in Nat /\ MaxDowns \in Nat /\ MaxStale \in Nat

VARIABLES
  state,      \* mpState: Closed, Ready or Sending
  txSeq,      \* TransportTx::mSeq
  toSend,     \* TransportTx: bytes of the fragment not yet handed to the link
  rxSeq,      \* TransportRx::mSeq
  numRead,    \* TransportRx::mNumBytesRead
  buffer,     \* TransportRx::mBuffer: the operations whose payload it holds
  tpdu,       \* tpdu[p][n]: the segment p's link was handed as its operation n
  delivered,  \* delivered[p]: the operations of Other(p) that reached p
  handed,     \* history: fragments handed over at p
  received,   \* history: received[p] are the fragments passed up at p, each as
              \* the sequence of operations it was put together from
  reported,   \* history: fragments of p reported as sent
  cut,        \* history: fragments of p during which Other(p) lost its lower layer
  stale,      \* operations acknowledged before they were delivered so far
  downs,      \* losses of a lower layer so far
  budget      \* the fragments that may be handed over at each station in this behaviour

tx      == <<txSeq, toSend>>
rx      == <<rxSeq, numRead, buffer>>
link    == <<tpdu, delivered>>
history == <<handed, received, reported, cut>>
vars    == <<state, tx, rx, link, history, stale, downs, budget>>

\* Neither the fragment a segment belongs to nor whether TransportTx formed it is on the
\* wire, and no handler looks at them.
Segment == [frag : Nat, own : BOOLEAN, fir : BOOLEAN, fin : BOOLEAN, seq : Nat, len : Nat]

\* Operations handed to the link of p so far, and the last of them that arrived.
Sent(p) == Len(tpdu[p])
LastDelivered(p) == IF delivered[p] = <<>> THEN 0 ELSE delivered[p][Len(delivered[p])]

NextSeq(s) == (s + 1) % SeqModulus
Least(a, b) == IF a < b THEN a ELSE b

---------------------------------------------------------------------------
TypeOK ==
  /\ state \in [Stations -> {"Closed", "Ready", "Sending"}]
  /\ txSeq \in [Stations -> Nat] /\ rxSeq \in [Stations -> Nat]
  /\ toSend \in [Stations -> Nat]
  /\ numRead \in [Stations -> Nat]
  /\ buffer \in [Stations -> Seq(Nat)]
  /\ tpdu \in [Stations -> Seq(Segment)]
  /\ delivered \in [Stations -> Seq(Nat)]
  /\ handed \in [Stations -> Nat]
  /\ received \in [Stations -> Seq(Seq(Nat))]
  /\ reported \in [Stations -> SUBSET Nat] /\ cut \in [Stations -> SUBSET Nat]
  /\ stale \in Nat /\ downs \in Nat
  /\ budget \in Budgets

Init ==
  /\ state = [p \in Stations |-> "Closed"]
  /\ txSeq = [p \in Stations |-> 0] /\ rxSeq = [p \in Stations |-> 0]
  /\ toSend = [p \in Stations |-> 0]
  /\ numRead = [p \in Stations |-> 0]
  /\ buffer = [p \in Stations |-> <<>>]
  /\ tpdu = [p \in Stations |-> <<>>]
  /\ delivered = [p \in Stations |-> <<>>]
  /\ handed = [p \in Stations |-> 0]
  /\ received = [p \in Stations |-> <<>>]
  /\ reported = [p \in Stations |-> {}] /\ cut = [p \in Stations |-> {}]
  /\ stale = 0 /\ downs = 0
  /\ budget \in Budgets

---------------------------------------------------------------------------
(* The lower layer *)

\* TLS_Closed::LowerLayerUp
LowerLayerUp(p) ==
  /\ state[p] = "Closed"
  /\ state' = [state EXCEPT ![p] = "Ready"]
  /\ UNCHANGED <<tx, rx, link, history, stale, downs, budget>>

\* LowerLayerDown of TLS_Ready and TLS_Sending, and ThisLayerDown. The receiver is
\* reset, the transmitter keeps its sequence.
LowerLayerDown(p) ==
  /\ state[p] # "Closed"
  /\ downs < MaxDowns
  /\ downs' = downs + 1
  /\ state' = [state EXCEPT ![p] = "Closed"]
  /\ rxSeq' = [rxSeq EXCEPT ![p] = 0]
  /\ numRead' = [numRead EXCEPT ![p] = 0]
  /\ buffer' = [buffer EXCEPT ![p] = <<>>]
  /\ cut' = [cut EXCEPT ![Other(p)] = @ \cup {handed[Other(p)]}]
  /\ UNCHANGED <<tx, tpdu, delivered, handed, received, reported, stale, budget>>

---------------------------------------------------------------------------
(* Sending *)

\* Mutant of SegmentOf: the length of the last segment is not reduced to what is left.
SegmentOfFull(f, first, rest, s) ==
  [frag |-> f, own |-> TRUE, fir |-> first, fin |-> rest <= Payload, seq |-> s, len |-> Payload]

\* The segment TransportTx::CheckForSend forms when rest bytes of fragment f are left.
SegmentOf(f, first, rest, s) ==
  [frag |-> f, own |-> TRUE, fir |-> first, fin |-> rest <= Payload, seq |-> s,
   len |-> Least(rest, Payload)]

\* Mutant of CanSend: TLS_Sending takes a fragment too.
CanSendAlways(p, size) ==
  /\ state[p] # "Closed"
  /\ handed[p] < budget[p]
  /\ size \in 1..FragSize[p]
  /\ handed' = [handed EXCEPT ![p] = @ + 1]

\* TLS_Ready takes a fragment whose size _Send finds no fault with.
CanSend(p, size) ==
  /\ state[p] = "Ready"
  /\ handed[p] < budget[p]
  /\ size \in 1..FragSize[p]
  /\ handed' = [handed EXCEPT ![p] = @ + 1]

\* TLS_Ready::Send and TransportTx::Send over a link that confirms: the first segment.
Send(p) ==
  /\ p \in Confirming
  /\ \E size \in 1..FragSize[p] :
       LET first == SegmentOf(handed[p] + 1, TRUE, size, txSeq[p])
       IN  /\ CanSend(p, size)
           /\ tpdu' = [tpdu EXCEPT ![p] = Append(@, first)]
           /\ toSend' = [toSend EXCEPT ![p] = size - first.len]
  /\ state' = [state EXCEPT ![p] = "Sending"]
  /\ UNCHANGED <<txSeq, rx, delivered, received, reported, cut, stale, downs, budget>>

\* The same over a link that does not: OnSendSuccess comes from within every Send, so
\* the segments leave one after the other and TLS_Ready is back when the call returns.
SendUnconfirmed(p) ==
  /\ p \notin Confirming
  /\ \E size \in 1..FragSize[p] :
       LET count    == (size + Payload - 1) \div Payload
           segments == [i \in 1..count |->
                          SegmentOf(handed[p] + 1, i = 1, size - (i - 1) * Payload,
                                    (txSeq[p] + i - 1) % SeqModulus)]
       IN  /\ CanSend(p, size)
           /\ tpdu' = [tpdu EXCEPT ![p] = @ \o segments]
           /\ txSeq' = [txSeq EXCEPT ![p] = (@ + count) % SeqModulus]
  /\ reported' = [reported EXCEPT ![p] = @ \cup {handed[p] + 1}]
  /\ UNCHANGED <<state, toSend, rx, delivered, received, cut, stale, downs, budget>>

\* A foreign station sends a segment that stands alone, however it is formed.
SendOdd(p) ==
  /\ p \in Foreign
  /\ Cardinality({i \in DOMAIN tpdu[p] : ~tpdu[p][i].own}) < MaxOdd
  /\ state[p] = "Ready"
  /\ handed[p] < budget[p]
  /\ handed' = [handed EXCEPT ![p] = @ + 1]
  /\ \E fir, fin \in BOOLEAN, s \in 0..SeqModulus - 1, n \in 0..Payload :
       tpdu' = [tpdu EXCEPT ![p] =
                  Append(@, [frag |-> handed[p] + 1, own |-> FALSE, fir |-> fir, fin |-> fin,
                             seq |-> s, len |-> n])]
  /\ UNCHANGED <<state, tx, rx, delivered, received, reported, cut, stale, downs, budget>>

\* AckOfData of LinkLayer: p is told that its last operation succeeded, because it was
\* delivered or because the acknowledgement of an earlier one came late.
Acknowledged(p) ==
  /\ state[p] = "Sending"
  /\ IF LastDelivered(Other(p)) = Sent(p)
       THEN UNCHANGED stale
       ELSE stale < MaxStale /\ stale' = stale + 1

\* Mutant of ContinueSend: the sequence is incremented per fragment, not per segment.
ContinueSendSameSeq(p) ==
  /\ Acknowledged(p)
  /\ toSend[p] > 0
  /\ LET next == SegmentOf(handed[p], FALSE, toSend[p], txSeq[p])
     IN  /\ tpdu' = [tpdu EXCEPT ![p] = Append(@, next)]
         /\ toSend' = [toSend EXCEPT ![p] = @ - next.len]
  /\ UNCHANGED <<state, txSeq, rx, delivered, history, downs, budget>>

\* TLS_Sending::HandleSendSuccess, TransportTx::SendSuccess: the next segment.
ContinueSend(p) ==
  /\ Acknowledged(p)
  /\ toSend[p] > 0
  /\ txSeq' = [txSeq EXCEPT ![p] = NextSeq(@)]
  /\ LET next == SegmentOf(handed[p], FALSE, toSend[p], NextSeq(txSeq[p]))
     IN  /\ tpdu' = [tpdu EXCEPT ![p] = Append(@, next)]
         /\ toSend' = [toSend EXCEPT ![p] = @ - next.len]
  /\ UNCHANGED <<state, rx, delivered, history, downs, budget>>

\* The same after the last segment: SignalSendSuccess.
FinishSend(p) ==
  /\ Acknowledged(p)
  /\ toSend[p] = 0
  /\ txSeq' = [txSeq EXCEPT ![p] = NextSeq(@)]
  /\ state' = [state EXCEPT ![p] = "Ready"]
  /\ reported' = [reported EXCEPT ![p] = @ \cup {handed[p]}]
  /\ UNCHANGED <<toSend, rx, link, handed, received, cut, downs, budget>>

\* TLS_Sending::HandleSendFailure. The segment may arrive all the same.
HandleSendFailure(p) ==
  /\ state[p] = "Sending"
  /\ state' = [state EXCEPT ![p] = "Ready"]
  /\ UNCHANGED <<tx, rx, link, history, stale, downs, budget>>

---------------------------------------------------------------------------
(* Receiving *)

\* Mutant of BufferFor: a FIR segment does not replace what was read before.
BufferForKept(p, t) == buffer[p]

\* The sequence and the partial fragment TransportRx goes on with when segment t
\* arrives: a FIR segment discards what was read and sets the sequence.
SeqFor(p, t) == IF t.fir THEN t.seq ELSE rxSeq[p]
ReadFor(p, t) == IF t.fir THEN 0 ELSE numRead[p]
BufferFor(p, t) == IF t.fir THEN <<>> ELSE buffer[p]

\* Mutant of ValidateHeader: the sequence is not looked at.
ValidateHeaderNoSeq(p, t) ==
  /\ t.fir \/ numRead[p] > 0
  /\ t.fin \/ t.len = Payload

\* TransportRx::ValidateHeader
ValidateHeader(p, t) ==
  /\ t.fir \/ numRead[p] > 0
  /\ t.fin \/ t.len = Payload
  /\ t.seq = SeqFor(p, t)

\* Operation n of the other station arrives, and none of those before it that did not.
Arrives(p, n) ==
  /\ state[p] # "Closed"
  /\ n \in LastDelivered(p) + 1 .. Sent(Other(p))
  /\ delivered' = [delivered EXCEPT ![p] = Append(@, n)]
  /\ UNCHANGED <<state, tx, tpdu, handed, reported, cut, stale, downs, budget>>

\* TransportRx::HandleReceive refuses a segment: no payload, or a header at fault.
\* A refused FIR segment has discarded the partial fragment.
RefuseSegment(p, n) ==
  LET t == tpdu[Other(p)][n]
  IN  /\ Arrives(p, n)
      /\ \/ t.len = 0 /\ UNCHANGED rx
         \/ /\ t.len > 0 /\ ~ValidateHeader(p, t)
            /\ rxSeq' = [rxSeq EXCEPT ![p] = SeqFor(p, t)]
            /\ numRead' = [numRead EXCEPT ![p] = ReadFor(p, t)]
            /\ buffer' = [buffer EXCEPT ![p] = BufferFor(p, t)]
      /\ UNCHANGED received

Fits(p, t) == ReadFor(p, t) + t.len <= FragSize[p]

\* A valid segment for which the buffer is too small ends the fragment.
OverflowSegment(p, n) ==
  LET t == tpdu[Other(p)][n]
  IN  /\ Arrives(p, n)
      /\ t.len > 0 /\ ValidateHeader(p, t) /\ ~Fits(p, t)
      /\ rxSeq' = [rxSeq EXCEPT ![p] = SeqFor(p, t)]
      /\ numRead' = [numRead EXCEPT ![p] = 0]
      /\ buffer' = [buffer EXCEPT ![p] = <<>>]
      /\ UNCHANGED received

\* A valid segment is added; the last one of a fragment passes it up (ReceiveAPDU).
AcceptSegment(p, n) ==
  LET t == tpdu[Other(p)][n]
      b == Append(BufferFor(p, t), n)
  IN  /\ Arrives(p, n)
      /\ t.len > 0 /\ ValidateHeader(p, t) /\ Fits(p, t)
      /\ rxSeq' = [rxSeq EXCEPT ![p] = NextSeq(SeqFor(p, t))]
      /\ \/ /\ t.fin
            /\ numRead' = [numRead EXCEPT ![p] = 0]
            /\ buffer' = [buffer EXCEPT ![p] = <<>>]
            /\ received' = [received EXCEPT ![p] = Append(@, b)]
         \/ /\ ~t.fin
            /\ numRead' = [numRead EXCEPT ![p] = ReadFor(p, t) + t.len]
            /\ buffer' = [buffer EXCEPT ![p] = b]
            /\ UNCHANGED received

HandleReceive(p) ==
  \E n \in LastDelivered(p) + 1 .. Sent(Other(p)) :
    RefuseSegment(p, n) \/ OverflowSegment(p, n) \/ AcceptSegment(p, n)

---------------------------------------------------------------------------
Sending(p) ==
  \/ Send(p) \/ SendUnconfirmed(p) \/ SendOdd(p)
  \/ ContinueSend(p) \/ FinishSend(p) \/ HandleSendFailure(p)

Next ==
  \E p \in Stations : LowerLayerUp(p) \/ LowerLayerDown(p) \/ Sending(p) \/ HandleReceive(p)

Spec == Init /\ [][Next]_vars

---------------------------------------------------------------------------
(* Properties *)

\* The fragments, named by the number under which they were handed over, that the
\* user of p received: a fragment is complete when its last segment arrives.
FragmentOf(p, c) == tpdu[Other(p)][c[Len(c)]].frag
FragmentsReceived(p) == [i \in DOMAIN received[p] |-> FragmentOf(p, received[p][i])]

\* The operations c are all the segments of one fragment that q was handed.
IsWhole(q, c) ==
  /\ tpdu[q][c[1]].fir /\ tpdu[q][c[Len(c)]].fin
  /\ \A i \in DOMAIN c : c[i] = c[1] + i - 1 /\ tpdu[q][c[i]].frag = tpdu[q][c[1]].frag

\* What TransportRx passes up from a station whose link confirms is one fragment, whole:
\* no segment of a fragment given up (TransportTx keeps its sequence then, so the next
\* FIR repeats it) is joined with those of a later one. It rests on a FIR segment being
\* delivered before the next is sent, which a stale acknowledgement breaks.
ConfirmedAreWhole ==
  \A p \in Stations : Other(p) \in Confirming /\ stale = 0 =>
    \A i \in DOMAIN received[p] : IsWhole(Other(p), received[p][i])

\* Without confirmation a lost FIR segment goes unnoticed, and TransportRx keeps a partial
\* fragment for as long as no FIR arrives. Its sequence check joins it to the rest of
\* another fragment only when a multiple of 64 operations lies between the two, if
\* TransportTx formed them all.
MixedOnlyAfterWrap ==
  \A p \in Stations : Other(p) \notin Confirming =>
    \A i \in DOMAIN received[p] :
      LET c == received[p][i]
      IN  \/ IsWhole(Other(p), c)
          \/ \E j \in DOMAIN c : ~tpdu[Other(p)][c[j]].own
          \/ \E j \in 2..Len(c) : c[j] > c[j - 1] + SeqModulus

\* Whatever a peer sends, TransportRx never writes past its buffer, and what it counts
\* as read is what the buffer holds.
BufferHoldsWhatWasRead ==
  \A p \in Stations :
    /\ numRead[p] <= FragSize[p]
    /\ numRead[p] = Payload * Len(buffer[p])
    /\ \A i \in DOMAIN buffer[p] :
         LET t == tpdu[Other(p)][buffer[p][i]] IN t.fir = (i = 1) /\ ~t.fin /\ t.len = Payload

\* The two layers have their types and their buffers fit what they have counted.
Consistent == TypeOK /\ BufferHoldsWhatWasRead

\* OnSendSuccess over a link that confirms: the fragment has reached the other user,
\* unless an acknowledgement was stale, the other station lost its lower layer meanwhile
\* and its TransportRx forgot the beginning, or its buffer is the smaller one.
SentMeansReceived ==
  \A p \in Confirming :
    stale > 0 \/ FragSize[p] > FragSize[Other(p)] \/
    \A f \in reported[p] \ cut[p] :
      \E i \in DOMAIN received[Other(p)] : FragmentOf(Other(p), received[Other(p)][i]) = f

\* Over a link that confirms a fragment arrives whole or not at all, and the user is told
\* which (TransportTx, TransportRx).
ConfirmedArriveWhole == ConfirmedAreWhole /\ SentMeansReceived

\* The transport function gives its user, for fragments, the service the link gives it
\* for segments: at most once, in order, and one outcome before the next is handed over.
Fragments == INSTANCE LinkService WITH
  Master <- Master, Outstation <- Outstation,
  sent <- handed,
  busy <- [p \in Stations |-> state[p] = "Sending"],
  delivered <- [p \in Stations |-> FragmentsReceived(p)]
ImplementsFragments == Fragments!Spec
=============================================================================
