--------------------------- MODULE AppLayerProofs ---------------------------
(***************************************************************************)
(* Proofs about AppLayer, for every value of its constants: its types,     *)
(* the agreement of the send queue, the channels, their timers and their   *)
(* users, and what the users are told: requests and unsolicited responses  *)
(* in order and once, and only handled unsolicited responses confirmed.    *)
(***************************************************************************)
EXTENDS AppLayer, TLAPS

\* Who has to hear of the result of a Send of f
Kind(f) == IF f.fc = "CONFIRM" THEN "confirm" ELSE f.ch

\* Where the fragments of c are in a send queue, and how many there are
Places(q, c) == {i \in DOMAIN q : Kind(q[i]) = c}
None(q, c) == Places(q, c) = {}
One(q, c)  == \E i : Places(q, c) = {i}

\* What a channel and a transmitter know of queue q is true of queue r too.
Same(q, r, c) == (None(q, c) => None(r, c)) /\ (One(q, c) => One(r, c))

\* The transmitter of a station
Transmitter(p) ==
  /\ sending[p] <=> queue[p] # <<>>
  /\ None(queue[p], "confirm") \/ (One(queue[p], "confirm") /\ confirmSending[p])

\* A channel, its user, and its fragment in the send queue, which is the one it repeats.
Channel(k) ==
  /\ IF state[k] \in SendStates THEN One(queue[k[1]], k[2]) ELSE None(queue[k[1]], k[2])
  /\ timer[k] <=> state[k] \in WaitStates
  /\ busy[k] <=> state[k] # "Idle"
  /\ busy[k] => up[k[1]]
  /\ busy[k] => Kind(apdu[k]) = k[2]

IInv ==
  /\ TypeOK
  /\ \A p \in Stations : Transmitter(p)
  /\ \A k \in Channels : Channel(k)

---------------------------------------------------------------------------
(* Stations, channels and queues *)

LEMMA StationFacts ==
  /\ Master \in Stations /\ Outstation \in Stations
  /\ \A p \in Stations : Other(p) \in Stations /\ Other(p) # p /\ Other(Other(p)) = p
BY AppAssumption DEF Stations, Other

LEMMA ChannelFacts ==
  /\ \A p \in Stations : Sol(p) \in Channels /\ Uns(p) \in Channels
  /\ \A k \in Channels : k[1] \in Stations /\ k[2] \in {"sol", "uns"} /\ k = <<k[1], k[2]>>
  /\ \A p \in Stations, c \in {"sol", "uns"} : <<p, c>> \in Channels
BY DEF Channels, Sol, Uns

\* A fragment is queued: one more of its kind, and no other kind is disturbed.
LEMMA AppendPlaces ==
  ASSUME NEW q \in Seq(Fragment), NEW f \in Fragment, NEW c
  PROVE  /\ Kind(f) = c /\ None(q, c) => One(Append(q, f), c)
         /\ Kind(f) # c /\ None(q, c) => None(Append(q, f), c)
         /\ Kind(f) # c /\ One(q, c) => One(Append(q, f), c)
         /\ Append(q, f) \in Seq(Fragment) /\ Append(q, f) # <<>>
         /\ Head(Append(q, f)) \in Fragment
<1> DEFINE a == Append(q, f)
<1>1. /\ a \in Seq(Fragment) /\ a # <<>> /\ Head(a) \in Fragment
      /\ DOMAIN a = DOMAIN q \cup {Len(q) + 1} /\ Len(q) + 1 \notin DOMAIN q
      /\ a[Len(q) + 1] = f /\ \A i \in DOMAIN q : a[i] = q[i]
  OBVIOUS
<1> HIDE DEF a
<1>2. Places(a, c) = Places(q, c) \cup (IF Kind(f) = c THEN {Len(q) + 1} ELSE {})
  BY <1>1 DEF Places
<1>3. QED
  BY <1>1, <1>2 DEF None, One, a

\* The front is dequeued: the one of its kind is gone, and no other kind is disturbed.
LEMMA TailPlaces ==
  ASSUME NEW q \in Seq(Fragment), q # <<>>, NEW c
  PROVE  /\ Kind(Head(q)) = c /\ One(q, c) => None(Tail(q), c)
         /\ Kind(Head(q)) # c /\ None(q, c) => None(Tail(q), c)
         /\ Kind(Head(q)) # c /\ One(q, c) => One(Tail(q), c)
         /\ Tail(q) \in Seq(Fragment) /\ Head(q) \in Fragment
         /\ None(q, Kind(Head(q))) => FALSE
<1> DEFINE t == Tail(q)
<1>1. /\ t \in Seq(Fragment) /\ Head(q) \in Fragment /\ Head(q) = q[1]
      /\ 1 \in DOMAIN q
      /\ \A i \in DOMAIN t : i \in Int /\ i + 1 \in DOMAIN q /\ t[i] = q[i + 1] /\ i + 1 # 1
      /\ \A i \in DOMAIN q : i \in Int /\ (i # 1 => i - 1 \in DOMAIN t)
  OBVIOUS
<1> HIDE DEF t
<1>2. Places(t, c) = {i \in DOMAIN t : i + 1 \in Places(q, c)}
  BY <1>1 DEF Places
<1>3. Kind(Head(q)) = c <=> 1 \in Places(q, c)
  BY <1>1 DEF Places
<1>4. \A i \in Places(q, c) : i # 1 => i - 1 \in Places(t, c)
  BY <1>1, <1>2 DEF Places
<1>5. \A i \in Places(t, c) : i + 1 \in Places(q, c) /\ i + 1 # 1 /\ i \in Int
  BY <1>1, <1>2
<1>6. ASSUME Kind(Head(q)) # c, One(q, c)
      PROVE  One(t, c)
  <2>1. PICK i : Places(q, c) = {i}
    BY <1>6 DEF One
  <2>2. i # 1 /\ i \in Int
    BY <1>1, <1>3, <1>6, <2>1 DEF Places
  <2>3. i - 1 \in Places(t, c)
    BY <1>4, <2>1, <2>2
  <2>4. \A j \in Places(t, c) : j = i - 1
    BY <1>5, <2>1, <2>2
  <2>5. QED
    BY <2>3, <2>4 DEF One
<1>7. Kind(Head(q)) = c /\ One(q, c) => None(t, c)
  BY <1>3, <1>5 DEF None, One
<1>8. None(q, c) => None(t, c)
  BY <1>5 DEF None
<1>9. ~None(q, Kind(Head(q)))
  BY <1>1 DEF None, Places
<1>10. QED
  BY <1>1, <1>6, <1>7, <1>8, <1>9 DEF t

LEMMA EmptyPlaces == \A c : None(<<>>, c)
BY DEF None, Places

---------------------------------------------------------------------------
(* What the transmitter does *)

LEMMA PutType ==
  ASSUME NEW p, NEW q \in Seq(Fragment), NEW f \in Fragment
  PROVE  Put(p, q, f) \in Seq(Fragment)
BY DEF Put

\* QueueFrame appends f to the queue of p, which is then sending.
LEMMA QueueFrameEffect ==
  ASSUME TypeOK, NEW p \in Stations, NEW f \in Fragment, NEW unread \in Seq(Fragment),
         QueueFrame(p, f, unread)
  PROVE  /\ queue' \in [Stations -> Seq(Fragment)]
         /\ sending' \in [Stations -> BOOLEAN]
         /\ wire' \in [Stations -> Seq(Fragment)]
         /\ queue'[p] = Append(queue[p], f) /\ sending'[p]
         /\ \A r \in Stations : r # p => queue'[r] = queue[r] /\ sending'[r] = sending[r]
<1>1. queue \in [Stations -> Seq(Fragment)] /\ wire \in [Stations -> Seq(Fragment)]
      /\ sending \in [Stations -> BOOLEAN] /\ queue[p] \in Seq(Fragment) /\ wire[p] \in Seq(Fragment)
  BY DEF TypeOK
<1>2. Append(queue[p], f) \in Seq(Fragment) /\ Head(Append(queue[p], f)) \in Fragment
  BY <1>1, AppendPlaces
<1>3. PICK g \in Fragment : g = Head(Append(queue[p], f))
  BY <1>2
<1>4. PICK w \in Seq(Fragment) : w = Put(p, wire[p], g)
  BY <1>1, PutType
<1>5. p # Other(p) /\ Other(p) \in Stations
  BY StationFacts
<1>6. wire' = [wire EXCEPT ![Other(p)] = unread, ![p] = IF sending[p] THEN wire[p] ELSE w]
  BY <1>1, <1>3, <1>4, <1>5 DEF QueueFrame
<1>7. wire' \in [Stations -> Seq(Fragment)]
  BY <1>1, <1>5, <1>6
<1>8. QED
  BY <1>1, <1>2, <1>7 DEF QueueFrame

\* Dequeue drops the front of the queue of p and appends what is repeated.
LEMMA DequeueEffect ==
  ASSUME TypeOK, NEW p \in Stations, queue[p] # <<>>, NEW repeated \in Seq(Fragment),
         Dequeue(p, repeated)
  PROVE  /\ queue' \in [Stations -> Seq(Fragment)]
         /\ sending' \in [Stations -> BOOLEAN]
         /\ wire' \in [Stations -> Seq(Fragment)]
         /\ queue'[p] = Tail(queue[p]) \o repeated /\ (sending'[p] <=> queue'[p] # <<>>)
         /\ \A r \in Stations : r # p => queue'[r] = queue[r] /\ sending'[r] = sending[r]
<1>1. queue \in [Stations -> Seq(Fragment)] /\ wire \in [Stations -> Seq(Fragment)]
      /\ sending \in [Stations -> BOOLEAN] /\ queue[p] \in Seq(Fragment) /\ wire[p] \in Seq(Fragment)
  BY DEF TypeOK
<1>2. PICK q \in Seq(Fragment) : q = Tail(queue[p]) \o repeated
  <2>1. Tail(queue[p]) \in Seq(Fragment)
    BY <1>1
  <2>2. Tail(queue[p]) \o repeated \in Seq(Fragment)
    BY <2>1
  <2>3. QED
    BY <2>2
<1>3. /\ queue' = [queue EXCEPT ![p] = q]
      /\ sending' = [sending EXCEPT ![p] = q # <<>>]
      /\ wire' = IF q = <<>> THEN wire ELSE [wire EXCEPT ![p] = Put(p, wire[p], Head(q))]
  BY <1>1, <1>2 DEF Dequeue
<1>4. q # <<>> => Put(p, wire[p], Head(q)) \in Seq(Fragment)
  BY <1>1, PutType
<1>5. QED
  BY <1>1, <1>2, <1>3, <1>4

\* What a station reads.
LEMMA ReceivesFacts ==
  ASSUME TypeOK, NEW p \in Stations, NEW fcs, Receives(p, fcs)
  PROVE  /\ Incoming(p) \in Fragment /\ Incoming(p).fc \in fcs /\ Unread(p) \in Seq(Fragment)
         /\ up[p]
         /\ Consume(p) => wire' \in [Stations -> Seq(Fragment)]
<1>1. Other(p) \in Stations
  BY StationFacts
<1>2. wire \in [Stations -> Seq(Fragment)] /\ wire[Other(p)] \in Seq(Fragment) /\ wire[Other(p)] # <<>>
  BY <1>1 DEF TypeOK, Receives
<1>3. Head(wire[Other(p)]) \in Fragment /\ Tail(wire[Other(p)]) \in Seq(Fragment)
  BY <1>2
<1>4. Consume(p) => wire' \in [Stations -> Seq(Fragment)]
  BY <1>1, <1>2, <1>3 DEF Consume
<1>5. QED
  BY <1>3, <1>4 DEF Receives, Incoming, Unread

\* A station or a channel for which the action does nothing.
LEMMA Untouched ==
  ASSUME NEW p \in Stations, Same(queue[p], queue'[p], "confirm"), sending'[p] <=> queue'[p] # <<>>,
         confirmSending'[p] = confirmSending[p], Transmitter(p)
  PROVE  Transmitter(p)'
BY DEF Transmitter, Same

LEMMA UntouchedChannel ==
  ASSUME NEW k \in Channels, Same(queue[k[1]], queue'[k[1]], k[2]), state'[k] = state[k],
         timer'[k] = timer[k], busy'[k] = busy[k], apdu'[k] = apdu[k], up'[k[1]] = up[k[1]],
         Channel(k)
  PROVE  Channel(k)'
BY DEF Channel, Same

LEMMA SameQueue == \A q, c : Same(q, q, c)
BY DEF Same

---------------------------------------------------------------------------
(* The lower layer *)

LEMMA InitInv == Init => IInv
<1> SUFFICES ASSUME Init PROVE IInv
  OBVIOUS
<1>1. TypeOK
  BY AppAssumption DEF Init, TypeOK, Fragment, Requests, SendStates, WaitStates, Nothing
<1>2. ASSUME NEW p \in Stations
      PROVE  Transmitter(p)
  <2>1. ~sending[p] /\ queue[p] = <<>>
    BY DEF Init
  <2>2. QED
    BY <2>1, EmptyPlaces DEF Transmitter
<1>3. \A k \in Channels : Channel(k)
  BY EmptyPlaces, ChannelFacts DEF Init, Channel, SendStates, WaitStates
<1>4. QED
  BY <1>1, <1>2, <1>3 DEF IInv

LEMMA LineInv ==
  ASSUME IInv, NEW p \in Stations, Line(p)
  PROVE  IInv'
<1>1. TypeOK /\ Other(p) \in Stations /\ Other(p) # p
  BY StationFacts DEF IInv
<1>2. CASE OnLowerLayerUp(p)
  <2>1. TypeOK'
    BY <1>1, <1>2 DEF OnLowerLayerUp, TypeOK, sendVars, chanVars, history
  <2>2. \A r \in Stations : Transmitter(r)'
    BY <1>2 DEF IInv, OnLowerLayerUp, Transmitter, sendVars
  <2>3. \A k \in Channels : Channel(k)'
    BY <1>1, <1>2, ChannelFacts DEF IInv, TypeOK, OnLowerLayerUp, Channel, sendVars, chanVars
  <2>4. QED
    BY <2>1, <2>2, <2>3 DEF IInv
<1>3. CASE OnLowerLayerDown(p)
  <2>1. /\ queue' = [queue EXCEPT ![p] = <<>>] /\ queue' \in [Stations -> Seq(Fragment)]
        /\ wire' \in [Stations -> Seq(Fragment)]
    BY <1>1, <1>3 DEF OnLowerLayerDown, TypeOK
  <2>2. /\ up' \in [Stations -> BOOLEAN] /\ downs' \in [Stations -> Nat]
        /\ sending' \in [Stations -> BOOLEAN] /\ asked' \in [req : Nat, fc : Requests, fir : BOOLEAN]
    BY <1>1, <1>3 DEF OnLowerLayerDown, TypeOK, Nothing, Requests
  <2>3. /\ state' \in [Channels -> {"Idle"} \cup SendStates \cup WaitStates]
        /\ seq' \in [Channels -> -1..15] /\ timer' \in [Channels -> BOOLEAN]
        /\ busy' \in [Channels -> BOOLEAN]
    <3>1. state' \in [Channels -> {"Idle"} \cup SendStates \cup WaitStates]
      BY <1>1, <1>3 DEF OnLowerLayerDown, TypeOK
    <3>2. seq' \in [Channels -> -1..15]
      BY <1>1, <1>3 DEF OnLowerLayerDown, TypeOK
    <3>3. timer' \in [Channels -> BOOLEAN] /\ busy' \in [Channels -> BOOLEAN]
      BY <1>1, <1>3 DEF OnLowerLayerDown, TypeOK
    <3>4. QED
      BY <3>1, <3>2, <3>3
  <2>4. TypeOK'
    BY <1>1, <1>3, <2>1, <2>2, <2>3 DEF OnLowerLayerDown, TypeOK, history
  <2>5. ASSUME NEW r \in Stations
        PROVE  Transmitter(r)'
    <3>1. Transmitter(r) /\ confirmSending'[r] = confirmSending[r]
      BY <1>3 DEF IInv, OnLowerLayerDown
    <3>2. CASE r = p
      <4>1. ~sending'[p] /\ queue'[p] = <<>>
        BY <1>1, <1>3, <2>1 DEF OnLowerLayerDown, TypeOK
      <4>2. QED
        BY <3>2, <4>1, EmptyPlaces DEF Transmitter
    <3>3. CASE r # p
      BY <1>1, <1>3, <2>1, <3>1, <3>3 DEF OnLowerLayerDown, TypeOK, Transmitter
    <3>4. QED
      BY <3>2, <3>3
  <2>6. ASSUME NEW k \in Channels
        PROVE  Channel(k)'
    <3>1. Channel(k) /\ k[1] \in Stations
      BY ChannelFacts DEF IInv
    <3>2. CASE k[1] = p
      <4>1. /\ state'[k] = "Idle" /\ timer'[k] = FALSE /\ busy'[k] = FALSE /\ queue'[k[1]] = <<>>
        BY <1>1, <1>3, <2>1, <3>2 DEF OnLowerLayerDown, TypeOK
      <4>2. QED
        BY <4>1, EmptyPlaces DEF Channel, SendStates, WaitStates
    <3>3. CASE k[1] # p
      <4>1. /\ queue'[k[1]] = queue[k[1]] /\ state'[k] = state[k] /\ timer'[k] = timer[k]
            /\ busy'[k] = busy[k] /\ apdu'[k] = apdu[k] /\ up'[k[1]] = up[k[1]]
        BY <1>1, <1>3, <2>1, <3>1, <3>3 DEF OnLowerLayerDown, TypeOK
      <4>2. QED
        BY <3>1, <4>1, SameQueue, UntouchedChannel
    <3>4. QED
      BY <3>2, <3>3
  <2>7. QED
    BY <2>4, <2>5, <2>6 DEF IInv
<1>4. CASE LoseFragment(p)
  <2>1. wire' \in [Stations -> Seq(Fragment)]
    BY <1>1, <1>4 DEF LoseFragment, TypeOK
  <2>2. TypeOK'
    BY <1>1, <1>4, <2>1 DEF LoseFragment, TypeOK, sendVars, chanVars, history
  <2>3. \A r \in Stations : Transmitter(r)'
    BY <1>4 DEF IInv, LoseFragment, Transmitter, sendVars
  <2>4. \A k \in Channels : Channel(k)'
    BY <1>4 DEF IInv, LoseFragment, Channel, sendVars, chanVars
  <2>5. QED
    BY <2>2, <2>3, <2>4 DEF IInv
<1>5. QED
  BY <1>2, <1>3, <1>4 DEF Line

---------------------------------------------------------------------------
(* The outcome of a Send *)

\* The fragment whose result comes in is the only one of its kind in the queue, and its
\* channel is in a sending state.
LEMMA ResultFacts ==
  ASSUME IInv, NEW p \in Stations, sending[p]
  PROVE  /\ queue[p] # <<>> /\ Tail(queue[p]) \in Seq(Fragment) /\ Head(queue[p]) \in Fragment
         /\ None(Tail(queue[p]), Kind(Head(queue[p])))
         /\ \A c : c # Kind(Head(queue[p])) => Same(queue[p], Tail(queue[p]), c)
         /\ \A k \in Channels : SentBy(p, k) =>
              k[1] = p /\ Kind(Head(queue[p])) = k[2] /\ state[k] \in SendStates
<1>1. queue[p] \in Seq(Fragment) /\ queue[p] # <<>> /\ Transmitter(p)
  BY DEF IInv, TypeOK, Transmitter
<1>2. PICK q \in Seq(Fragment) : q = queue[p]
  BY <1>1
<1>3. /\ Tail(q) \in Seq(Fragment) /\ Head(q) \in Fragment /\ ~None(q, Kind(Head(q)))
      /\ \A c : Kind(Head(q)) = c /\ One(q, c) => None(Tail(q), c)
      /\ \A c : Kind(Head(q)) # c => Same(q, Tail(q), c)
  BY <1>1, <1>2, TailPlaces DEF Same
<1>4. ASSUME NEW k \in Channels, k[1] = p, Kind(Head(q)) = k[2]
      PROVE  state[k] \in SendStates /\ One(q, k[2])
  BY <1>2, <1>3, <1>4 DEF IInv, Channel
<1>5. One(q, Kind(Head(q)))
  <2>1. CASE Head(q).fc = "CONFIRM"
    BY <1>1, <1>2, <1>3, <2>1 DEF Kind, Transmitter
  <2>2. CASE Head(q).fc # "CONFIRM"
    <3>1. Head(q).ch \in {"sol", "uns"} /\ Kind(Head(q)) = Head(q).ch
      BY <1>3, <2>2 DEF Kind, Fragment
    <3>2. <<p, Head(q).ch>> \in Channels
      BY <3>1, ChannelFacts
    <3>3. QED
      BY <1>4, <3>1, <3>2
  <2>3. QED
    BY <2>1, <2>2
<1>6. \A k \in Channels : SentBy(p, k) => k[1] = p /\ Kind(Head(q)) = k[2]
  BY <1>2 DEF SentBy, Kind
<1>7. QED
  BY <1>1, <1>2, <1>3, <1>4, <1>5, <1>6

LEMMA ConfirmSentInv ==
  ASSUME IInv, NEW p \in Stations, ConfirmSent(p)
  PROVE  IInv'
<1>1. /\ sending[p] /\ Kind(Head(queue[p])) = "confirm" /\ Dequeue(p, <<>>)
      /\ confirmSending' = [confirmSending EXCEPT ![p] = FALSE]
      /\ UNCHANGED <<up, chanVars, busy, asked, handed, downs, history>>
  BY DEF ConfirmSent, Kind
<1>2. /\ queue[p] # <<>> /\ Tail(queue[p]) \in Seq(Fragment) /\ None(Tail(queue[p]), "confirm")
      /\ \A c : c # "confirm" => Same(queue[p], Tail(queue[p]), c)
  BY <1>1, ResultFacts
<1>3. /\ queue' \in [Stations -> Seq(Fragment)] /\ sending' \in [Stations -> BOOLEAN]
      /\ wire' \in [Stations -> Seq(Fragment)]
      /\ queue'[p] = Tail(queue[p]) /\ (sending'[p] <=> queue'[p] # <<>>)
      /\ \A r \in Stations : r # p => queue'[r] = queue[r] /\ sending'[r] = sending[r]
  <2>1. <<>> \in Seq(Fragment) /\ Tail(queue[p]) \o <<>> = Tail(queue[p])
    BY <1>2
  <2>2. QED
    BY <1>1, <1>2, <2>1, DequeueEffect DEF IInv
<1>4. TypeOK'
  BY <1>1, <1>3 DEF IInv, TypeOK, chanVars, history
<1>5. ASSUME NEW r \in Stations
      PROVE  Transmitter(r)'
  <2>1. CASE r = p
    BY <1>2, <1>3, <2>1 DEF Transmitter
  <2>2. CASE r # p
    <3>1. confirmSending'[r] = confirmSending[r]
      BY <1>1, <2>2 DEF IInv, TypeOK
    <3>2. QED
      BY <1>3, <2>2, <3>1 DEF IInv, Transmitter
  <2>3. QED
    BY <2>1, <2>2
<1>6. ASSUME NEW k \in Channels
      PROVE  Channel(k)'
  <2>1. Same(queue[k[1]], queue'[k[1]], k[2])
    <3>1. k[1] \in Stations /\ k[2] # "confirm"
      BY ChannelFacts
    <3>2. CASE k[1] = p
      BY <1>2, <1>3, <3>1, <3>2
    <3>3. CASE k[1] # p
      BY <1>3, <3>1, <3>3, SameQueue
    <3>4. QED
      BY <3>2, <3>3
  <2>2. /\ state'[k] = state[k] /\ timer'[k] = timer[k] /\ busy'[k] = busy[k]
        /\ apdu'[k] = apdu[k] /\ up'[k[1]] = up[k[1]]
    BY <1>1 DEF chanVars
  <2>3. Channel(k)
    BY DEF IInv
  <2>4. QED
    BY <2>1, <2>2, <2>3, UntouchedChannel
<1>7. QED
  BY <1>4, <1>5, <1>6 DEF IInv
\* The result of a fragment of channel k: what becomes of k, and all that is left alone.
LEMMA ChannelResult ==
  ASSUME IInv, NEW p \in Stations, NEW k \in Channels, sending[p], SentBy(p, k),
         NEW repeated \in Seq(Fragment), Dequeue(p, repeated),
         repeated = <<>> \/ repeated = <<apdu[k]>>,
         UNCHANGED <<up, confirmSending, apdu>>,
         \A x \in Channels \ {k} : state'[x] = state[x] /\ timer'[x] = timer[x] /\ busy'[x] = busy[x]
  PROVE  /\ \A r \in Stations : Transmitter(r)'
         /\ \A x \in Channels \ {k} : Channel(x)'
         /\ repeated = <<>> => None(queue'[k[1]], k[2])
         /\ repeated = <<apdu[k]>> => One(queue'[k[1]], k[2])
<1> DEFINE t == Tail(queue[p])
<1>1. /\ queue[p] # <<>> /\ t \in Seq(Fragment)
      /\ k[1] = p /\ Kind(Head(queue[p])) = k[2] /\ state[k] \in SendStates
      /\ None(t, k[2]) /\ \A c : c # k[2] => Same(queue[p], t, c)
  <2>1. k[1] = p /\ Kind(Head(queue[p])) = k[2] /\ state[k] \in SendStates
    BY ResultFacts
  <2>2. None(t, Kind(Head(queue[p]))) /\ \A c : c # Kind(Head(queue[p])) => Same(queue[p], t, c)
    BY ResultFacts
  <2>3. QED
    BY <2>1, <2>2, ResultFacts
<1>2. apdu[k] \in Fragment /\ Kind(apdu[k]) = k[2]
  BY <1>1 DEF IInv, TypeOK, Channel, SendStates
<1> HIDE DEF t
<1>3. /\ queue'[p] = t \o repeated /\ (sending'[p] <=> queue'[p] # <<>>)
      /\ \A r \in Stations : r # p => queue'[r] = queue[r] /\ sending'[r] = sending[r]
  BY <1>1, DequeueEffect DEF IInv, t
<1>4. t \o repeated = t \/ t \o repeated = Append(t, apdu[k])
  <2>1. t \o <<>> = t /\ t \o <<apdu[k]>> = Append(t, apdu[k])
    BY <1>1, <1>2
  <2>2. QED
    BY <2>1
<1>5. /\ repeated = <<>> => None(queue'[p], k[2])
      /\ repeated = <<apdu[k]>> => One(queue'[p], k[2])
  <2>1. CASE repeated = <<>>
    <3>1. t \o repeated = t /\ repeated # <<apdu[k]>>
      BY <1>1, <2>1
    <3>2. QED
      BY <1>1, <1>3, <3>1
  <2>2. CASE repeated = <<apdu[k]>>
    <3>1. t \o repeated = Append(t, apdu[k]) /\ repeated # <<>>
      BY <1>1, <1>2, <2>2
    <3>2. QED
      BY <1>1, <1>2, <1>3, <3>1, AppendPlaces
  <2>3. QED
    BY <2>1, <2>2
<1>6. ASSUME NEW c, c # k[2]
      PROVE  Same(queue[p], queue'[p], c)
  <2>1. Same(queue[p], t, c) /\ Same(t, Append(t, apdu[k]), c)
    BY <1>1, <1>2, <1>6, AppendPlaces DEF Same
  <2>2. QED
    BY <1>3, <1>4, <2>1 DEF Same
<1>7. ASSUME NEW r \in Stations
      PROVE  Transmitter(r)'
  <2>1. k[2] # "confirm"
    BY ChannelFacts
  <2>2. CASE r = p
    BY <1>3, <1>6, <2>1, <2>2, Untouched DEF IInv
  <2>3. CASE r # p
    BY <1>3, <2>3 DEF IInv, Transmitter
  <2>4. QED
    BY <2>2, <2>3
<1>8. ASSUME NEW x \in Channels \ {k}
      PROVE  Channel(x)'
  <2>1. x[1] = p => x[2] # k[2]
    BY <1>1, ChannelFacts
  <2>2. Same(queue[x[1]], queue'[x[1]], x[2])
    BY <1>3, <1>6, <2>1, ChannelFacts, SameQueue
  <2>3. QED
    BY <2>2, UntouchedChannel DEF IInv
<1>9. QED
  BY <1>1, <1>5, <1>7, <1>8
LEMMA OnSendSuccessInv ==
  ASSUME IInv, NEW p \in Stations, OnSendSuccess(p)
  PROVE  IInv'
<1>1. TypeOK /\ UNCHANGED <<up, confirmSending, seq, retry, apdu, handed, downs, history>>
      /\ Dequeue(p, <<>>)
  BY DEF IInv, OnSendSuccess
<1>2. PICK k \in Channels :
        /\ SentBy(p, k)
        /\ \/ /\ state[k] = "Send"
              /\ state' = [state EXCEPT ![k] = "Idle"]
              /\ busy' = [busy EXCEPT ![k] = FALSE]
              /\ UNCHANGED <<timer, asked>>
           \/ /\ state[k] \in {"SendConfirmed", "SendExpectResponse"}
              /\ state' = [state EXCEPT ![k] = IF @ = "SendConfirmed" THEN "WaitForConfirm"
                                                 ELSE "WaitForFirstResponse"]
              /\ timer' = [timer EXCEPT ![k] = TRUE]
              /\ UNCHANGED <<busy, asked>>
           \/ /\ state[k] = "SendCanceled"
              /\ Failure(k)
              /\ UNCHANGED timer
  BY DEF OnSendSuccess
<1>3. sending[p] /\ queue[p] # <<>> /\ <<>> \in Seq(Fragment) /\ <<>> # <<apdu[k]>>
      /\ Channel(k)
  BY <1>2, ResultFacts DEF SentBy, IInv
<1>4. /\ queue' \in [Stations -> Seq(Fragment)] /\ sending' \in [Stations -> BOOLEAN]
      /\ wire' \in [Stations -> Seq(Fragment)]
  BY <1>1, <1>3, DequeueEffect
<1>5. \A x \in Channels \ {k} : state'[x] = state[x] /\ timer'[x] = timer[x] /\ busy'[x] = busy[x]
  BY <1>1, <1>2 DEF TypeOK, Failure
<1>6. /\ \A r \in Stations : Transmitter(r)'
      /\ \A x \in Channels \ {k} : Channel(x)'
      /\ None(queue'[k[1]], k[2])
  BY <1>1, <1>2, <1>3, <1>5, ChannelResult
<1>7. CASE state[k] = "Send" /\ state' = [state EXCEPT ![k] = "Idle"]
           /\ busy' = [busy EXCEPT ![k] = FALSE] /\ UNCHANGED <<timer, asked>>
  <2>1. TypeOK'
    BY <1>1, <1>4, <1>7 DEF TypeOK, history
  <2>2. Channel(k)'
    BY <1>1, <1>3, <1>6, <1>7 DEF TypeOK, Channel, SendStates, WaitStates
  <2>3. QED
    BY <1>6, <2>1, <2>2 DEF IInv
<1>8. CASE /\ state[k] \in {"SendConfirmed", "SendExpectResponse"}
           /\ state' = [state EXCEPT ![k] = IF @ = "SendConfirmed" THEN "WaitForConfirm"
                                              ELSE "WaitForFirstResponse"]
           /\ timer' = [timer EXCEPT ![k] = TRUE]
           /\ UNCHANGED <<busy, asked>>
  <2>1. TypeOK'
    BY <1>1, <1>4, <1>8 DEF TypeOK, history, WaitStates
  <2>2. Channel(k)'
    BY <1>1, <1>3, <1>6, <1>8 DEF TypeOK, Channel, SendStates, WaitStates
  <2>3. QED
    BY <1>6, <2>1, <2>2 DEF IInv
<1>9. CASE state[k] = "SendCanceled" /\ Failure(k) /\ UNCHANGED timer
  <2>1. TypeOK'
    BY <1>1, <1>4, <1>9 DEF TypeOK, history, Failure, Nothing, Requests
  <2>2. Channel(k)'
    BY <1>1, <1>3, <1>6, <1>9 DEF TypeOK, Channel, SendStates, WaitStates, Failure
  <2>3. QED
    BY <1>6, <2>1, <2>2 DEF IInv
<1>10. QED
  BY <1>2, <1>7, <1>8, <1>9

LEMMA OnSendFailureInv ==
  ASSUME IInv, NEW p \in Stations, OnSendFailure(p)
  PROVE  IInv'
<1>1. TypeOK /\ UNCHANGED <<up, confirmSending, seq, timer, apdu, handed, downs, history>>
  BY DEF IInv, OnSendFailure
<1>2. PICK k \in Channels :
        /\ SentBy(p, k)
        /\ \/ /\ state[k] # "SendCanceled" /\ Retry(k) /\ Dequeue(p, <<apdu[k]>>)
              /\ UNCHANGED <<state, busy, asked>>
           \/ Failure(k) /\ Dequeue(p, <<>>) /\ UNCHANGED retry
  BY DEF OnSendFailure
<1>3. /\ sending[p] /\ queue[p] # <<>> /\ <<>> \in Seq(Fragment) /\ <<>> # <<apdu[k]>>
      /\ <<apdu[k]>> \in Seq(Fragment)
      /\ Channel(k) /\ state[k] \in SendStates
  BY <1>1, <1>2, ResultFacts DEF SentBy, IInv, TypeOK
<1>4. CASE Retry(k) /\ Dequeue(p, <<apdu[k]>>) /\ UNCHANGED <<state, busy, asked>>
  <2>1. /\ queue' \in [Stations -> Seq(Fragment)] /\ sending' \in [Stations -> BOOLEAN]
        /\ wire' \in [Stations -> Seq(Fragment)]
    BY <1>1, <1>3, <1>4, DequeueEffect
  <2>2. /\ \A r \in Stations : Transmitter(r)'
        /\ \A x \in Channels \ {k} : Channel(x)'
        /\ One(queue'[k[1]], k[2])
    BY <1>1, <1>2, <1>3, <1>4, ChannelResult
  <2>3. retry' \in [Channels -> 0..NumRetry]
    BY <1>1, <1>4, AppAssumption DEF TypeOK, Retry
  <2>4. TypeOK'
    BY <1>1, <1>4, <2>1, <2>3 DEF TypeOK, history
  <2>5. Channel(k)'
    BY <1>1, <1>3, <1>4, <2>2 DEF Channel
  <2>6. QED
    BY <2>2, <2>4, <2>5 DEF IInv
<1>5. CASE Failure(k) /\ Dequeue(p, <<>>) /\ UNCHANGED retry
  <2>1. /\ queue' \in [Stations -> Seq(Fragment)] /\ sending' \in [Stations -> BOOLEAN]
        /\ wire' \in [Stations -> Seq(Fragment)]
    BY <1>1, <1>3, <1>5, DequeueEffect
  <2>2. \A x \in Channels \ {k} : state'[x] = state[x] /\ timer'[x] = timer[x] /\ busy'[x] = busy[x]
    BY <1>1, <1>5 DEF TypeOK, Failure
  <2>3. /\ \A r \in Stations : Transmitter(r)'
        /\ \A x \in Channels \ {k} : Channel(x)'
        /\ None(queue'[k[1]], k[2])
    BY <1>1, <1>2, <1>3, <1>5, <2>2, ChannelResult
  <2>4. TypeOK'
    BY <1>1, <1>5, <2>1 DEF TypeOK, history, Failure, Nothing, Requests
  <2>5. Channel(k)'
    BY <1>1, <1>3, <1>5, <2>3 DEF TypeOK, Channel, SendStates, WaitStates, Failure
  <2>6. QED
    BY <2>3, <2>4, <2>5 DEF IInv
<1>6. QED
  BY <1>2, <1>4, <1>5
---------------------------------------------------------------------------
(* Fragments that are queued by a channel *)

\* Channel k queues f: what becomes of k, and all that is left alone.
LEMMA ChannelQueues ==
  ASSUME IInv, NEW k \in Channels, state[k] \notin SendStates,
         NEW f \in Fragment, Kind(f) = k[2], NEW unread \in Seq(Fragment), QueueFrame(k[1], f, unread),
         UNCHANGED <<up, confirmSending>>,
         \A x \in Channels \ {k} : /\ state'[x] = state[x] /\ timer'[x] = timer[x]
                                   /\ busy'[x] = busy[x] /\ apdu'[x] = apdu[x]
  PROVE  /\ \A r \in Stations : Transmitter(r)'
         /\ \A x \in Channels \ {k} : Channel(x)'
         /\ One(queue'[k[1]], k[2])
<1> DEFINE p == k[1]
<1>1. p \in Stations /\ k[2] # "confirm" /\ None(queue[p], k[2]) /\ queue[p] \in Seq(Fragment)
  BY ChannelFacts DEF IInv, Channel, TypeOK
<1>2. /\ queue'[p] = Append(queue[p], f) /\ sending'[p]
      /\ \A r \in Stations : r # p => queue'[r] = queue[r] /\ sending'[r] = sending[r]
  BY <1>1, QueueFrameEffect DEF IInv
<1> HIDE DEF p
<1>3. One(queue'[p], k[2]) /\ queue'[p] # <<>>
  BY <1>1, <1>2, AppendPlaces
<1>4. ASSUME NEW c, c # k[2]
      PROVE  Same(queue[p], queue'[p], c)
  BY <1>1, <1>2, <1>4, AppendPlaces DEF Same
<1>5. ASSUME NEW r \in Stations
      PROVE  Transmitter(r)'
  <2>1. CASE r = p
    BY <1>1, <1>2, <1>3, <1>4, <2>1, Untouched DEF IInv
  <2>2. CASE r # p
    BY <1>2, <2>2 DEF IInv, Transmitter
  <2>3. QED
    BY <2>1, <2>2
<1>6. ASSUME NEW x \in Channels \ {k}
      PROVE  Channel(x)'
  <2>1. x[1] = p => x[2] # k[2]
    BY ChannelFacts DEF p
  <2>2. Same(queue[x[1]], queue'[x[1]], x[2])
    BY <1>2, <1>4, <2>1, ChannelFacts, SameQueue
  <2>3. QED
    BY <2>2, UntouchedChannel DEF IInv
<1>7. QED
  BY <1>3, <1>5, <1>6 DEF p

\* The line to a station is a sequence of fragments.
LEMMA UnreadType == TypeOK => \A p \in Stations : wire[Other(p)] \in Seq(Fragment)
BY StationFacts DEF TypeOK

LEMMA OnTimeoutInv ==
  ASSUME IInv, NEW k \in Channels, OnTimeout(k)
  PROVE  IInv'
<1> DEFINE unread == wire[Other(k[1])]
<1>1. /\ TypeOK /\ Channel(k) /\ k[1] \in Stations /\ unread \in Seq(Fragment)
      /\ UNCHANGED <<up, seq, apdu, handed, downs, history>>
      /\ timer' = [timer EXCEPT ![k] = FALSE]
  BY ChannelFacts, UnreadType DEF IInv, OnTimeout
<1> HIDE DEF unread
<1>2. state[k] \in WaitStates /\ state[k] \notin SendStates /\ busy[k] /\ timer[k]
      /\ apdu[k] \in Fragment /\ Kind(apdu[k]) = k[2]
  BY <1>1 DEF OnTimeout, Channel, WaitStates, SendStates, TypeOK
<1>3. CASE /\ Retry(k)
           /\ state' = [state EXCEPT ![k] = IF @ = "WaitForConfirm" THEN "SendConfirmed"
                                              ELSE "SendExpectResponse"]
           /\ QueueFrame(k[1], apdu[k], unread)
           /\ UNCHANGED <<confirmSending, busy, asked>>
  <2>1. /\ queue' \in [Stations -> Seq(Fragment)] /\ sending' \in [Stations -> BOOLEAN]
        /\ wire' \in [Stations -> Seq(Fragment)]
    BY <1>1, <1>2, <1>3, QueueFrameEffect
  <2>2. \A x \in Channels \ {k} : state'[x] = state[x] /\ timer'[x] = timer[x]
    BY <1>1, <1>3 DEF TypeOK
  <2>3. /\ \A r \in Stations : Transmitter(r)'
        /\ \A x \in Channels \ {k} : Channel(x)'
        /\ One(queue'[k[1]], k[2])
    BY <1>1, <1>2, <1>3, <2>2, ChannelQueues
  <2>4. retry' \in [Channels -> 0..NumRetry]
    BY <1>1, <1>3, AppAssumption DEF TypeOK, Retry
  <2>5. TypeOK'
    BY <1>1, <1>3, <2>1, <2>4 DEF TypeOK, history, SendStates
  <2>6. Channel(k)'
    BY <1>1, <1>2, <1>3, <2>3 DEF TypeOK, Channel, SendStates, WaitStates
  <2>7. QED
    BY <2>3, <2>5, <2>6 DEF IInv
<1>4. CASE Failure(k) /\ UNCHANGED <<sendVars, retry, wire>>
  <2>1. TypeOK'
    BY <1>1, <1>4 DEF TypeOK, history, sendVars, Failure, Nothing, Requests
  <2>2. \A r \in Stations : Transmitter(r)'
    BY <1>4 DEF IInv, Transmitter, sendVars
  <2>3. ASSUME NEW x \in Channels \ {k}
        PROVE  Channel(x)'
    BY <1>1, <1>4 DEF IInv, TypeOK, Channel, sendVars, Failure
  <2>4. Channel(k)'
    BY <1>1, <1>2, <1>4 DEF TypeOK, Channel, SendStates, WaitStates, Failure, sendVars
  <2>5. QED
    BY <2>1, <2>2, <2>3, <2>4 DEF IInv
<1>5. QED
  BY <1>3, <1>4 DEF OnTimeout, unread
---------------------------------------------------------------------------
(* The users *)

LEMMA RetriesType == \A fc : Retries(fc) \in 0..NumRetry
BY AppAssumption DEF Retries

LEMMA NextSeqType == \A n \in -1..15 : NextSeq(n) \in 0..15
BY DEF NextSeq

LEMMA SequenceTypes ==
  ASSUME TypeOK, NEW k \in Channels
  PROVE  seq[k] \in -1..15 /\ NextSeq(seq[k]) \in 0..15 /\ handed[k] + 1 \in Nat
<1>1. seq[k] \in -1..15 /\ handed[k] \in Nat
  BY DEF TypeOK
<1>2. QED
  BY <1>1, NextSeqType

\* A user hands f to its idle channel.
LEMMA SendInv ==
  ASSUME IInv, NEW k \in Channels, CanSend(k), NEW next \in SendStates,
         NEW f \in Fragment, Kind(f) = k[2], Send(k, next, f),
         asked' \in [req : Nat, fc : Requests, fir : BOOLEAN]
  PROVE  IInv'
<1>1. /\ TypeOK /\ Channel(k) /\ k[1] \in Stations /\ wire[Other(k[1])] \in Seq(Fragment)
      /\ state[k] = "Idle" /\ state[k] \notin SendStates /\ up[k[1]]
      /\ UNCHANGED <<up, confirmSending, timer, downs, history>>
      /\ QueueFrame(k[1], f, wire[Other(k[1])])
  BY ChannelFacts, UnreadType DEF IInv, Send, CanSend, SendStates
<1>2. /\ queue' \in [Stations -> Seq(Fragment)] /\ sending' \in [Stations -> BOOLEAN]
      /\ wire' \in [Stations -> Seq(Fragment)]
  BY <1>1, QueueFrameEffect
<1>3. \A x \in Channels \ {k} : /\ state'[x] = state[x] /\ timer'[x] = timer[x]
                                /\ busy'[x] = busy[x] /\ apdu'[x] = apdu[x]
  BY <1>1 DEF TypeOK, Send
<1>4. /\ \A r \in Stations : Transmitter(r)'
      /\ \A x \in Channels \ {k} : Channel(x)'
      /\ One(queue'[k[1]], k[2])
  BY <1>1, <1>3, ChannelQueues
<1>5. f.seq \in -1..15
  BY DEF Fragment
<1>6. /\ state' \in [Channels -> {"Idle"} \cup SendStates \cup WaitStates]
      /\ seq' \in [Channels -> -1..15]
      /\ retry' \in [Channels -> 0..NumRetry]
      /\ apdu' \in [Channels -> Fragment]
      /\ busy' \in [Channels -> BOOLEAN]
      /\ handed' \in [Channels -> Nat]
  <2>1. state' \in [Channels -> {"Idle"} \cup SendStates \cup WaitStates]
    BY <1>1 DEF TypeOK, Send
  <2>2. seq' \in [Channels -> -1..15]
    BY <1>1, <1>5 DEF TypeOK, Send
  <2>3. retry' \in [Channels -> 0..NumRetry]
    BY <1>1, RetriesType DEF TypeOK, Send
  <2>4. apdu' \in [Channels -> Fragment] /\ busy' \in [Channels -> BOOLEAN]
    BY <1>1 DEF TypeOK, Send
  <2>5. handed' \in [Channels -> Nat]
    BY <1>1, SequenceTypes DEF TypeOK, Send
  <2>6. QED
    BY <2>1, <2>2, <2>3, <2>4, <2>5
<1>7. TypeOK'
  BY <1>1, <1>2, <1>6 DEF TypeOK, history
<1>8. /\ state'[k] = next /\ timer'[k] = timer[k] /\ busy'[k] /\ apdu'[k] = f /\ up'[k[1]]
  BY <1>1 DEF TypeOK, Send
<1>9. Channel(k)'
  BY <1>1, <1>4, <1>8 DEF Channel, SendStates, WaitStates
<1>10. QED
  BY <1>4, <1>7, <1>9 DEF IInv

LEMMA SendRequestInv == IInv /\ SendRequest => IInv'
<1> SUFFICES ASSUME IInv, SendRequest PROVE IInv'
  OBVIOUS
<1> DEFINE k == Sol(Master)
<1>1. k \in Channels /\ k[2] = "sol" /\ TypeOK /\ CanSend(k) /\ asked' = asked
  BY StationFacts, ChannelFacts DEF SendRequest, Sol, IInv
<1> DEFINE F(fc) == [fc |-> fc, ch |-> "sol", seq |-> NextSeq(seq[k]), fir |-> TRUE, fin |-> TRUE,
                     con |-> FALSE, id |-> handed[k] + 1, req |-> handed[k] + 1]
<1>2. PICK fc \in Functions : Send(k, "SendExpectResponse", F(fc))
  BY DEF SendRequest
<1> HIDE DEF k
<1>3. fc \in Requests /\ NextSeq(seq[k]) \in 0..15 /\ handed[k] + 1 \in Nat
  BY <1>1, AppAssumption, SequenceTypes
<1>4. F(fc) \in Fragment /\ Kind(F(fc)) = k[2]
  BY <1>1, <1>3 DEF Fragment, Kind, Requests
<1>5. asked' \in [req : Nat, fc : Requests, fir : BOOLEAN] /\ "SendExpectResponse" \in SendStates
  BY <1>1 DEF TypeOK, SendStates
<1> HIDE DEF F
<1>6. QED
  BY <1>1, <1>2, <1>4, <1>5, SendInv

LEMMA SendResponseInv == IInv /\ SendResponse => IInv'
<1> SUFFICES ASSUME IInv, SendResponse PROVE IInv'
  OBVIOUS
<1> DEFINE k == Sol(Outstation)
<1>1. /\ k \in Channels /\ k[2] = "sol" /\ TypeOK /\ CanSend(k)
      /\ asked.fir => seq[k] >= 0
  BY StationFacts, ChannelFacts DEF SendResponse, Sol, IInv
<1> DEFINE F(fin, con) ==
             [fc |-> "RESPONSE", ch |-> "sol",
              seq |-> IF asked.fir THEN seq[k] ELSE NextSeq(seq[k]),
              fir |-> asked.fir, fin |-> fin, con |-> con,
              id |-> handed[k] + 1, req |-> asked.req]
<1>2. PICK fin \in BOOLEAN, con \in BOOLEAN :
        /\ asked' = IF fin THEN Nothing ELSE [asked EXCEPT !.fir = FALSE]
        /\ Send(k, IF con THEN "SendConfirmed" ELSE "Send", F(fin, con))
  BY DEF SendResponse
<1> HIDE DEF k
<1>3. /\ (IF asked.fir THEN seq[k] ELSE NextSeq(seq[k])) \in 0..15 /\ handed[k] + 1 \in Nat
      /\ asked \in [req : Nat, fc : Requests, fir : BOOLEAN]
  <2>1. seq[k] \in -1..15 /\ NextSeq(seq[k]) \in 0..15 /\ handed[k] + 1 \in Nat
    BY <1>1, SequenceTypes
  <2>2. (IF asked.fir THEN seq[k] ELSE NextSeq(seq[k])) \in 0..15
    BY <1>1, <2>1
  <2>3. asked \in [req : Nat, fc : Requests, fir : BOOLEAN]
    BY <1>1 DEF TypeOK
  <2>4. QED
    BY <2>1, <2>2, <2>3
<1>4. F(fin, con) \in Fragment /\ Kind(F(fin, con)) = k[2]
  BY <1>1, <1>3 DEF Fragment, Kind
<1>5. /\ asked' \in [req : Nat, fc : Requests, fir : BOOLEAN]
      /\ (IF con THEN "SendConfirmed" ELSE "Send") \in SendStates
  BY <1>2, <1>3 DEF Nothing, SendStates, Requests
<1> HIDE DEF F
<1>6. QED
  BY <1>1, <1>2, <1>4, <1>5, SendInv

LEMMA SendUnsolicitedInv == IInv /\ SendUnsolicited => IInv'
<1> SUFFICES ASSUME IInv, SendUnsolicited PROVE IInv'
  OBVIOUS
<1> DEFINE k == Uns(Outstation)
           f == [fc |-> "UNSOLICITED", ch |-> "uns", seq |-> NextSeq(seq[k]), fir |-> TRUE,
                 fin |-> TRUE, con |-> TRUE, id |-> handed[k] + 1, req |-> 0]
<1>1. k \in Channels /\ k[2] = "uns" /\ TypeOK /\ CanSend(k) /\ asked' = asked
  BY StationFacts, ChannelFacts DEF SendUnsolicited, Uns, IInv
<1>2. Send(k, "SendConfirmed", f)
  BY DEF SendUnsolicited
<1> HIDE DEF k
<1>3. NextSeq(seq[k]) \in 0..15 /\ handed[k] + 1 \in Nat
  BY <1>1, SequenceTypes
<1>4. f \in Fragment /\ Kind(f) = k[2]
  BY <1>1, <1>3 DEF Fragment, Kind
<1>5. asked' \in [req : Nat, fc : Requests, fir : BOOLEAN] /\ "SendConfirmed" \in SendStates
  BY <1>1 DEF TypeOK, SendStates
<1> HIDE DEF f
<1>6. QED
  BY <1>1, <1>2, <1>4, <1>5, SendInv

\* A cancelled fragment stays queued, and a cancelled confirmation is no longer waited for.
LEMMA CancelInv == IInv /\ (CancelResponse \/ CancelUnsolicitedRetries) => IInv'
<1> SUFFICES ASSUME IInv, CancelResponse \/ CancelUnsolicitedRetries PROVE IInv'
  OBVIOUS
<1>1. TypeOK /\ Sol(Outstation) \in Channels /\ Uns(Outstation) \in Channels
  BY StationFacts, ChannelFacts DEF IInv
<1>2. ASSUME CancelResponse
      PROVE  IInv'
  <2> DEFINE k == Sol(Outstation)
  <2>1. UNCHANGED <<up, sendVars, seq, retry, apdu, wire, handed, downs, history>>
    BY <1>2 DEF CancelResponse
  <2>2. \/ /\ state[k] \in SendStates /\ state' = [state EXCEPT ![k] = "SendCanceled"]
           /\ UNCHANGED <<timer, busy, asked>>
        \/ /\ state[k] = "WaitForConfirm" /\ timer' = [timer EXCEPT ![k] = FALSE] /\ Failure(k)
    BY <1>2 DEF CancelResponse
  <2>3. k \in Channels
    BY <1>1
  <2> HIDE DEF k
  <2>4. TypeOK'
    <3>1. state' \in [Channels -> {"Idle"} \cup SendStates \cup WaitStates]
      BY <1>1, <2>2, <2>3 DEF TypeOK, Failure, SendStates
    <3>2. timer' \in [Channels -> BOOLEAN] /\ busy' \in [Channels -> BOOLEAN]
      BY <1>1, <2>2, <2>3 DEF TypeOK, Failure
    <3>3. asked' \in [req : Nat, fc : Requests, fir : BOOLEAN]
      <4>1. asked' = asked \/ asked' = Nothing
        BY <2>2 DEF Failure
      <4>2. Nothing \in [req : Nat, fc : Requests, fir : BOOLEAN]
        BY DEF Nothing, Requests
      <4>3. QED
        BY <1>1, <4>1, <4>2 DEF TypeOK
    <3>4. QED
      BY <1>1, <2>1, <3>1, <3>2, <3>3 DEF TypeOK, sendVars, history
  <2>5. \A p \in Stations : Transmitter(p)'
    BY <2>1 DEF IInv, Transmitter, sendVars
  <2>6. ASSUME NEW x \in Channels
        PROVE  Channel(x)'
    <3>1. Channel(x) /\ x[1] \in Stations
      BY ChannelFacts DEF IInv
    <3>2. queue' = queue /\ up' = up /\ apdu' = apdu
      BY <2>1 DEF sendVars
    <3>3. CASE x = k
      <4>1. CASE state[k] \in SendStates /\ state' = [state EXCEPT ![k] = "SendCanceled"]
                 /\ UNCHANGED <<timer, busy, asked>>
        <5>1. state'[k] = "SendCanceled" /\ timer'[k] = timer[k] /\ busy'[k] = busy[k]
          BY <1>1, <2>3, <4>1 DEF TypeOK
        <5>2. QED
          BY <3>1, <3>2, <3>3, <4>1, <5>1 DEF Channel, SendStates, WaitStates
      <4>2. CASE state[k] = "WaitForConfirm" /\ timer' = [timer EXCEPT ![k] = FALSE] /\ Failure(k)
        <5>1. state'[k] = "Idle" /\ ~timer'[k] /\ ~busy'[k]
          BY <1>1, <2>3, <4>2 DEF TypeOK, Failure
        <5>2. QED
          BY <3>1, <3>2, <3>3, <4>2, <5>1 DEF Channel, SendStates, WaitStates
      <4>3. QED
        BY <2>2, <4>1, <4>2
    <3>4. CASE x # k
      <4>1. state'[x] = state[x] /\ timer'[x] = timer[x] /\ busy'[x] = busy[x]
        BY <1>1, <2>2, <2>3, <3>4 DEF TypeOK, Failure
      <4>2. QED
        BY <3>1, <3>2, <4>1 DEF Channel
    <3>5. QED
      BY <3>3, <3>4
  <2>7. QED
    BY <2>4, <2>5, <2>6 DEF IInv
<1>3. ASSUME CancelUnsolicitedRetries
      PROVE  IInv'
  <2>1. TypeOK'
    BY <1>1, <1>3, AppAssumption DEF CancelUnsolicitedRetries, TypeOK, sendVars, history
  <2>2. /\ \A p \in Stations : Transmitter(p)'
        /\ \A x \in Channels : Channel(x)'
    BY <1>3 DEF IInv, CancelUnsolicitedRetries, Transmitter, Channel, sendVars
  <2>3. QED
    BY <2>1, <2>2 DEF IInv
<1>4. QED
  BY <1>2, <1>3
---------------------------------------------------------------------------
(* What the stations read *)

\* The transmitters stay well formed, and no channel can tell the difference.
Quiet ==
  /\ queue' \in [Stations -> Seq(Fragment)] /\ sending' \in [Stations -> BOOLEAN]
  /\ confirmSending' \in [Stations -> BOOLEAN] /\ wire' \in [Stations -> Seq(Fragment)]
  /\ \A r \in Stations : Transmitter(r)'
  /\ \A x \in Channels : Same(queue[x[1]], queue'[x[1]], x[2])

LEMMA ReadQuietly ==
  ASSUME IInv, NEW p \in Stations, NEW fcs, Receives(p, fcs), Consume(p), UNCHANGED sendVars
  PROVE  Quiet
<1>1. wire' \in [Stations -> Seq(Fragment)]
  BY ReceivesFacts DEF IInv
<1>2. UNCHANGED <<queue, sending, confirmSending>>
  BY DEF sendVars
<1>3. QED
  BY <1>1, <1>2, SameQueue DEF Quiet, IInv, TypeOK, Transmitter

LEMMA ConfirmQuietly ==
  ASSUME IInv, NEW fcs, Receives(Master, fcs), ~confirmSending[Master],
         QueueConfirm(Incoming(Master))
  PROVE  Quiet
<1> DEFINE p == Master
           g == [Incoming(p) EXCEPT !.fc = "CONFIRM", !.con = FALSE]
<1>1. p \in Stations /\ TypeOK
  BY StationFacts DEF IInv
<1>2. Incoming(p) \in Fragment /\ Unread(p) \in Seq(Fragment)
  BY <1>1, ReceivesFacts
<1>3. g \in Fragment /\ Kind(g) = "confirm"
  BY <1>2 DEF Fragment, Kind
<1>4. confirmSending' = [confirmSending EXCEPT ![p] = TRUE] /\ QueueFrame(p, g, Unread(p))
  BY DEF QueueConfirm
<1> HIDE DEF p, g
<1>5. /\ queue' \in [Stations -> Seq(Fragment)] /\ sending' \in [Stations -> BOOLEAN]
      /\ wire' \in [Stations -> Seq(Fragment)]
      /\ queue'[p] = Append(queue[p], g) /\ sending'[p]
      /\ \A r \in Stations : r # p => queue'[r] = queue[r] /\ sending'[r] = sending[r]
  BY <1>1, <1>2, <1>3, <1>4, QueueFrameEffect
<1>6. /\ confirmSending' \in [Stations -> BOOLEAN] /\ confirmSending'[p]
      /\ \A r \in Stations : r # p => confirmSending'[r] = confirmSending[r]
  BY <1>1, <1>4 DEF TypeOK
<1>7. queue[p] \in Seq(Fragment) /\ None(queue[p], "confirm")
  BY <1>1 DEF IInv, Transmitter, TypeOK, p
<1>8. One(queue'[p], "confirm") /\ queue'[p] # <<>>
  <2>1. One(Append(queue[p], g), "confirm") /\ Append(queue[p], g) # <<>>
    BY <1>3, <1>7, AppendPlaces
  <2>2. QED
    BY <1>5, <2>1
<1>9. ASSUME NEW c, c # "confirm"
      PROVE  Same(queue[p], queue'[p], c)
  BY <1>3, <1>5, <1>7, <1>9, AppendPlaces DEF Same
<1>10. ASSUME NEW r \in Stations
       PROVE  Transmitter(r)'
  <2>1. CASE r = p
    BY <1>5, <1>6, <1>8, <2>1 DEF Transmitter
  <2>2. CASE r # p
    BY <1>5, <1>6, <2>2 DEF IInv, Transmitter
  <2>3. QED
    BY <2>1, <2>2
<1>11. \A x \in Channels : Same(queue[x[1]], queue'[x[1]], x[2])
  BY <1>5, <1>9, ChannelFacts, SameQueue
<1>12. QED
  BY <1>5, <1>6, <1>10, <1>11 DEF Quiet

LEMMA OnResponseInv == IInv /\ OnResponse => IInv'
<1> SUFFICES ASSUME IInv, OnResponse PROVE IInv'
  OBVIOUS
<1> DEFINE f == Incoming(Master)  k == Sol(Master)
<1>1. /\ Master \in Stations /\ TypeOK /\ k \in Channels /\ k[1] = Master
      /\ UNCHANGED <<up, retry, apdu, asked, handed, downs, reported, unsols, confirmed>>
  BY StationFacts, ChannelFacts DEF OnResponse, IInv, Sol
<1>2. Receives(Master, {"RESPONSE"}) /\ f \in Fragment
  BY <1>1, ReceivesFacts DEF OnResponse
<1>3. Quiet
  <2>1. \/ ~confirmSending[Master] /\ QueueConfirm(f)
        \/ Consume(Master) /\ UNCHANGED sendVars
    BY DEF OnResponse, NoConfirm
  <2>2. QED
    BY <1>1, <1>2, <2>1, ReadQuietly, ConfirmQuietly
<1>4. \/ /\ state[k] \in WaitStates /\ state[k] # "WaitForConfirm" /\ handled' = handled \cup {f}
         /\ \/ /\ timer' = [timer EXCEPT ![k] = FALSE] /\ state' = [state EXCEPT ![k] = "Idle"]
               /\ busy' = [busy EXCEPT ![k] = FALSE] /\ UNCHANGED seq
            \/ /\ seq' = [seq EXCEPT ![k] = NextSeq(@)]
               /\ state' = [state EXCEPT ![k] = "WaitForFinalResponse"]
               /\ UNCHANGED <<timer, busy>>
      \/ UNCHANGED <<state, seq, timer, busy, handled>>
  BY DEF OnResponse, ProcessResponse, AcceptsResponse, WaitStates
<1> HIDE DEF f, k
<1>5. TypeOK'
  <2>1. state' \in [Channels -> {"Idle"} \cup SendStates \cup WaitStates]
    BY <1>1, <1>4 DEF TypeOK, WaitStates
  <2>2. seq' \in [Channels -> -1..15]
    <3>1. NextSeq(seq[k]) \in -1..15
      BY <1>1, SequenceTypes
    <3>2. QED
      BY <1>1, <1>4, <3>1 DEF TypeOK
  <2>3. timer' \in [Channels -> BOOLEAN] /\ busy' \in [Channels -> BOOLEAN]
    BY <1>1, <1>4 DEF TypeOK
  <2>4. handled' \in SUBSET Fragment
    BY <1>1, <1>2, <1>4 DEF TypeOK
  <2>5. QED
    BY <1>1, <1>3, <2>1, <2>2, <2>3, <2>4 DEF TypeOK, Quiet
<1>6. ASSUME NEW x \in Channels
      PROVE  Channel(x)'
  <2>1. Same(queue[x[1]], queue'[x[1]], x[2]) /\ Channel(x)
    BY <1>3 DEF Quiet, IInv
  <2>2. CASE state'[x] = state[x] /\ timer'[x] = timer[x] /\ busy'[x] = busy[x]
    BY <1>1, <2>1, <2>2, UntouchedChannel
  <2>3. CASE x = k /\ state[k] \in WaitStates /\ state'[k] = "Idle" /\ ~timer'[k] /\ ~busy'[k]
    BY <2>1, <2>3 DEF Channel, Same, SendStates, WaitStates
  <2>4. CASE /\ x = k /\ state[k] \in WaitStates /\ state'[k] = "WaitForFinalResponse"
             /\ timer'[k] = timer[k] /\ busy'[k] = busy[k]
    BY <1>1, <2>1, <2>4 DEF Channel, Same, SendStates, WaitStates
  <2>5. QED
    BY <1>1, <1>4, <2>2, <2>3, <2>4 DEF TypeOK
<1>7. QED
  BY <1>3, <1>5, <1>6 DEF IInv, Quiet

LEMMA OnUnsolResponseInv == IInv /\ OnUnsolResponse => IInv'
<1> SUFFICES ASSUME IInv, OnUnsolResponse PROVE IInv'
  OBVIOUS
<1> DEFINE f == Incoming(Master)
<1>1. /\ Master \in Stations /\ TypeOK /\ Uns(Master) \in Channels
      /\ UNCHANGED <<up, state, timer, retry, apdu, busy, asked, handed, downs, reported, handled,
                     confirmed>>
      /\ seq' = [seq EXCEPT ![Uns(Master)] = f.seq]
      /\ unsols' = unsols \/ unsols' = Append(unsols, f.id)
  BY StationFacts, ChannelFacts DEF OnUnsolResponse, IInv
<1>2. Receives(Master, {"UNSOLICITED"}) /\ f \in Fragment
  BY <1>1, ReceivesFacts DEF OnUnsolResponse
<1>3. Quiet
  BY <1>2, ConfirmQuietly DEF OnUnsolResponse
<1>4. f.seq \in -1..15 /\ f.id \in Nat
  BY <1>2 DEF Fragment
<1>5. TypeOK'
  <2>1. seq' \in [Channels -> -1..15]
    BY <1>1, <1>4 DEF TypeOK
  <2>2. unsols \in Seq(Nat) /\ Append(unsols, f.id) \in Seq(Nat)
    BY <1>1, <1>4 DEF TypeOK
  <2>3. unsols' \in Seq(Nat)
    BY <1>1, <2>2
  <2>4. QED
    BY <1>1, <1>3, <2>1, <2>3 DEF TypeOK, Quiet
<1>6. \A x \in Channels : Channel(x)'
  BY <1>1, <1>3, UntouchedChannel DEF IInv, Quiet
<1>7. QED
  BY <1>3, <1>5, <1>6 DEF IInv, Quiet

LEMMA FloodInv == IInv /\ Flood => IInv'
<1> SUFFICES ASSUME IInv, Flood PROVE IInv'
  OBVIOUS
<1>1. /\ Master \in Stations /\ TypeOK /\ Consume(Master)
      /\ UNCHANGED <<up, sendVars, chanVars, busy, asked, handed, downs, history>>
      /\ \E fcs : Receives(Master, fcs)
  BY StationFacts DEF Flood, IInv
<1>2. Quiet
  BY <1>1, ReadQuietly
<1>3. TypeOK'
  BY <1>1, <1>2 DEF TypeOK, Quiet, chanVars, history
<1>4. \A x \in Channels : Channel(x)'
  BY <1>1, <1>2, UntouchedChannel DEF IInv, Quiet, chanVars
<1>5. QED
  BY <1>2, <1>3, <1>4 DEF IInv, Quiet
LEMMA OnRequestInv == IInv /\ OnRequest => IInv'
<1> SUFFICES ASSUME IInv, OnRequest PROVE IInv'
  OBVIOUS
<1> DEFINE f == Incoming(Outstation)
<1>1. /\ Outstation \in Stations /\ TypeOK /\ Sol(Outstation) \in Channels
      /\ UNCHANGED <<up, sendVars, state, timer, retry, apdu, busy, handed, downs, handled, unsols,
                     confirmed>>
      /\ seq' = [seq EXCEPT ![Sol(Outstation)] = f.seq]
      /\ asked' = [req |-> f.id, fc |-> f.fc, fir |-> TRUE]
      /\ reported' = reported \/ reported' = Append(reported, f.id)
      /\ Consume(Outstation)
  BY StationFacts, ChannelFacts DEF OnRequest, IInv
<1>2. Receives(Outstation, Requests) /\ f \in Fragment /\ f.fc \in Requests
  BY <1>1, ReceivesFacts DEF OnRequest
<1>3. Quiet
  BY <1>1, <1>2, ReadQuietly
<1>4. f.seq \in -1..15 /\ f.id \in Nat
  BY <1>2 DEF Fragment
<1> HIDE DEF f
<1>5. TypeOK'
  <2>1. seq' \in [Channels -> -1..15]
    BY <1>1, <1>4 DEF TypeOK
  <2>2. reported \in Seq(Nat) /\ Append(reported, f.id) \in Seq(Nat)
    BY <1>1, <1>4 DEF TypeOK
  <2>3. reported' \in Seq(Nat)
    BY <1>1, <2>2
  <2>4. asked' \in [req : Nat, fc : Requests, fir : BOOLEAN]
    BY <1>1, <1>2, <1>4
  <2>5. QED
    BY <1>1, <1>3, <2>1, <2>3, <2>4 DEF TypeOK, Quiet
<1>6. \A x \in Channels : Channel(x)'
  BY <1>1, <1>3, UntouchedChannel DEF IInv, Quiet
<1>7. QED
  BY <1>3, <1>5, <1>6 DEF IInv, Quiet

LEMMA OnConfirmInv == IInv /\ OnConfirm => IInv'
<1> SUFFICES ASSUME IInv, OnConfirm PROVE IInv'
  OBVIOUS
<1> DEFINE k == <<Outstation, Incoming(Outstation).ch>>
<1>1. /\ Outstation \in Stations /\ TypeOK /\ Consume(Outstation)
      /\ UNCHANGED <<up, sendVars, seq, retry, apdu, asked, handed, downs, reported, handled, unsols>>
  BY StationFacts DEF OnConfirm, IInv
<1>2. Receives(Outstation, {"CONFIRM"}) /\ Incoming(Outstation) \in Fragment
  BY <1>1, ReceivesFacts DEF OnConfirm
<1>3. Quiet
  BY <1>1, <1>2, ReadQuietly
<1>4. k \in Channels
  BY <1>1, <1>2, ChannelFacts DEF Fragment
<1>5. \/ /\ state[k] = "WaitForConfirm" /\ timer' = [timer EXCEPT ![k] = FALSE]
         /\ state' = [state EXCEPT ![k] = "Idle"] /\ busy' = [busy EXCEPT ![k] = FALSE]
         /\ confirmed' = confirmed \cup {apdu[k]}
      \/ UNCHANGED <<timer, state, busy, confirmed>>
  BY DEF OnConfirm, IsMyConfirm
<1> HIDE DEF k
<1>6. TypeOK'
  <2>1. state' \in [Channels -> {"Idle"} \cup SendStates \cup WaitStates]
    BY <1>1, <1>5 DEF TypeOK
  <2>2. timer' \in [Channels -> BOOLEAN] /\ busy' \in [Channels -> BOOLEAN]
    BY <1>1, <1>5 DEF TypeOK
  <2>3. confirmed' \in SUBSET Fragment
    BY <1>1, <1>4, <1>5 DEF TypeOK
  <2>4. QED
    BY <1>1, <1>3, <2>1, <2>2, <2>3 DEF TypeOK, Quiet
<1>7. ASSUME NEW x \in Channels
      PROVE  Channel(x)'
  <2>1. Same(queue[x[1]], queue'[x[1]], x[2]) /\ Channel(x)
    BY <1>3 DEF Quiet, IInv
  <2>2. CASE state'[x] = state[x] /\ timer'[x] = timer[x] /\ busy'[x] = busy[x]
    BY <1>1, <2>1, <2>2, UntouchedChannel
  <2>3. CASE x = k /\ state[k] = "WaitForConfirm" /\ state'[k] = "Idle" /\ ~timer'[k] /\ ~busy'[k]
    BY <2>1, <2>3 DEF Channel, Same, SendStates, WaitStates
  <2>4. QED
    BY <1>1, <1>5, <2>2, <2>3 DEF TypeOK
<1>8. QED
  BY <1>3, <1>6, <1>7 DEF IInv, Quiet

---------------------------------------------------------------------------
(* The theorems *)

LEMMA NextInv == IInv /\ [Next]_vars => IInv'
<1> SUFFICES ASSUME IInv, [Next]_vars PROVE IInv'
  OBVIOUS
<1>1. CASE UNCHANGED vars
  BY <1>1 DEF IInv, TypeOK, Transmitter, Channel, vars, sendVars, chanVars, history
<1>2. CASE \E p \in Stations : Line(p) \/ SendResult(p)
  BY <1>2, LineInv, ConfirmSentInv, OnSendSuccessInv, OnSendFailureInv DEF SendResult
<1>3. CASE \E k \in Channels : OnTimeout(k)
  BY <1>3, OnTimeoutInv
<1>4. CASE Users
  BY <1>4, SendRequestInv, SendResponseInv, SendUnsolicitedInv, CancelInv DEF Users
<1>5. CASE Receive
  BY <1>5, OnResponseInv, OnUnsolResponseInv, FloodInv, OnRequestInv, OnConfirmInv DEF Receive
<1>6. QED
  BY <1>1, <1>2, <1>3, <1>4, <1>5 DEF Next

LEMMA InvariantHolds == Spec => []IInv
BY InitInv, NextInv, PTL DEF Spec

\* Every reachable state is well typed: a dequeued fragment was in the queue, sequences
\* stay within four bits and retries are never taken below zero.
THEOREM TypeCorrect == Spec => []TypeOK
<1>1. IInv => TypeOK
  BY DEF IInv
<1>2. QED
  BY <1>1, InvariantHolds, PTL

\* Each kind of fragment is in the queue of its station once at most, and exactly once
\* while its channel is sending: OnSendResult always finds the channel that sent.
THEOREM QueueCorrect == Spec => []QueueMatchesChannels
<1>1. IInv => QueueMatchesChannels
  <2> SUFFICES ASSUME IInv PROVE QueueMatchesChannels
    OBVIOUS
  <2>1. ASSUME NEW p \in Stations
        PROVE  /\ sending[p] <=> queue[p] # <<>>
               /\ \A i, j \in DOMAIN queue[p] :
                    queue[p][i].fc = "CONFIRM" /\ queue[p][j].fc = "CONFIRM" =>
                      i = j /\ confirmSending[p]
    <3>1. Transmitter(p)
      BY DEF IInv
    <3>2. ASSUME NEW i \in DOMAIN queue[p], NEW j \in DOMAIN queue[p],
                 queue[p][i].fc = "CONFIRM", queue[p][j].fc = "CONFIRM"
          PROVE  i = j /\ confirmSending[p]
      <4>1. i \in Places(queue[p], "confirm") /\ j \in Places(queue[p], "confirm")
        BY <3>2 DEF Places, Kind
      <4>2. QED
        BY <3>1, <4>1 DEF Transmitter, None, One
    <3>3. QED
      BY <3>1, <3>2 DEF Transmitter
  <2>2. ASSUME NEW k \in Channels
        PROVE  IF state[k] \in SendStates THEN \E i \in Queued(k) : Queued(k) = {i}
                                          ELSE Queued(k) = {}
    <3>1. Channel(k) /\ k[2] # "confirm"
      BY ChannelFacts DEF IInv
    <3>2. Queued(k) = Places(queue[k[1]], k[2])
      BY <3>1 DEF Queued, Places, Kind
    <3>3. QED
      BY <3>1, <3>2 DEF Channel, None, One
  <2>3. QED
    BY <2>1, <2>2 DEF QueueMatchesChannels
<1>2. QED
  BY <1>1, InvariantHolds, PTL

\* A channel's timer runs exactly while it waits, and its user waits exactly while it is
\* not idle: neither StartTimer, CancelTimer nor Send ever throws.
THEOREM UserCorrect == Spec => []ChannelMatchesUser
<1>1. IInv => ChannelMatchesUser
  BY DEF IInv, Channel, ChannelMatchesUser
<1>2. QED
  BY <1>1, InvariantHolds, PTL
---------------------------------------------------------------------------
(* What is under way between the stations: a second invariant, on top of the first *)

\* The fragments that p has queued, or sent and Other(p) not read
OnWay(p) == Range(wire[p]) \cup Range(queue[p])

\* The fragments that a channel sends
Forms(k) == CASE k = Sol(Master)     -> Requests
              [] k = Sol(Outstation) -> {"RESPONSE"}
              [] k = Uns(Outstation) -> {"UNSOLICITED"}
              [] OTHER               -> {}

Fits(p, f) == f.fc = "CONFIRM" \/ f.fc \in Forms(<<p, f.ch>>)

Formed ==
  /\ \A p \in Stations : \A f \in OnWay(p) : Fits(p, f)
  /\ \A k \in Channels : busy[k] => apdu[k].ch = k[2] /\ apdu[k].fc \in Forms(k)
  /\ apdu[Sol(Master)].fc \in Requests /\ apdu[Sol(Master)].ch = "sol"

\* The fragments of one kind on a wire are in the order in which they were handed over, and
\* those with the same number are copies.
InOrder(w, c) ==
  \A i, j \in DOMAIN w : i <= j /\ Kind(w[i]) = c /\ Kind(w[j]) = c =>
    w[i].id <= w[j].id /\ (w[i].id = w[j].id => w[i] = w[j])

\* f is no newer than g, and if it is as new it is a copy.
Before(f, g) == f.id <= g.id /\ (f.id = g.id => f = g)

\* What a channel has under way are copies of what it sent last, behind older fragments.
Copies(k) ==
  /\ InOrder(wire[k[1]], k[2])
  /\ \A f \in OnWay(k[1]) : Kind(f) = k[2] => Before(f, apdu[k])
  /\ \A f \in Range(queue[k[1]]) : Kind(f) = k[2] => f = apdu[k]
  /\ apdu[k].id = handed[k] /\ handed[k] <= MaxHanded[k]

\* What the other end of a channel may still read, now or after a repetition
Pending(k) == {f \in Range(wire[k[1]]) : Kind(f) = k[2]} \cup {apdu[k]}

\* The numbers that a user was told are in order. What is pending is not older than they are,
\* and a copy of one of them has the sequence that was heard last.
Heard(numbers, sequence, pending, fcs) ==
  /\ Increasing(numbers)
  /\ \A n \in Range(numbers) : \A f \in pending :
       n <= f.id /\ (n = f.id => f.seq = sequence /\ f.fc \in fcs)

\* The request to be answered is the one heard last; a response in several fragments, which
\* changes the sequence, answers none that is executed.
Asked(ask, numbers, pending) ==
  /\ ~ask.fir => ask.fc = "READ"
  /\ ask # Nothing =>
       /\ \A f \in pending : ask.req <= f.id
       /\ \A n \in Range(numbers) : n <= ask.req
       /\ ask.fc = "READ" => ask.req \notin Range(numbers)

RequestsHeard ==
  downs[Outstation] = 0 =>
    /\ Heard(reported, seq[Sol(Outstation)], Pending(Sol(Master)), Executed)
    /\ Asked(asked, reported, Pending(Sol(Master)))

UnsolsHeard ==
  downs[Master] = 0 => Heard(unsols, seq[Uns(Master)], Pending(Uns(Outstation)), {"UNSOLICITED"})

\* The sequence of the n-th unsolicited response, and whether the master was given one with s
SeqOf(n) == (n + 15) % 16
Given(s, numbers) == \E n \in Range(numbers) : SeqOf(n) = s

\* Unsolicited responses are numbered in turn. The master confirms only what it was given.
Numbered ==
  LET k == Uns(Outstation) IN
  /\ IF handed[k] = 0 THEN seq[k] = -1 /\ ~busy[k]
                      ELSE seq[k] = SeqOf(handed[k]) /\ apdu[k].seq = seq[k]
  /\ \A f \in OnWay(Outstation) : f.fc = "UNSOLICITED" => f.seq = SeqOf(f.id) /\ f.id > 0
  /\ \A n \in Range(unsols) : n \in 1 .. handed[k]

Confirms ==
  /\ seq[Uns(Master)] >= 0 => Given(seq[Uns(Master)], unsols)
  /\ \A f \in OnWay(Master) : f.fc = "CONFIRM" /\ f.ch = "uns" => Given(f.seq, unsols)
  /\ \A f \in confirmed : f.fc = "UNSOLICITED" =>
       f.id \in 1 .. handed[Uns(Outstation)] /\ Given(SeqOf(f.id), unsols)

UnsolsConfirmed == downs[Outstation] = 0 => Numbered /\ Confirms

JInv ==
  /\ Formed
  /\ \A k \in Channels : Copies(k)
  /\ RequestsHeard
  /\ UnsolsHeard
  /\ UnsolsConfirmed

---------------------------------------------------------------------------
(* Sequences and the fragments in them *)

LEMMA RangeFacts ==
  ASSUME NEW q \in Seq(Fragment), NEW f \in Fragment
  PROVE  /\ Range(Append(q, f)) = Range(q) \cup {f} /\ Range(q) \subseteq Fragment
         /\ q # <<>> => Range(Tail(q)) \subseteq Range(q) /\ Head(q) \in Range(q)
<1> DEFINE a == Append(q, f)
<1>1. /\ DOMAIN a = DOMAIN q \cup {Len(q) + 1} /\ a[Len(q) + 1] = f
      /\ \A i \in DOMAIN q : a[i] = q[i] /\ i # Len(q) + 1
  OBVIOUS
<1> HIDE DEF a
<1>2. Range(a) = Range(q) \cup {f}
  BY <1>1 DEF Range
<1>3. Range(q) \subseteq Fragment
  BY DEF Range
<1>4. ASSUME q # <<>>
      PROVE  Range(Tail(q)) \subseteq Range(q) /\ Head(q) \in Range(q)
  <2>1. \A i \in DOMAIN Tail(q) : i + 1 \in DOMAIN q /\ Tail(q)[i] = q[i + 1]
    BY <1>4
  <2>2. 1 \in DOMAIN q /\ Head(q) = q[1]
    BY <1>4
  <2>3. QED
    BY <2>1, <2>2 DEF Range
<1>5. QED
  BY <1>2, <1>3, <1>4 DEF a

LEMMA EmptyRange == Range(<<>>) = {}
BY DEF Range

\* What p queues is new; what is on its wire comes from its queue, at the end.
Flow(p, new) ==
  /\ Range(queue'[p]) \subseteq Range(queue[p]) \cup new
  /\ \/ wire'[p] = wire[p]
     \/ wire'[p] = <<>>
     \/ wire[p] # <<>> /\ wire'[p] = Tail(wire[p])
     \/ \E h \in Range(queue'[p]) : wire'[p] = Append(wire[p], h)

LEMMA QueueTypes ==
  ASSUME TypeOK, NEW p \in Stations
  PROVE  /\ wire[p] \in Seq(Fragment) /\ queue[p] \in Seq(Fragment)
         /\ Range(wire[p]) \subseteq Fragment /\ Range(queue[p]) \subseteq Fragment
         /\ OnWay(p) \subseteq Fragment
<1>1. wire[p] \in Seq(Fragment) /\ queue[p] \in Seq(Fragment)
  BY DEF TypeOK
<1>2. Range(wire[p]) \subseteq Fragment /\ Range(queue[p]) \subseteq Fragment
  BY <1>1 DEF Range
<1>3. QED
  BY <1>1, <1>2 DEF OnWay

LEMMA FlowFacts ==
  ASSUME TypeOK, TypeOK', NEW p \in Stations, NEW new, Flow(p, new)
  PROVE  /\ Range(wire'[p]) \subseteq Range(wire[p]) \cup Range(queue'[p])
         /\ OnWay(p)' \subseteq OnWay(p) \cup new
<1>1. wire[p] \in Seq(Fragment) /\ Range(queue'[p]) \subseteq Fragment
  BY QueueTypes DEF TypeOK, Range
<1>2. Range(wire'[p]) \subseteq Range(wire[p]) \cup Range(queue'[p])
  <2>1. CASE wire'[p] = wire[p]
    BY <2>1
  <2>2. CASE wire'[p] = <<>>
    BY <2>2, EmptyRange
  <2>3. CASE wire[p] # <<>> /\ wire'[p] = Tail(wire[p])
    <3>1. PICK f \in Fragment : f = Head(wire[p])
      BY <1>1, <2>3
    <3>2. QED
      BY <1>1, <2>3, <3>1, RangeFacts
  <2>4. CASE \E h \in Range(queue'[p]) : wire'[p] = Append(wire[p], h)
    <3>1. PICK h \in Range(queue'[p]) : wire'[p] = Append(wire[p], h)
      BY <2>4
    <3>2. Range(wire'[p]) = Range(wire[p]) \cup {h}
      BY <1>1, <3>1, RangeFacts
    <3>3. QED
      BY <3>2
  <2>5. QED
    BY <2>1, <2>2, <2>3, <2>4 DEF Flow
<1>3. QED
  BY <1>2 DEF Flow, OnWay

\* The order of a wire is kept if what is appended comes after all of its kind.
LEMMA OrderKept ==
  ASSUME TypeOK, TypeOK', NEW p \in Stations, NEW new, Flow(p, new), NEW c, InOrder(wire[p], c),
         \A h \in Range(queue'[p]) : Kind(h) = c =>
           \A f \in Range(wire[p]) : Kind(f) = c => Before(f, h)
  PROVE  InOrder(wire'[p], c)
<1> DEFINE w == wire[p]
           v == wire'[p]
<1>1. w \in Seq(Fragment) /\ Range(queue'[p]) \subseteq Fragment
  BY QueueTypes DEF TypeOK, Range
<1>2. CASE v = w
  BY <1>2
<1>3. CASE v = <<>>
  BY <1>3 DEF InOrder
<1>4. CASE w # <<>> /\ v = Tail(w)
  <2> HIDE DEF w, v
  <2>1. \A i \in DOMAIN Tail(w) : i \in Nat /\ i + 1 \in DOMAIN w /\ Tail(w)[i] = w[i + 1]
    BY <1>1, <1>4
  <2>2. \A i, j \in DOMAIN Tail(w) : i <= j => i + 1 <= j + 1
    BY <2>1
  <2>3. InOrder(Tail(w), c)
    BY <2>1, <2>2 DEF InOrder, w
  <2>4. QED
    BY <1>4, <2>3 DEF v
<1>5. CASE \E h \in Range(queue'[p]) : v = Append(w, h)
  <2>1. PICK h \in Range(queue'[p]) : v = Append(w, h)
    BY <1>5
  <2>2. h \in Fragment
    BY <1>1
  <2>3. \A i \in DOMAIN w : Kind(w[i]) = c /\ Kind(h) = c => Before(w[i], h)
    BY DEF Range
  <2> HIDE DEF w, v
  <2>4. /\ DOMAIN v = DOMAIN w \cup {Len(w) + 1} /\ v[Len(w) + 1] = h /\ Len(w) \in Nat
        /\ \A i \in DOMAIN w : v[i] = w[i] /\ i \in Nat /\ i <= Len(w)
    BY <1>1, <2>1, <2>2
  <2>5. ASSUME NEW i \in DOMAIN v, NEW j \in DOMAIN v, i <= j, Kind(v[i]) = c, Kind(v[j]) = c
        PROVE  v[i].id <= v[j].id /\ (v[i].id = v[j].id => v[i] = v[j])
    <3>1. CASE j \in DOMAIN w
      <4>1. i \in DOMAIN w
        BY <2>4, <2>5, <3>1
      <4>2. QED
        BY <2>4, <2>5, <3>1, <4>1 DEF InOrder, w
    <3>2. CASE j = Len(w) + 1 /\ i \in DOMAIN w
      BY <2>3, <2>4, <2>5, <3>2 DEF Before
    <3>3. CASE j = Len(w) + 1 /\ i = Len(w) + 1
      <4>1. h.id \in Nat
        BY <2>2 DEF Fragment
      <4>2. QED
        BY <2>4, <3>3, <4>1
    <3>4. QED
      BY <2>4, <2>5, <3>1, <3>2, <3>3
  <2>6. InOrder(v, c)
    BY <2>5 DEF InOrder
  <2>7. QED
    BY <2>6 DEF v
<1>6. QED
  BY <1>2, <1>3, <1>4, <1>5 DEF Flow

LEMMA FlowMore ==
  ASSUME NEW p, NEW a, NEW b, Flow(p, a), a \subseteq b
  PROVE  Flow(p, b)
BY DEF Flow

---------------------------------------------------------------------------
(* What the actions put under way *)

Conf(f) == [f EXCEPT !.fc = "CONFIRM", !.con = FALSE]

\* What p sends for its channels, and the confirmations that it queues
Sent(p) == {apdu'[k] : k \in {x \in Channels : x[1] = p /\ busy'[x]}}
Acks(p) == IF p = Master /\ (OnResponse \/ OnUnsolResponse) THEN {Conf(Incoming(p))} ELSE {}

\* A channel is given something to send, when it has nothing in the queue, or it sends at
\* most what it sends already.
Fresh(k) ==
  /\ handed[k] < MaxHanded[k] /\ handed'[k] = handed[k] + 1 /\ apdu'[k].id = handed'[k]
  /\ apdu'[k].ch = k[2] /\ apdu'[k].fc \in Forms(k)
  /\ None(queue[k[1]], k[2]) /\ busy'[k]
Kept(k) == handed'[k] = handed[k] /\ apdu'[k] = apdu[k] /\ (busy'[k] => busy[k])

Shape ==
  /\ \A p \in Stations : Flow(p, Sent(p) \cup Acks(p))
  /\ \A k \in Channels : Kept(k) \/ Fresh(k)

LEMMA FlowStill ==
  ASSUME NEW p, queue'[p] = queue[p],
         \/ wire'[p] = wire[p]
         \/ wire'[p] = <<>>
         \/ wire[p] # <<>> /\ wire'[p] = Tail(wire[p]),
         NEW new
  PROVE  Flow(p, new)
BY DEF Flow

LEMMA QueueFrameFlow ==
  ASSUME TypeOK, NEW p \in Stations, NEW f \in Fragment, NEW unread \in Seq(Fragment),
         QueueFrame(p, f, unread)
  PROVE  /\ Flow(p, {f})
         /\ wire'[Other(p)] = unread /\ queue'[Other(p)] = queue[Other(p)]
<1>1. queue[p] \in Seq(Fragment) /\ wire[p] \in Seq(Fragment) /\ wire \in [Stations -> Seq(Fragment)]
      /\ queue \in [Stations -> Seq(Fragment)]
  BY DEF TypeOK
<1>2. Other(p) \in Stations /\ Other(p) # p
  BY StationFacts
<1> DEFINE q == Append(queue[p], f)
<1>3. q \in Seq(Fragment) /\ q # <<>> /\ Range(q) = Range(queue[p]) \cup {f}
  BY <1>1, AppendPlaces, RangeFacts
<1>4. Head(q) \in Range(q)
  BY <1>3, RangeFacts
<1>5. queue'[p] = q /\ queue'[Other(p)] = queue[Other(p)]
  BY <1>1, <1>2 DEF QueueFrame
<1>6. wire'[p] = (IF sending[p] THEN wire[p] ELSE Put(p, wire[p], Head(q))) /\ wire'[Other(p)] = unread
  BY <1>1, <1>2 DEF QueueFrame
<1> HIDE DEF q
<1>7. wire'[p] = wire[p] \/ wire'[p] = Append(wire[p], Head(q))
  BY <1>6 DEF Put
<1>8. QED
  BY <1>3, <1>4, <1>5, <1>6, <1>7 DEF Flow

LEMMA DequeueFlow ==
  ASSUME TypeOK, NEW p \in Stations, queue[p] # <<>>, NEW g \in Fragment,
         NEW repeated, repeated = <<>> \/ repeated = <<g>>, Dequeue(p, repeated)
  PROVE  /\ Flow(p, Range(repeated))
         /\ \A r \in Stations : r # p => wire'[r] = wire[r] /\ queue'[r] = queue[r]
<1>1. queue[p] \in Seq(Fragment) /\ wire[p] \in Seq(Fragment) /\ wire \in [Stations -> Seq(Fragment)]
      /\ queue \in [Stations -> Seq(Fragment)]
  BY DEF TypeOK
<1>2. PICK t \in Seq(Fragment) : t = Tail(queue[p])
  <2>1. Tail(queue[p]) \in Seq(Fragment)
    BY <1>1
  <2>2. QED
    BY <2>1
<1>3. Range(t) \subseteq Range(queue[p])
  BY <1>1, <1>2, RangeFacts
<1> DEFINE q == t \o repeated
<1>4. q \in Seq(Fragment) /\ Range(q) \subseteq Range(t) \cup Range(repeated)
  <2>1. CASE repeated = <<>>
    <3>1. q = t
      BY <2>1
    <3>2. QED
      BY <3>1
  <2>2. CASE repeated = <<g>>
    <3>1. q = Append(t, g)
      BY <2>2
    <3>2. Range(q) = Range(t) \cup {g} /\ q \in Seq(Fragment)
      BY <3>1, RangeFacts, AppendPlaces
    <3>3. g \in Range(repeated)
      <4>1. 1 \in DOMAIN repeated /\ repeated[1] = g
        BY <2>2
      <4>2. QED
        BY <4>1 DEF Range
    <3>4. QED
      BY <3>2, <3>3
  <2>3. QED
    BY <2>1, <2>2
<1>5. /\ queue' = [queue EXCEPT ![p] = q]
      /\ wire' = IF q = <<>> THEN wire ELSE [wire EXCEPT ![p] = Put(p, wire[p], Head(q))]
  BY <1>1, <1>2 DEF Dequeue
<1> HIDE DEF q
<1>6. /\ queue'[p] = q
      /\ wire'[p] = wire[p] \/ (q # <<>> /\ wire'[p] = Append(wire[p], Head(q)))
  BY <1>1, <1>5 DEF Put
<1>7. q # <<>> => Head(q) \in Range(q)
  BY <1>4, RangeFacts
<1>8. Flow(p, Range(repeated))
  BY <1>1, <1>3, <1>4, <1>5, <1>6, <1>7 DEF Flow
<1>9. QED
  BY <1>1, <1>5, <1>8

\* A channel with something to send sends what it is given, or what it repeats.
LEMMA SendShape ==
  ASSUME IInv, NEW k \in Channels, NEW next, NEW f \in Fragment, Send(k, next, f), CanSend(k),
         f.id = handed[k] + 1, f.ch = k[2], f.fc \in Forms(k)
  PROVE  Shape
<1>1. k[1] \in Stations /\ TypeOK /\ Channel(k) /\ wire[Other(k[1])] \in Seq(Fragment)
  BY ChannelFacts, UnreadType DEF IInv
<1>2. /\ apdu' = [apdu EXCEPT ![k] = f] /\ busy' = [busy EXCEPT ![k] = TRUE]
      /\ handed' = [handed EXCEPT ![k] = handed[k] + 1]
      /\ QueueFrame(k[1], f, wire[Other(k[1])])
  BY DEF Send
<1>3. apdu'[k] = f /\ busy'[k] /\ handed'[k] = handed[k] + 1
  BY <1>1, <1>2 DEF TypeOK
<1>4. Fresh(k)
  BY <1>1, <1>3 DEF Fresh, CanSend, Channel, SendStates
<1>5. \A x \in Channels : x # k => Kept(x)
  BY <1>1, <1>2 DEF TypeOK, Kept
<1>6. /\ Flow(k[1], {f})
      /\ wire'[Other(k[1])] = wire[Other(k[1])] /\ queue'[Other(k[1])] = queue[Other(k[1])]
  BY <1>1, <1>2, QueueFrameFlow
<1>7. f \in Sent(k[1])
  BY <1>3 DEF Sent
<1>8. \A p \in Stations : Flow(p, Sent(p) \cup Acks(p))
  <2> TAKE p \in Stations
  <2>1. CASE p = k[1]
    BY <1>6, <1>7, <2>1, FlowMore
  <2>2. CASE p # k[1]
    <3>1. p = Other(k[1])
      BY <1>1, <2>2 DEF Stations, Other
    <3>2. QED
      BY <1>6, <3>1, FlowStill
  <2>3. QED
    BY <2>1, <2>2
<1>9. QED
  BY <1>4, <1>5, <1>8 DEF Shape

LEMMA RequestFits ==
  ASSUME IInv, SendRequest
  PROVE  \E f \in Fragment : \E next : LET k == Sol(Master) IN
           /\ Send(k, next, f) /\ f.id = handed[k] + 1 /\ f.ch = "sol" /\ f.fc \in Requests
<1> DEFINE k == Sol(Master)
<1>1. PICK fc \in Functions :
        Send(k, "SendExpectResponse",
             [fc |-> fc, ch |-> "sol", seq |-> NextSeq(seq[k]), fir |-> TRUE, fin |-> TRUE,
              con |-> FALSE, id |-> handed[k] + 1, req |-> handed[k] + 1])
  BY DEF SendRequest
<1>2. fc \in Requests /\ NextSeq(seq[k]) \in 0..15 /\ handed[k] + 1 \in Nat
  BY AppAssumption, SequenceTypes, StationFacts, ChannelFacts DEF IInv, TypeOK
<1> DEFINE f == [fc |-> fc, ch |-> "sol", seq |-> NextSeq(seq[k]), fir |-> TRUE, fin |-> TRUE,
                 con |-> FALSE, id |-> handed[k] + 1, req |-> handed[k] + 1]
<1>3. f \in Fragment /\ f.id = handed[k] + 1 /\ f.ch = "sol" /\ f.fc \in Requests
  BY <1>2 DEF Fragment
<1>4. Send(k, "SendExpectResponse", f)
  BY <1>1
<1> HIDE DEF f
<1>5. QED
  BY <1>3, <1>4

LEMMA UnsolicitedFits ==
  ASSUME IInv, SendUnsolicited
  PROVE  \E f \in Fragment : \E next : LET k == Uns(Outstation) IN
           /\ Send(k, next, f) /\ f.id = handed[k] + 1 /\ f.ch = "uns" /\ f.fc = "UNSOLICITED"
           /\ f.seq = NextSeq(seq[k])
<1> DEFINE k == Uns(Outstation)
           f == [fc |-> "UNSOLICITED", ch |-> "uns", seq |-> NextSeq(seq[k]), fir |-> TRUE,
                 fin |-> TRUE, con |-> TRUE, id |-> handed[k] + 1, req |-> 0]
<1>1. Send(k, "SendConfirmed", f)
  BY DEF SendUnsolicited
<1>2. NextSeq(seq[k]) \in 0..15 /\ handed[k] + 1 \in Nat
  BY SequenceTypes, StationFacts, ChannelFacts DEF IInv, TypeOK
<1>3. /\ f \in Fragment /\ f.id = handed[k] + 1 /\ f.ch = "uns" /\ f.fc = "UNSOLICITED"
      /\ f.seq = NextSeq(seq[k])
  BY <1>2 DEF Fragment
<1> HIDE DEF f
<1>4. QED
  BY <1>1, <1>3

LEMMA ResponseFits ==
  ASSUME IInv, SendResponse
  PROVE  \E f \in Fragment : \E next : LET k == Sol(Outstation) IN
           /\ Send(k, next, f) /\ f.id = handed[k] + 1 /\ f.ch = "sol" /\ f.fc = "RESPONSE"
           /\ f.seq = (IF asked.fir THEN seq[k] ELSE NextSeq(seq[k]))
           /\ asked # Nothing
           /\ \/ asked' = Nothing
              \/ asked' = [asked EXCEPT !.fir = FALSE] /\ asked.fc = "READ"
<1> DEFINE k == Sol(Outstation)
           s == IF asked.fir THEN seq[k] ELSE NextSeq(seq[k])
           F(fin, con) == [fc |-> "RESPONSE", ch |-> "sol", seq |-> s,
                           fir |-> asked.fir, fin |-> fin, con |-> con,
                           id |-> handed[k] + 1, req |-> asked.req]
<1>1. asked # Nothing /\ (asked.fir => seq[k] >= 0)
  BY DEF SendResponse
<1>2. PICK fin, con \in BOOLEAN :
        /\ asked.fc # "READ" => fin /\ ~con
        /\ asked' = IF fin THEN Nothing ELSE [asked EXCEPT !.fir = FALSE]
        /\ Send(k, IF con THEN "SendConfirmed" ELSE "Send", F(fin, con))
  BY DEF SendResponse
<1>3. handed[k] + 1 \in Nat /\ asked.fir \in BOOLEAN /\ asked.req \in Nat
  <2>1. k \in Channels /\ asked \in [req : Nat, fc : Requests, fir : BOOLEAN] /\ TypeOK
    BY StationFacts, ChannelFacts DEF IInv, TypeOK
  <2>2. asked.fir \in BOOLEAN /\ asked.req \in Nat
    BY <2>1
  <2>3. QED
    BY <2>1, <2>2, SequenceTypes
<1>4. s \in 0..15
  <2>1. seq[k] \in -1..15 /\ NextSeq(seq[k]) \in 0..15
    BY SequenceTypes, StationFacts, ChannelFacts DEF IInv, TypeOK
  <2>2. QED
    BY <1>1, <2>1
<1> HIDE DEF s
<1>5. /\ F(fin, con) \in Fragment /\ F(fin, con).id = handed[k] + 1 /\ F(fin, con).ch = "sol"
      /\ F(fin, con).fc = "RESPONSE" /\ F(fin, con).seq = s
  BY <1>3, <1>4 DEF Fragment
<1> HIDE DEF F
<1>6. PICK f \in Fragment : f = F(fin, con)
  BY <1>5
<1>7. /\ Send(k, IF con THEN "SendConfirmed" ELSE "Send", f)
      /\ f.id = handed[k] + 1 /\ f.ch = "sol" /\ f.fc = "RESPONSE" /\ f.seq = s
  BY <1>2, <1>5, <1>6
<1>8. \/ asked' = Nothing
      \/ asked' = [asked EXCEPT !.fir = FALSE] /\ asked.fc = "READ"
  BY <1>2
<1>9. QED
  BY <1>1, <1>7, <1>8 DEF s


LEMMA LineShape ==
  ASSUME IInv, NEW p \in Stations, Line(p)
  PROVE  Shape
<1>1. /\ queue \in [Stations -> Seq(Fragment)] /\ wire \in [Stations -> Seq(Fragment)]
      /\ busy \in [Channels -> BOOLEAN] /\ Other(p) \in Stations /\ Other(p) # p
  BY StationFacts DEF IInv, TypeOK
<1>2. apdu' = apdu /\ handed' = handed
  BY DEF Line, OnLowerLayerUp, OnLowerLayerDown, LoseFragment, chanVars
<1>3. \A k \in Channels : busy'[k] => busy[k]
  BY <1>1 DEF Line, OnLowerLayerUp, OnLowerLayerDown, LoseFragment
<1>4. ASSUME NEW r \in Stations
      PROVE  Flow(r, Sent(r) \cup Acks(r))
  <2>1. CASE OnLowerLayerUp(p)
    <3>1. queue'[r] = queue[r] /\ wire'[r] = wire[r]
      BY <2>1 DEF OnLowerLayerUp, sendVars
    <3>2. QED
      BY <3>1, FlowStill
  <2>2. CASE OnLowerLayerDown(p)
    <3>1. queue' = [queue EXCEPT ![p] = <<>>] /\ wire' = [wire EXCEPT ![Other(p)] = <<>>]
      BY <2>2 DEF OnLowerLayerDown
    <3>2. CASE r = p
      <4>1. queue'[r] = <<>> /\ wire'[r] = wire[r]
        BY <1>1, <3>1, <3>2
      <4>2. QED
        BY <4>1, EmptyRange DEF Flow
    <3>3. CASE r # p
      <4>1. queue'[r] = queue[r] /\ wire'[r] = <<>>
        BY <1>1, <3>1, <3>3 DEF Stations, Other
      <4>2. QED
        BY <4>1, FlowStill
    <3>4. QED
      BY <3>2, <3>3
  <2>3. CASE LoseFragment(p)
    <3>1. queue'[r] = queue[r] /\ wire[p] # <<>> /\ wire' = [wire EXCEPT ![p] = Tail(wire[p])]
      BY <2>3 DEF LoseFragment, sendVars
    <3>2. wire'[r] = wire[r] \/ (wire[r] # <<>> /\ wire'[r] = Tail(wire[r]))
      BY <1>1, <3>1
    <3>3. QED
      BY <3>1, <3>2, FlowStill
  <2>4. QED
    BY <2>1, <2>2, <2>3 DEF Line
<1>5. QED
  BY <1>2, <1>3, <1>4 DEF Shape, Kept

LEMMA ResultShape ==
  ASSUME IInv, NEW p \in Stations, SendResult(p)
  PROVE  Shape
<1>1. /\ TypeOK /\ busy \in [Channels -> BOOLEAN]
      /\ state \in [Channels -> {"Idle"} \cup SendStates \cup WaitStates]
      /\ apdu' = apdu /\ handed' = handed
  BY DEF IInv, TypeOK, SendResult, ConfirmSent, OnSendSuccess, OnSendFailure, chanVars
<1>2. sending[p] /\ queue[p] # <<>>
  BY ResultFacts DEF SendResult, ConfirmSent, OnSendSuccess, OnSendFailure, SentBy
<1>3. \A k \in Channels : busy'[k] => busy[k]
  BY <1>1 DEF SendResult, ConfirmSent, OnSendSuccess, OnSendFailure, Failure
<1>4. \/ Dequeue(p, <<>>)
      \/ \E k \in Channels : /\ k[1] = p /\ busy[k] /\ busy'[k]
                             /\ Dequeue(p, <<apdu[k]>>)
  <2>1. CASE ConfirmSent(p) \/ OnSendSuccess(p)
    BY <2>1 DEF ConfirmSent, OnSendSuccess
  <2>2. CASE OnSendFailure(p)
    <3>1. PICK k \in Channels :
            /\ SentBy(p, k)
            /\ \/ Dequeue(p, <<>>)
               \/ Dequeue(p, <<apdu[k]>>) /\ UNCHANGED busy
      BY <2>2 DEF OnSendFailure
    <3>2. k[1] = p /\ state[k] \in SendStates
      BY <1>2, <3>1, ResultFacts
    <3>3. busy[k]
      <4>1. Channel(k)
        BY DEF IInv
      <4>2. QED
        BY <3>2, <4>1 DEF Channel, SendStates
    <3>4. QED
      BY <3>1, <3>2, <3>3
  <2>3. QED
    BY <2>1, <2>2 DEF SendResult
<1>5. ASSUME NEW g \in Fragment, NEW q, q = <<>> \/ (q = <<g>> /\ g \in Sent(p)), Dequeue(p, q)
      PROVE  \A r \in Stations : Flow(r, Sent(r) \cup Acks(r))
  <2>1. /\ Flow(p, Range(q))
        /\ \A r \in Stations : r # p => wire'[r] = wire[r] /\ queue'[r] = queue[r]
    BY <1>1, <1>2, <1>5, DequeueFlow
  <2>2. Range(q) \subseteq Sent(p)
    <3>1. CASE q = <<>>
      BY <3>1, EmptyRange
    <3>2. CASE q = <<g>> /\ g \in Sent(p)
      <4>1. DOMAIN q = {1} /\ q[1] = g
        BY <3>2
      <4>2. QED
        BY <3>2, <4>1 DEF Range
    <3>3. QED
      BY <1>5, <3>1, <3>2
  <2>3. Flow(p, Sent(p) \cup Acks(p))
    BY <2>1, <2>2, FlowMore
  <2>4. QED
    BY <2>1, <2>3, FlowStill
<1>6. \A r \in Stations : Flow(r, Sent(r) \cup Acks(r))
  <2>1. CASE Dequeue(p, <<>>)
    <3>1. PICK g \in Fragment : g = apdu[Sol(p)]
      BY <1>1, ChannelFacts DEF TypeOK
    <3>2. QED
      BY <1>5, <2>1
  <2>2. CASE ~Dequeue(p, <<>>)
    <3>1. PICK k \in Channels : k[1] = p /\ busy'[k] /\ Dequeue(p, <<apdu[k]>>)
      BY <1>4, <2>2
    <3>2. apdu[k] \in Fragment /\ apdu[k] \in Sent(p)
      BY <1>1, <3>1 DEF Sent, TypeOK
    <3>3. QED
      BY <1>5, <3>1, <3>2
  <2>3. QED
    BY <2>1, <2>2
<1>7. QED
  BY <1>1, <1>3, <1>6 DEF Shape, Kept

LEMMA TimeoutShape ==
  ASSUME IInv, NEW k \in Channels, OnTimeout(k)
  PROVE  Shape
<1>1. /\ TypeOK /\ busy \in [Channels -> BOOLEAN] /\ apdu' = apdu /\ handed' = handed
      /\ k[1] \in Stations /\ Other(k[1]) \in Stations
      /\ wire[Other(k[1])] \in Seq(Fragment) /\ apdu[k] \in Fragment
  BY ChannelFacts, StationFacts DEF IInv, TypeOK, OnTimeout
<1>2. \A x \in Channels : busy'[x] => busy[x]
  BY <1>1 DEF OnTimeout, Failure
<1>3. ASSUME NEW r \in Stations
      PROVE  Flow(r, Sent(r) \cup Acks(r))
  <2>1. CASE UNCHANGED <<sendVars, wire>>
    BY <2>1, FlowStill DEF sendVars
  <2>2. CASE QueueFrame(k[1], apdu[k], wire[Other(k[1])]) /\ UNCHANGED busy
    <3>1. /\ Flow(k[1], {apdu[k]}) /\ wire'[Other(k[1])] = wire[Other(k[1])]
          /\ queue'[Other(k[1])] = queue[Other(k[1])]
      BY <1>1, <2>2, QueueFrameFlow
    <3>2. apdu[k] \in Sent(k[1])
      <4>1. Channel(k) /\ timer[k]
        BY DEF IInv, OnTimeout
      <4>2. busy'[k]
        BY <2>2, <4>1 DEF Channel, WaitStates
      <4>3. QED
        BY <1>1, <4>2 DEF Sent
    <3>3. CASE r = k[1]
      BY <3>1, <3>2, <3>3, FlowMore
    <3>4. CASE r # k[1]
      <4>1. r = Other(k[1])
        BY <1>1, <3>4 DEF Stations, Other
      <4>2. QED
        BY <3>1, <4>1, FlowStill
    <3>5. QED
      BY <3>3, <3>4
  <2>3. QED
    BY <2>1, <2>2 DEF OnTimeout
<1>4. QED
  BY <1>1, <1>2, <1>3 DEF Shape, Kept

LEMMA CancelShape ==
  ASSUME IInv, CancelResponse \/ CancelUnsolicitedRetries
  PROVE  Shape
<1>1. /\ busy \in [Channels -> BOOLEAN]
      /\ apdu' = apdu /\ handed' = handed /\ wire' = wire /\ queue' = queue
  BY DEF IInv, TypeOK, CancelResponse, CancelUnsolicitedRetries, sendVars
<1>2. \A x \in Channels : busy'[x] => busy[x]
  BY <1>1 DEF CancelResponse, CancelUnsolicitedRetries, Failure
<1>3. QED
  BY <1>1, <1>2, FlowStill DEF Shape, Kept

\* A fragment is read and nothing is queued.
LEMMA ReadShape ==
  ASSUME IInv, NEW p \in Stations, NEW fcs, Receives(p, fcs), Consume(p),
         UNCHANGED <<queue, apdu, handed>>, \A k \in Channels : busy'[k] => busy[k]
  PROVE  Shape
<1>1. /\ wire \in [Stations -> Seq(Fragment)] /\ Other(p) \in Stations
      /\ wire[Other(p)] # <<>> /\ wire' = [wire EXCEPT ![Other(p)] = Tail(wire[Other(p)])]
  BY StationFacts DEF IInv, TypeOK, Receives, Consume
<1>2. \A r \in Stations : wire'[r] = wire[r] \/ (wire[r] # <<>> /\ wire'[r] = Tail(wire[r]))
  BY <1>1
<1>3. QED
  BY <1>2, FlowStill DEF Shape, Kept

LEMMA ConfFacts ==
  ASSUME NEW f \in Fragment
  PROVE  /\ Conf(f) \in Fragment /\ Conf(f).fc = "CONFIRM" /\ Conf(f).ch = f.ch
         /\ Conf(f).seq = f.seq /\ Kind(Conf(f)) = "confirm"
BY DEF Conf, Fragment, Kind

\* The master reads a fragment and confirms it.
LEMMA ConfirmShape ==
  ASSUME IInv, OnResponse \/ OnUnsolResponse, NEW fcs, Receives(Master, fcs),
         QueueConfirm(Incoming(Master)),
         UNCHANGED <<apdu, handed>>, \A k \in Channels : busy'[k] => busy[k]
  PROVE  Shape
<1> DEFINE f == Conf(Incoming(Master))
<1>1. /\ Master \in Stations /\ Incoming(Master) \in Fragment /\ Unread(Master) \in Seq(Fragment)
      /\ wire[Other(Master)] # <<>> /\ TypeOK /\ Unread(Master) = Tail(wire[Other(Master)])
  BY StationFacts, ReceivesFacts DEF IInv, Receives, Unread
<1>2. f \in Fragment /\ QueueFrame(Master, f, Unread(Master))
  BY <1>1, ConfFacts DEF QueueConfirm, Conf
<1>3. f \in Acks(Master)
  BY DEF Acks
<1> HIDE DEF f
<1>4. /\ Flow(Master, {f}) /\ wire'[Other(Master)] = Tail(wire[Other(Master)])
      /\ queue'[Other(Master)] = queue[Other(Master)]
  BY <1>1, <1>2, QueueFrameFlow
<1>5. Flow(Master, Sent(Master) \cup Acks(Master))
  BY <1>3, <1>4, FlowMore
<1>6. Flow(Other(Master), Sent(Other(Master)) \cup Acks(Other(Master)))
  BY <1>1, <1>4, FlowStill
<1>7. \A r \in Stations : r = Master \/ r = Other(Master)
  BY DEF Stations, Other
<1>8. QED
  BY <1>5, <1>6, <1>7 DEF Shape, Kept

LEMMA ReceiveShape ==
  ASSUME IInv, Receive
  PROVE  Shape
<1>1. /\ Master \in Stations /\ Outstation \in Stations
      /\ busy \in [Channels -> BOOLEAN]
  BY StationFacts DEF IInv, TypeOK
<1>2. CASE OnResponse
  <2>1. /\ Receives(Master, {"RESPONSE"}) /\ UNCHANGED <<apdu, handed>>
        /\ QueueConfirm(Incoming(Master)) \/ (Consume(Master) /\ UNCHANGED queue)
    BY <1>2 DEF OnResponse, NoConfirm, sendVars
  <2>2. \A k \in Channels : busy'[k] => busy[k]
    BY <1>1, <1>2 DEF OnResponse, ProcessResponse
  <2>3. QED
    BY <1>1, <1>2, <2>1, <2>2, ReadShape, ConfirmShape
<1>3. CASE OnUnsolResponse
  BY <1>1, <1>3, ConfirmShape DEF OnUnsolResponse
<1>4. CASE Flood
  BY <1>1, <1>4, ReadShape DEF Flood, sendVars, chanVars
<1>5. CASE OnRequest
  BY <1>1, <1>5, ReadShape DEF OnRequest, sendVars
<1>6. CASE OnConfirm
  <2>1. /\ Receives(Outstation, {"CONFIRM"}) /\ UNCHANGED <<queue, apdu, handed>>
        /\ Consume(Outstation)
    BY <1>6 DEF OnConfirm, sendVars
  <2>2. \A k \in Channels : busy'[k] => busy[k]
    BY <1>1, <1>6 DEF OnConfirm
  <2>3. QED
    BY <1>1, <2>1, <2>2, ReadShape
<1>7. QED
  BY <1>2, <1>3, <1>4, <1>5, <1>6 DEF Receive

LEMMA FormsOf ==
  /\ Sol(Master)[2] = "sol" /\ Sol(Outstation)[2] = "sol" /\ Uns(Outstation)[2] = "uns"
  /\ Forms(Sol(Master)) = Requests /\ Forms(Sol(Outstation)) = {"RESPONSE"}
  /\ Forms(Uns(Outstation)) = {"UNSOLICITED"} /\ Forms(Uns(Master)) = {}
<1>1. /\ Sol(Master) # Sol(Outstation) /\ Sol(Master) # Uns(Outstation)
      /\ Sol(Outstation) # Uns(Outstation)
      /\ Uns(Master) # Sol(Master) /\ Uns(Master) # Sol(Outstation)
      /\ Uns(Master) # Uns(Outstation)
  BY AppAssumption DEF Sol, Uns
<1>2. Sol(Master)[2] = "sol" /\ Sol(Outstation)[2] = "sol" /\ Uns(Outstation)[2] = "uns"
  BY DEF Sol, Uns
<1>3. QED
  BY <1>1, <1>2 DEF Forms

LEMMA StepShape ==
  ASSUME IInv, [Next]_vars
  PROVE  Shape
<1>1. Sol(Master) \in Channels /\ Sol(Outstation) \in Channels /\ Uns(Outstation) \in Channels
  BY StationFacts, ChannelFacts
<1>2. CASE UNCHANGED vars
  BY <1>2, FlowStill DEF Shape, Kept, vars, sendVars, chanVars
<1>3. CASE SendRequest
  <2>1. CanSend(Sol(Master))
    BY <1>3 DEF SendRequest
  <2>2. Sol(Master)[2] = "sol" /\ Forms(Sol(Master)) = Requests
    BY FormsOf
  <2>3. QED
    BY <1>1, <1>3, <2>1, <2>2, RequestFits, SendShape
<1>4. CASE SendResponse
  <2>1. CanSend(Sol(Outstation))
    BY <1>4 DEF SendResponse
  <2>2. Sol(Outstation)[2] = "sol" /\ "RESPONSE" \in Forms(Sol(Outstation))
    BY FormsOf
  <2>3. QED
    BY <1>1, <1>4, <2>1, <2>2, ResponseFits, SendShape
<1>5. CASE SendUnsolicited
  <2>1. CanSend(Uns(Outstation))
    BY <1>5 DEF SendUnsolicited
  <2>2. Uns(Outstation)[2] = "uns" /\ "UNSOLICITED" \in Forms(Uns(Outstation))
    BY FormsOf
  <2>3. QED
    BY <1>1, <1>5, <2>1, <2>2, UnsolicitedFits, SendShape
<1>6. QED
  BY <1>2, <1>3, <1>4, <1>5, LineShape, ResultShape, TimeoutShape, CancelShape, ReceiveShape
  DEF Next, Users

---------------------------------------------------------------------------
(* What is under way is well formed, and copies of what was sent last *)

LEMMA AcksFacts ==
  ASSUME IInv, NEW p, NEW f \in Acks(p)
  PROVE  /\ f.fc = "CONFIRM" /\ Kind(f) = "confirm" /\ p = Master
         /\ Incoming(Master) \in Fragment /\ Incoming(Master) \in Range(wire[Outstation])
         /\ f.ch = Incoming(Master).ch /\ f.seq = Incoming(Master).seq
         /\ OnUnsolResponse \/ Incoming(Master).fc = "RESPONSE"
<1>1. p = Master /\ (OnResponse \/ OnUnsolResponse) /\ f = Conf(Incoming(Master))
  BY DEF Acks
<1>2. \E fcs : Receives(Master, fcs) /\ (OnUnsolResponse \/ fcs = {"RESPONSE"})
  BY <1>1 DEF OnResponse, OnUnsolResponse
<1>3. PICK fcs : Receives(Master, fcs) /\ (OnUnsolResponse \/ fcs = {"RESPONSE"})
  BY <1>2
<1>4. Incoming(Master) \in Fragment /\ (OnUnsolResponse \/ Incoming(Master).fc = "RESPONSE")
  BY <1>3, StationFacts, ReceivesFacts DEF IInv
<1>5. Incoming(Master) \in Range(wire[Outstation])
  <2>1. /\ Other(Master) = Outstation /\ wire[Outstation] # <<>>
        /\ wire[Outstation] \in Seq(Fragment)
    BY <1>3, StationFacts DEF Other, Receives, IInv, TypeOK
  <2>2. QED
    BY <2>1, <1>4, RangeFacts DEF Incoming
<1>6. QED
  BY <1>1, <1>4, <1>5, ConfFacts

LEMMA FormedNext ==
  ASSUME IInv, IInv', Formed, Shape
  PROVE  Formed'
<1>1. ASSUME NEW k \in Channels, busy'[k]
      PROVE  apdu'[k].ch = k[2] /\ apdu'[k].fc \in Forms(k)
  BY <1>1 DEF Shape, Kept, Fresh, Formed
<1>2. ASSUME NEW p \in Stations, NEW f \in OnWay(p)'
      PROVE  Fits(p, f)
  <2>1. f \in OnWay(p) \cup Sent(p) \cup Acks(p)
    BY <1>2, FlowFacts DEF Shape, IInv
  <2>2. CASE f \in OnWay(p)
    BY <2>2 DEF Formed
  <2>3. CASE f \in Sent(p)
    <3>1. PICK k \in Channels : k[1] = p /\ busy'[k] /\ f = apdu'[k]
      BY <2>3 DEF Sent
    <3>2. f.ch = k[2] /\ f.fc \in Forms(k) /\ k = <<k[1], k[2]>>
      BY <1>1, <3>1, ChannelFacts
    <3>3. QED
      BY <3>1, <3>2 DEF Fits
  <2>4. CASE f \in Acks(p)
    BY <2>4, AcksFacts DEF Fits
  <2>5. QED
    BY <2>1, <2>2, <2>3, <2>4
<1>3. apdu'[Sol(Master)].fc \in Requests /\ apdu'[Sol(Master)].ch = "sol"
  <2>1. Sol(Master) \in Channels
    BY StationFacts, ChannelFacts
  <2>2. QED
    BY <2>1, FormsOf DEF Shape, Kept, Fresh, Formed
<1>4. QED
  BY <1>1, <1>2, <1>3 DEF Formed

\* What p adds to the queue for channel k is what k sends.
LEMMA NewOfChannel ==
  ASSUME IInv, Formed', NEW k \in Channels, NEW f \in Sent(k[1]) \cup Acks(k[1]), Kind(f) = k[2]
  PROVE  f = apdu'[k]
<1>1. k[2] # "confirm" /\ k = <<k[1], k[2]>>
  BY ChannelFacts
<1>2. f \notin Acks(k[1])
  BY <1>1, AcksFacts
<1>3. PICK x \in Channels : x[1] = k[1] /\ busy'[x] /\ f = apdu'[x]
  BY <1>2 DEF Sent
<1>4. f.ch = x[2] /\ x = <<x[1], x[2]>>
  BY <1>3, ChannelFacts DEF Formed
<1>5. f.fc # "CONFIRM"
  BY <1>1 DEF Kind
<1>6. QED
  BY <1>1, <1>3, <1>4, <1>5 DEF Kind

LEMMA CopiesNext ==
  ASSUME IInv, IInv', Formed', Shape, NEW k \in Channels, Copies(k)
  PROVE  Copies(k)'
<1> DEFINE p == k[1]
           c == k[2]
           new == Sent(p) \cup Acks(p)
<1>1. /\ p \in Stations /\ TypeOK /\ TypeOK' /\ Flow(p, new) /\ handed[k] \in Nat
      /\ apdu[k] \in Fragment /\ apdu'[k] \in Fragment /\ MaxHanded[k] \in Nat
  BY ChannelFacts, AppAssumption DEF Shape, IInv, TypeOK
<1>2. \A f \in new : Kind(f) = c => f = apdu'[k]
  BY NewOfChannel
<1>3. OnWay(p) \subseteq Fragment /\ OnWay(p)' \subseteq OnWay(p) \cup new
  BY <1>1, QueueTypes, FlowFacts
<1>4. /\ Range(queue'[p]) \subseteq Range(queue[p]) \cup new
      /\ Range(wire[p]) \subseteq OnWay(p) /\ Range(queue[p]) \subseteq OnWay(p)
  BY <1>1 DEF Flow, OnWay
<1> HIDE DEF new
<1>5. \A f \in OnWay(p) : Kind(f) = c => f.id \in Nat /\ Before(f, apdu[k])
  BY <1>3 DEF Copies, Fragment
<1>6. \A f \in OnWay(p) : Kind(f) = c => Before(f, apdu'[k])
  <2>1. CASE Kept(k)
    BY <1>5, <2>1 DEF Kept
  <2>2. CASE Fresh(k)
    <3>1. apdu[k].id = handed[k] /\ apdu'[k].id = handed[k] + 1
      BY <2>2 DEF Fresh, Copies
    <3>2. QED
      BY <1>1, <1>5, <3>1 DEF Before
  <2>3. QED
    BY <2>1, <2>2 DEF Shape
<1>7. Before(apdu'[k], apdu'[k])
  BY <1>1 DEF Before, Fragment
<1>8. \A f \in Range(queue'[p]) : Kind(f) = c => f = apdu'[k]
  <2>1. CASE Kept(k)
    BY <1>2, <1>4, <2>1 DEF Kept, Copies
  <2>2. CASE Fresh(k)
    <3>1. \A f \in Range(queue[p]) : Kind(f) # c
      BY <2>2 DEF Fresh, None, Places, Range
    <3>2. QED
      BY <1>2, <1>4, <3>1
  <2>3. QED
    BY <2>1, <2>2 DEF Shape
<1>9. \A f \in OnWay(p)' : Kind(f) = c => Before(f, apdu'[k])
  BY <1>2, <1>3, <1>6, <1>7
<1>10. InOrder(wire'[p], c)
  <2>1. \A h \in Range(queue'[p]) : Kind(h) = c =>
          \A f \in Range(wire[p]) : Kind(f) = c => Before(f, h)
    BY <1>4, <1>6, <1>8
  <2>2. InOrder(wire[p], c)
    BY DEF Copies
  <2>3. QED
    BY <1>1, <2>1, <2>2, OrderKept
<1>11. apdu'[k].id = handed'[k] /\ handed'[k] <= MaxHanded[k]
  BY <1>1 DEF Shape, Kept, Fresh, Copies
<1>12. QED
  BY <1>8, <1>9, <1>10, <1>11 DEF Copies

\* What is pending for a channel was pending before, or is what was just sent.
LEMMA PendingNext ==
  ASSUME IInv, IInv', Shape, NEW k \in Channels, Copies(k), Copies(k)'
  PROVE  /\ Pending(k) \subseteq Fragment /\ apdu[k] \in Pending(k)
         /\ \A f \in Pending(k) : f.id <= handed[k]
         /\ apdu[k].id = handed[k]
         /\ Kept(k) => Pending(k)' \subseteq Pending(k)
         /\ Pending(k)' \subseteq Pending(k) \cup {f \in Fragment : f.id = handed[k] + 1}
<1>1. /\ k[1] \in Stations /\ TypeOK /\ TypeOK' /\ apdu[k] \in Fragment /\ apdu'[k] \in Fragment
      /\ handed[k] \in Nat
  BY ChannelFacts DEF IInv, TypeOK
<1>2. /\ Range(wire'[k[1]]) \subseteq Range(wire[k[1]]) \cup Range(queue'[k[1]])
      /\ Range(wire[k[1]]) \subseteq Fragment
  BY <1>1, FlowFacts, QueueTypes DEF Shape
<1>3. \A f \in Range(queue'[k[1]]) : Kind(f) = k[2] => f = apdu'[k]
  BY DEF Copies
<1>4. Pending(k)' \subseteq Pending(k) \cup {apdu'[k]}
  BY <1>2, <1>3 DEF Pending
<1>5. Pending(k) \subseteq Fragment /\ apdu[k] \in Pending(k)
  BY <1>1, <1>2 DEF Pending
<1>6. \A f \in Pending(k) : f.id <= handed[k]
  <2>1. \A f \in Pending(k) : f = apdu[k] \/ (f \in OnWay(k[1]) /\ Kind(f) = k[2])
    BY DEF Pending, OnWay
  <2>2. QED
    BY <1>1, <2>1 DEF Copies, Before
<1>7. apdu[k].id = handed[k]
  BY DEF Copies
<1>8. Kept(k) \/ apdu'[k].id = handed[k] + 1
  BY DEF Shape, Fresh
<1>9. QED
  BY <1>1, <1>4, <1>5, <1>6, <1>7, <1>8 DEF Kept

\* What is read for a channel was pending, and is before all that is pending then.
LEMMA HeadBefore ==
  ASSUME IInv, NEW k \in Channels, Copies(k), wire[k[1]] # <<>>, Kind(Head(wire[k[1]])) = k[2],
         wire'[k[1]] = Tail(wire[k[1]]), apdu'[k] = apdu[k]
  PROVE  /\ Head(wire[k[1]]) \in Pending(k) /\ Pending(k)' \subseteq Pending(k)
         /\ \A g \in Pending(k)' : Before(Head(wire[k[1]]), g)
<1> DEFINE w == wire[k[1]]
<1>1. k[1] \in Stations /\ w \in Seq(Fragment) /\ apdu[k] \in Fragment
  BY ChannelFacts DEF IInv, TypeOK
<1>2. /\ Head(w) \in Range(w) /\ Range(Tail(w)) \subseteq Range(w)
      /\ \A i \in DOMAIN Tail(w) : i + 1 \in DOMAIN w /\ 1 <= i + 1 /\ Tail(w)[i] = w[i + 1]
      /\ 1 \in DOMAIN w /\ Head(w) = w[1]
  <2>1. Head(w) \in Range(w) /\ Range(Tail(w)) \subseteq Range(w)
    <3>1. PICK f \in Fragment : f = Head(w)
      BY <1>1
    <3>2. QED
      BY <1>1, <3>1, RangeFacts
  <2>2. \A i \in DOMAIN Tail(w) : i + 1 \in DOMAIN w /\ 1 <= i + 1 /\ Tail(w)[i] = w[i + 1]
    BY <1>1
  <2>3. 1 \in DOMAIN w /\ Head(w) = w[1]
    BY <1>1
  <2>4. QED
    BY <2>1, <2>2, <2>3
<1>3. Head(w) \in Pending(k) /\ Pending(k)' \subseteq Pending(k)
  BY <1>2 DEF Pending
<1>4. Before(Head(w), apdu[k])
  BY <1>2 DEF Copies, OnWay
<1>5. \A g \in Range(Tail(w)) : Kind(g) = k[2] => Before(Head(w), g)
  BY <1>2 DEF Range, Copies, InOrder, Before
<1>6. QED
  BY <1>3, <1>4, <1>5 DEF Pending

---------------------------------------------------------------------------
(* What the users are told *)

LEMMA Increased ==
  ASSUME NEW s \in Seq(Nat), Increasing(s), NEW n \in Nat, \A m \in Range(s) : m < n
  PROVE  Increasing(Append(s, n)) /\ Range(Append(s, n)) = Range(s) \cup {n}
<1> DEFINE a == Append(s, n)
<1>1. /\ DOMAIN a = DOMAIN s \cup {Len(s) + 1} /\ a[Len(s) + 1] = n /\ Len(s) \in Nat
      /\ \A i \in DOMAIN s : a[i] = s[i] /\ i \in Nat /\ i <= Len(s)
  OBVIOUS
<1> HIDE DEF a
<1>2. \A i \in DOMAIN s : s[i] < n
  BY DEF Range
<1>3. Increasing(a)
  BY <1>1, <1>2 DEF Increasing
<1>4. Range(a) = Range(s) \cup {n}
  BY <1>1 DEF Range
<1>5. QED
  BY <1>3, <1>4 DEF a

AtMost(numbers, id) == \A n \in Range(numbers) : n <= id

\* f is read: it is told if it does not repeat what was told last.
LEMMA HeardNext ==
  ASSUME NEW P \in SUBSET Fragment, NEW Q \in SUBSET P, NEW f \in P, \A g \in Q : Before(f, g),
         NEW told \in Seq(Nat), NEW s, NEW fcs, Heard(told, s, P, fcs), NEW new,
         \/ new = told
         \/ new = Append(told, f.id) /\ f.seq # s /\ f.fc \in fcs
  PROVE  Heard(new, f.seq, Q, fcs) /\ AtMost(new, f.id)
<1>1. f.id \in Nat /\ Range(told) \subseteq Nat /\ \A g \in Q : g.id \in Nat
  BY DEF Fragment, Range
<1>2. \A n \in Range(told) : n <= f.id /\ (n = f.id => f.seq = s /\ f.fc \in fcs)
  BY DEF Heard
<1>3. \A g \in Q : f.id <= g.id /\ (f.id = g.id => f = g)
  BY DEF Before
<1>4. CASE new = told
  <2>1. \A n \in Range(told) : \A g \in Q : n <= g.id /\ (n = g.id => n = f.id /\ g = f)
    BY <1>1, <1>2, <1>3
  <2>2. QED
    BY <1>2, <1>4, <2>1 DEF Heard, AtMost
<1>5. CASE new = Append(told, f.id) /\ f.seq # s /\ f.fc \in fcs
  <2>1. \A n \in Range(told) : n < f.id
    BY <1>1, <1>2, <1>5
  <2>2. Increasing(new) /\ Range(new) = Range(told) \cup {f.id}
    BY <1>1, <1>5, <2>1, Increased DEF Heard
  <2>3. \A n \in Range(new) : n \in Nat /\ n <= f.id
    BY <1>1, <1>2, <2>2
  <2>4. \A n \in Range(new) : \A g \in Q : n <= g.id /\ (n = g.id => n = f.id /\ g = f)
    BY <1>1, <1>3, <2>3
  <2>5. QED
    BY <1>5, <2>2, <2>3, <2>4 DEF Heard, AtMost
<1>6. QED
  BY <1>4, <1>5

\* What is heard stays so while nothing is read, whatever is sent next.
LEMMA HeardStill ==
  ASSUME NEW P \in SUBSET Fragment, NEW a \in P, NEW Q,
         Q \subseteq P \cup {f \in Fragment : f.id = a.id + 1},
         NEW told \in Seq(Nat), NEW s, NEW fcs, Heard(told, s, P, fcs)
  PROVE  Heard(told, s, Q, fcs)
<1>1. a.id \in Nat /\ Range(told) \subseteq Nat
  BY DEF Fragment, Range
<1>2. \A n \in Range(told) : n <= a.id
  BY DEF Heard
<1>3. \A n \in Range(told) : n < a.id + 1
  BY <1>1, <1>2
<1>4. ASSUME NEW n \in Range(told), NEW f \in Q
      PROVE  n <= f.id /\ (n = f.id => f.seq = s /\ f.fc \in fcs)
  <2>1. CASE f \in P
    BY <2>1 DEF Heard
  <2>2. CASE f.id = a.id + 1
    BY <1>1, <1>3, <2>2
  <2>3. QED
    BY <2>1, <2>2
<1>5. QED
  BY <1>4 DEF Heard

RequestsLeft ==
  /\ reported' = reported /\ seq'[Sol(Outstation)] = seq[Sol(Outstation)]
  /\ asked' = asked \/ asked' = Nothing

UnsolsLeft ==
  /\ unsols' = unsols
  /\ \/ seq'[Uns(Master)] = seq[Uns(Master)]
     \/ seq'[Uns(Master)] = -1 /\ downs'[Master] # 0

\* Who changes what the users were told
Tellers ==
  /\ \A p \in Stations : downs'[p] = 0 => downs[p] = 0
  /\ OnRequest \/ SendResponse \/ downs'[Outstation] # 0 \/ RequestsLeft
  /\ OnUnsolResponse \/ UnsolsLeft
  /\ \/ SendUnsolicited
     \/ downs'[Outstation] # 0
     \/ seq'[Uns(Outstation)] = seq[Uns(Outstation)]
  /\ SendUnsolicited \/ handed'[Uns(Outstation)] = handed[Uns(Outstation)]
  /\ OnConfirm \/ confirmed' = confirmed

LEMMA ChannelsDiffer ==
  /\ Sol(Master) \in Channels /\ Sol(Outstation) \in Channels
  /\ Uns(Master) \in Channels /\ Uns(Outstation) \in Channels
  /\ Sol(Master) # Sol(Outstation) /\ Sol(Master) # Uns(Outstation)
  /\ Sol(Outstation) # Uns(Outstation) /\ Uns(Master) # Sol(Master)
  /\ Uns(Master) # Sol(Outstation) /\ Uns(Master) # Uns(Outstation)
  /\ Sol(Master)[1] = Master /\ Uns(Master)[1] = Master
  /\ Sol(Outstation)[1] = Outstation /\ Uns(Outstation)[1] = Outstation
BY AppAssumption, StationFacts, ChannelFacts DEF Sol, Uns

LEMMA StepTellers ==
  ASSUME IInv, [Next]_vars
  PROVE  Tellers
<1>1. /\ seq \in [Channels -> -1..15] /\ downs \in [Stations -> Nat]
      /\ handed \in [Channels -> Nat]
  BY DEF IInv, TypeOK
<1>2. CASE /\ UNCHANGED <<reported, unsols, confirmed, downs, seq, handed>>
           /\ asked' = asked \/ asked' = Nothing
  BY <1>2 DEF Tellers, RequestsLeft, UnsolsLeft
<1>3. ASSUME NEW p \in Stations, Line(p)
      PROVE  Tellers
  <2>1. CASE OnLowerLayerDown(p)
    <3>1. /\ downs' = [downs EXCEPT ![p] = downs[p] + 1]
          /\ seq' = [k \in Channels |-> IF k[1] = p THEN -1 ELSE seq[k]]
          /\ asked' = (IF p = Outstation THEN Nothing ELSE asked)
          /\ UNCHANGED <<reported, unsols, confirmed, handed>>
      BY <2>1 DEF OnLowerLayerDown, history
    <3>2. \A r \in Stations : downs'[r] = 0 => downs[r] = 0
      BY <1>1, <3>1
    <3>3. downs'[p] # 0
      BY <1>1, <3>1
    <3>4. /\ p # Outstation => RequestsLeft /\ seq'[Uns(Outstation)] = seq[Uns(Outstation)]
          /\ UnsolsLeft
      BY <1>1, <3>1, <3>3, ChannelsDiffer DEF RequestsLeft, UnsolsLeft
    <3>5. QED
      BY <3>1, <3>2, <3>3, <3>4 DEF Tellers
  <2>2. CASE OnLowerLayerUp(p) \/ LoseFragment(p)
    BY <1>2, <2>2 DEF OnLowerLayerUp, LoseFragment, chanVars, history
  <2>3. QED
    BY <1>3, <2>1, <2>2 DEF Line
<1>4. ASSUME NEW p \in Stations, SendResult(p)
      PROVE  Tellers
  BY <1>2, <1>4 DEF SendResult, ConfirmSent, OnSendSuccess, OnSendFailure, Failure, chanVars, history
<1>5. ASSUME NEW k \in Channels, OnTimeout(k)
      PROVE  Tellers
  BY <1>2, <1>5 DEF OnTimeout, Failure, history
<1>6. CASE Users
  <2>1. CASE SendRequest
    <3>1. PICK f, n : /\ seq' = [seq EXCEPT ![Sol(Master)] = f]
                      /\ handed' = [handed EXCEPT ![Sol(Master)] = n]
                      /\ UNCHANGED <<downs, history, asked>>
      BY <2>1 DEF SendRequest, Send
    <3>2. QED
      BY <1>1, <3>1, ChannelsDiffer DEF Tellers, RequestsLeft, UnsolsLeft, history
  <2>2. CASE SendResponse
    <3>1. PICK f, n : /\ seq' = [seq EXCEPT ![Sol(Outstation)] = f]
                      /\ handed' = [handed EXCEPT ![Sol(Outstation)] = n]
                      /\ UNCHANGED <<downs, history>>
      BY <2>2 DEF SendResponse, Send
    <3>2. QED
      BY <1>1, <2>2, <3>1, ChannelsDiffer DEF Tellers, UnsolsLeft, history
  <2>3. CASE SendUnsolicited
    <3>1. PICK f : seq' = [seq EXCEPT ![Uns(Outstation)] = f] /\ UNCHANGED <<downs, history, asked>>
      BY <2>3 DEF SendUnsolicited, Send
    <3>2. QED
      BY <1>1, <2>3, <3>1, ChannelsDiffer DEF Tellers, RequestsLeft, UnsolsLeft, history
  <2>4. CASE CancelResponse \/ CancelUnsolicitedRetries
    BY <1>2, <2>4 DEF CancelResponse, CancelUnsolicitedRetries, Failure, history
  <2>5. QED
    BY <1>6, <2>1, <2>2, <2>3, <2>4 DEF Users
<1>7. CASE Receive
  <2>1. CASE OnResponse
    <3>1. /\ UNCHANGED <<asked, downs, reported, unsols, confirmed, handed>>
          /\ UNCHANGED seq \/ \E s : seq' = [seq EXCEPT ![Sol(Master)] = s]
      BY <2>1 DEF OnResponse, ProcessResponse
    <3>2. QED
      BY <1>1, <3>1, ChannelsDiffer DEF Tellers, RequestsLeft, UnsolsLeft
  <2>2. CASE OnUnsolResponse
    <3>1. /\ UNCHANGED <<asked, downs, reported, confirmed, handed>>
          /\ \E s : seq' = [seq EXCEPT ![Uns(Master)] = s]
      BY <2>2 DEF OnUnsolResponse
    <3>2. QED
      BY <1>1, <2>2, <3>1, ChannelsDiffer DEF Tellers, RequestsLeft
  <2>3. CASE Flood
    BY <1>2, <2>3 DEF Flood, chanVars, history
  <2>4. CASE OnRequest
    <3>1. /\ UNCHANGED <<downs, unsols, confirmed, handed>>
          /\ \E s : seq' = [seq EXCEPT ![Sol(Outstation)] = s]
      BY <2>4 DEF OnRequest
    <3>2. QED
      BY <1>1, <2>4, <3>1, ChannelsDiffer DEF Tellers, UnsolsLeft
  <2>5. CASE OnConfirm
    BY <2>5 DEF OnConfirm, Tellers, RequestsLeft, UnsolsLeft
  <2>6. QED
    BY <1>7, <2>1, <2>2, <2>3, <2>4, <2>5 DEF Receive
<1>8. CASE UNCHANGED vars
  BY <1>2, <1>8 DEF vars, chanVars, history
<1>9. QED
  BY <1>3, <1>4, <1>5, <1>6, <1>7, <1>8 DEF Next

---------------------------------------------------------------------------
(* The requests that the outstation is told of *)

LEMMA AskedStill ==
  ASSUME NEW P \in SUBSET Fragment, NEW a \in P, NEW Q,
         Q \subseteq P \cup {f \in Fragment : f.id = a.id + 1},
         NEW told, NEW ask, ask.req \in Nat, Asked(ask, told, P)
  PROVE  Asked(ask, told, Q)
<1>1. a.id \in Nat
  BY DEF Fragment
<1>2. ask # Nothing => ask.req <= a.id
  BY DEF Asked
<1>3. ask # Nothing => \A f \in Q : ask.req <= f.id
  BY <1>1, <1>2 DEF Asked
<1>4. QED
  BY <1>3 DEF Asked

LEMMA NothingAsked == \A told, Q : Asked(Nothing, told, Q)
BY DEF Asked, Nothing

\* The request that the outstation reads, behind none that is older
LEMMA RequestRead ==
  ASSUME IInv, Formed, Copies(Sol(Master)), OnRequest
  PROVE  LET f == Incoming(Outstation) IN
         /\ f \in Pending(Sol(Master)) /\ Pending(Sol(Master))' \subseteq Pending(Sol(Master))
         /\ \A g \in Pending(Sol(Master))' : Before(f, g)
         /\ seq'[Sol(Outstation)] = f.seq
         /\ asked' = [req |-> f.id, fc |-> f.fc, fir |-> TRUE]
         /\ \/ reported' = reported
            \/ /\ reported' = Append(reported, f.id)
               /\ f.seq # seq[Sol(Outstation)] /\ f.fc \in Executed
<1> DEFINE f == Incoming(Outstation)
           k == Sol(Master)
<1>1. /\ Outstation \in Stations /\ Master \in Stations /\ Other(Outstation) = Master
      /\ k[1] = Master /\ k[2] = "sol" /\ k \in Channels /\ Sol(Outstation) \in Channels
      /\ Master # Outstation
  BY AppAssumption, StationFacts, ChannelsDiffer, FormsOf DEF Other
<1>2. Receives(Outstation, Requests) /\ f \in Fragment /\ f.fc \in Requests
  BY <1>1, ReceivesFacts DEF OnRequest, IInv
<1>3. wire[Master] # <<>> /\ f = Head(wire[Master]) /\ wire[Master] \in Seq(Fragment)
  BY <1>1, <1>2 DEF Receives, Incoming, IInv, TypeOK
<1>4. wire'[Master] = Tail(wire[Master]) /\ apdu' = apdu
  BY <1>1 DEF OnRequest, Consume, IInv, TypeOK
<1>5. f \in OnWay(Master)
  BY <1>2, <1>3, RangeFacts DEF OnWay
<1>6. Kind(f) = "sol"
  <2>1. f.fc # "CONFIRM" /\ f.fc \in Forms(<<Master, f.ch>>)
    BY <1>1, <1>2, <1>5 DEF Formed, Fits, Requests
  <2>2. f.ch \in {"sol", "uns"} /\ Forms(Uns(Master)) = {}
    BY <1>2, FormsOf DEF Fragment
  <2>3. f.ch = "sol"
    BY <2>1, <2>2 DEF Uns
  <2>4. QED
    BY <2>1, <2>3 DEF Kind
<1>7. /\ f \in Pending(k) /\ Pending(k)' \subseteq Pending(k)
      /\ \A g \in Pending(k)' : Before(f, g)
  BY <1>1, <1>3, <1>4, <1>6, HeadBefore
<1>8. seq'[Sol(Outstation)] = f.seq
  BY <1>1 DEF OnRequest, IInv, TypeOK
<1>9. QED
  BY <1>7, <1>8 DEF OnRequest, IsRepeated

LEMMA RequestsHeardNext ==
  ASSUME IInv, IInv', Formed, Shape, Tellers, [Next]_vars, RequestsHeard,
         Copies(Sol(Master)), Copies(Sol(Master))'
  PROVE  RequestsHeard'
<1> DEFINE k == Sol(Master)
           P == Pending(k)
           Q == Pending(k)'
           s == seq[Sol(Outstation)]
<1> SUFFICES ASSUME downs'[Outstation] = 0
             PROVE  /\ Heard(reported', seq'[Sol(Outstation)], Q, Executed)
                    /\ Asked(asked', reported', Q)
  BY DEF RequestsHeard
<1>1. /\ Outstation \in Stations /\ k \in Channels /\ reported \in Seq(Nat)
      /\ asked \in [req : Nat, fc : Requests, fir : BOOLEAN]
  BY StationFacts, ChannelsDiffer DEF IInv, TypeOK
<1>2. Heard(reported, s, P, Executed) /\ Asked(asked, reported, P)
  BY <1>1 DEF Tellers, RequestsHeard
<1>3. /\ P \subseteq Fragment /\ apdu[k] \in P /\ apdu[k].id = handed[k]
      /\ Q \subseteq P \cup {f \in Fragment : f.id = handed[k] + 1}
  BY <1>1, PendingNext
<1> HIDE DEF P, Q, k, s
<1>4. /\ Heard(reported, s, Q, Executed)
      /\ Asked(asked, reported, Q) /\ Asked(Nothing, reported, Q)
  <2>1. asked.req \in Nat
    BY <1>1
  <2>2. Q \subseteq P \cup {f \in Fragment : f.id = apdu[k].id + 1}
    BY <1>3
  <2>3. QED
    BY <1>1, <1>2, <1>3, <2>1, <2>2, HeardStill, AskedStill, NothingAsked
<1>5. CASE OnRequest
  <2> DEFINE f == Incoming(Outstation)
  <2>1. /\ f \in P /\ Q \subseteq P /\ \A g \in Q : Before(f, g)
        /\ seq'[Sol(Outstation)] = f.seq /\ asked' = [req |-> f.id, fc |-> f.fc, fir |-> TRUE]
        /\ \/ reported' = reported
           \/ reported' = Append(reported, f.id) /\ f.seq # s /\ f.fc \in Executed
    BY <1>5, RequestRead DEF P, Q, k, s
  <2> HIDE DEF f
  <2>2. Heard(reported', f.seq, Q, Executed) /\ AtMost(reported', f.id)
    <3>1. P \in SUBSET Fragment /\ Q \in SUBSET P /\ f \in P /\ reported \in Seq(Nat)
      BY <1>1, <1>3, <2>1
    <3>2. /\ \A g \in Q : Before(f, g)
          /\ Heard(reported, s, P, Executed)
          /\ \/ reported' = reported
             \/ reported' = Append(reported, f.id) /\ f.seq # s /\ f.fc \in Executed
      BY <1>2, <2>1
    <3>3. QED
      BY <3>1, <3>2, HeardNext
  <2>3. f.fc = "READ" => f.id \notin Range(reported')
    <3>1. "READ" \notin Executed
      BY DEF Executed
    <3>2. f.fc = "READ" => reported' = reported
      BY <2>1, <3>1
    <3>3. f.fc = "READ" => f.id \notin Range(reported)
      BY <1>2, <2>1, <3>1 DEF Heard
    <3>4. QED
      BY <3>2, <3>3
  <2>4. \A g \in Q : f.id <= g.id
    BY <2>1 DEF Before
  <2>5. asked'.req = f.id /\ asked'.fc = f.fc /\ asked'.fir
    BY <2>1
  <2>6. Asked(asked', reported', Q)
    BY <2>2, <2>3, <2>4, <2>5 DEF Asked, AtMost
  <2>7. QED
    BY <2>1, <2>2, <2>6
<1>6. CASE SendResponse
  <2>1. PICK g \in Fragment : \E next :
          /\ Send(Sol(Outstation), next, g)
          /\ g.seq = (IF asked.fir THEN s ELSE NextSeq(s))
          /\ asked # Nothing
          /\ \/ asked' = Nothing
             \/ asked' = [asked EXCEPT !.fir = FALSE] /\ asked.fc = "READ"
    BY <1>6, ResponseFits DEF s
  <2>2. reported' = reported /\ seq'[Sol(Outstation)] = (IF asked.fir THEN s ELSE NextSeq(s))
    <3>1. PICK next : Send(Sol(Outstation), next, g)
      BY <2>1
    <3>2. QED
      BY <2>1, <3>1, ChannelsDiffer DEF Send, history, IInv, TypeOK
  <2>3. Heard(reported, seq'[Sol(Outstation)], Q, Executed)
    <3>1. CASE asked.fir
      BY <1>4, <2>2, <3>1
    <3>2. CASE ~asked.fir
      <4>1. /\ asked.fc = "READ" /\ asked.req \notin Range(reported)
            /\ \A n \in Range(reported) : n <= asked.req
            /\ \A f \in Q : asked.req <= f.id
        BY <1>4, <2>1, <3>2 DEF Asked
      <4>2. /\ Range(reported) \subseteq Nat /\ asked.req \in Nat
            /\ \A f \in Q : f.id \in Nat
        BY <1>1, <1>3 DEF Range, Fragment
      <4>3. \A n \in Range(reported) : \A f \in Q : n <= f.id /\ n # f.id
        BY <4>1, <4>2
      <4>4. QED
        BY <1>4, <4>3 DEF Heard
    <3>3. QED
      BY <3>1, <3>2
  <2>4. Asked(asked', reported, Q)
    <3>1. CASE asked' = Nothing
      BY <1>4, <3>1
    <3>2. CASE asked' = [asked EXCEPT !.fir = FALSE] /\ asked.fc = "READ"
      <4>1. asked'.req = asked.req /\ asked'.fc = "READ"
        BY <1>1, <3>2
      <4>2. QED
        BY <1>4, <2>1, <3>2, <4>1 DEF Asked
    <3>3. QED
      BY <2>1, <3>1, <3>2
  <2>5. QED
    BY <2>2, <2>3, <2>4
<1>7. CASE RequestsLeft
  BY <1>4, <1>7 DEF RequestsLeft, s
<1>8. QED
  BY <1>5, <1>6, <1>7 DEF Tellers

---------------------------------------------------------------------------
(* The unsolicited responses that the master is told of, and what it confirms *)

\* The unsolicited response that the master reads, behind none that is older
LEMMA UnsolRead ==
  ASSUME IInv, Formed, Copies(Uns(Outstation)), OnUnsolResponse
  PROVE  LET f == Incoming(Master)
             k == Uns(Outstation) IN
         /\ f \in Pending(k) /\ Pending(k)' \subseteq Pending(k)
         /\ \A g \in Pending(k)' : Before(f, g)
         /\ f \in OnWay(Outstation) /\ f.fc = "UNSOLICITED" /\ f.id <= handed[k]
         /\ handed' = handed
         /\ seq'[Uns(Master)] = f.seq
         /\ \/ unsols' = unsols /\ f.seq = seq[Uns(Master)]
            \/ unsols' = Append(unsols, f.id) /\ f.seq # seq[Uns(Master)]
<1> DEFINE f == Incoming(Master)
           k == Uns(Outstation)
<1>1. /\ Outstation \in Stations /\ Master \in Stations /\ Other(Master) = Outstation
      /\ k[1] = Outstation /\ k[2] = "uns" /\ k \in Channels /\ Uns(Master) \in Channels
      /\ Master # Outstation
  BY AppAssumption, StationFacts, ChannelsDiffer, FormsOf DEF Other
<1>2. Receives(Master, {"UNSOLICITED"}) /\ f \in Fragment /\ f.fc = "UNSOLICITED"
  <2>1. Receives(Master, {"UNSOLICITED"})
    BY DEF OnUnsolResponse
  <2>2. QED
    BY <1>1, <2>1, ReceivesFacts DEF IInv
<1>3. wire[Outstation] # <<>> /\ f = Head(wire[Outstation]) /\ wire[Outstation] \in Seq(Fragment)
  BY <1>1, <1>2 DEF Receives, Incoming, IInv, TypeOK
<1>4. wire'[Outstation] = Tail(wire[Outstation]) /\ apdu' = apdu
  <2>1. QueueConfirm(f) /\ apdu' = apdu
    BY DEF OnUnsolResponse
  <2>2. QueueFrame(Master, Conf(f), Tail(wire[Outstation]))
    BY <1>1, <2>1 DEF QueueConfirm, Conf, Unread
  <2>3. Conf(f) \in Fragment /\ Tail(wire[Outstation]) \in Seq(Fragment)
    BY <1>2, <1>3, ConfFacts
  <2>4. QED
    BY <1>1, <2>1, <2>2, <2>3, QueueFrameFlow DEF IInv
<1>5. f \in OnWay(Outstation)
  BY <1>2, <1>3, RangeFacts DEF OnWay
<1>6. Kind(f) = "uns"
  <2>1. f.fc # "CONFIRM" /\ f.fc \in Forms(<<Outstation, f.ch>>)
    BY <1>1, <1>2, <1>5 DEF Formed, Fits
  <2>2. f.ch \in {"sol", "uns"} /\ Forms(Sol(Outstation)) = {"RESPONSE"}
    BY <1>2, FormsOf DEF Fragment
  <2>3. f.ch = "uns"
    BY <1>2, <2>1, <2>2 DEF Sol
  <2>4. QED
    BY <2>1, <2>3 DEF Kind
<1>7. /\ f \in Pending(k) /\ Pending(k)' \subseteq Pending(k)
      /\ \A g \in Pending(k)' : Before(f, g)
  BY <1>1, <1>3, <1>4, <1>6, HeadBefore
<1>8. f.id <= handed[k]
  BY <1>1, <1>5, <1>6 DEF Copies, Before
<1>9. seq'[Uns(Master)] = f.seq
  BY <1>1 DEF OnUnsolResponse, IInv, TypeOK
<1>10. QED
  BY <1>2, <1>5, <1>7, <1>8, <1>9 DEF OnUnsolResponse, IsNewUnsol

LEMMA UnsolsHeardNext ==
  ASSUME IInv, IInv', Formed, Shape, Tellers, UnsolsHeard,
         Copies(Uns(Outstation)), Copies(Uns(Outstation))'
  PROVE  UnsolsHeard'
<1> DEFINE k == Uns(Outstation)
           P == Pending(k)
           Q == Pending(k)'
           s == seq[Uns(Master)]
<1> SUFFICES ASSUME downs'[Master] = 0
             PROVE  Heard(unsols', seq'[Uns(Master)], Q, {"UNSOLICITED"})
  BY DEF UnsolsHeard
<1>1. Master \in Stations /\ k \in Channels /\ unsols \in Seq(Nat)
  BY StationFacts, ChannelsDiffer DEF IInv, TypeOK
<1>2. Heard(unsols, s, P, {"UNSOLICITED"})
  BY <1>1 DEF Tellers, UnsolsHeard
<1>3. /\ P \subseteq Fragment /\ apdu[k] \in P /\ apdu[k].id = handed[k]
      /\ Q \subseteq P \cup {f \in Fragment : f.id = handed[k] + 1}
  BY <1>1, PendingNext
<1> HIDE DEF P, Q, k, s
<1>4. CASE OnUnsolResponse
  <2> DEFINE f == Incoming(Master)
  <2>1. /\ f \in P /\ Q \subseteq P /\ \A g \in Q : Before(f, g)
        /\ seq'[Uns(Master)] = f.seq
        /\ \/ unsols' = unsols
           \/ unsols' = Append(unsols, f.id) /\ f.seq # s /\ f.fc \in {"UNSOLICITED"}
    BY <1>4, UnsolRead DEF P, Q, k, s
  <2> HIDE DEF f
  <2>2. Heard(unsols', f.seq, Q, {"UNSOLICITED"})
    BY <1>1, <1>2, <1>3, <2>1, HeardNext
  <2>3. QED
    BY <2>1, <2>2
<1>5. CASE UnsolsLeft
  <2>1. Q \subseteq P \cup {f \in Fragment : f.id = apdu[k].id + 1}
    BY <1>3
  <2>2. Heard(unsols, s, Q, {"UNSOLICITED"})
    BY <1>1, <1>2, <1>3, <2>1, HeardStill
  <2>3. QED
    BY <1>5, <2>2 DEF UnsolsLeft, s
<1>6. QED
  BY <1>4, <1>5 DEF Tellers

LEMMA SequenceOf ==
  ASSUME NEW n \in Nat
  PROVE  /\ SeqOf(n) \in 0..15 /\ SeqOf(1) = NextSeq(-1)
         /\ n > 0 => SeqOf(n + 1) = NextSeq(SeqOf(n))
BY DEF SeqOf, NextSeq

LEMMA GivenMore ==
  ASSUME NEW s, NEW a, NEW b, Range(a) \subseteq Range(b), Given(s, a)
  PROVE  Given(s, b)
BY DEF Given

\* The unsolicited responses that the master was told of are never taken back.
LEMMA UnsolsGrow ==
  ASSUME IInv, Formed, Copies(Uns(Outstation)), Tellers
  PROVE  /\ Range(unsols) \subseteq Range(unsols') /\ unsols \in Seq(Nat)
         /\ OnUnsolResponse /\ unsols' # unsols =>
              Range(unsols') = Range(unsols) \cup {Incoming(Master).id}
         /\ ~OnUnsolResponse => unsols' = unsols
<1>1. unsols \in Seq(Nat)
  BY DEF IInv, TypeOK
<1>2. CASE OnUnsolResponse
  <2> DEFINE f == Incoming(Master)
  <2>1. /\ f \in OnWay(Outstation) /\ OnWay(Outstation) \subseteq Fragment
        /\ unsols' = unsols \/ unsols' = Append(unsols, f.id)
    BY <1>2, UnsolRead, StationFacts, QueueTypes DEF IInv
  <2>2. f.id \in Nat
    BY <2>1 DEF Fragment
  <2>3. Range(Append(unsols, f.id)) = Range(unsols) \cup {f.id}
    <3>1. /\ DOMAIN Append(unsols, f.id) = DOMAIN unsols \cup {Len(unsols) + 1}
          /\ Append(unsols, f.id)[Len(unsols) + 1] = f.id
          /\ \A i \in DOMAIN unsols : Append(unsols, f.id)[i] = unsols[i]
      BY <1>1, <2>2
    <3>2. QED
      BY <3>1 DEF Range
  <2>4. QED
    BY <1>1, <1>2, <2>1, <2>3
<1>3. CASE ~OnUnsolResponse
  BY <1>1, <1>3 DEF Tellers, UnsolsLeft
<1>4. QED
  BY <1>2, <1>3

LEMMA NumberedNext ==
  ASSUME IInv, IInv', Formed, Formed', Shape, Tellers, Numbered, downs'[Outstation] = 0,
         Copies(Uns(Outstation)), Copies(Uns(Outstation))'
  PROVE  Numbered'
<1> DEFINE k == Uns(Outstation)
<1>1. /\ k \in Channels /\ k[1] = Outstation /\ Outstation \in Stations
      /\ handed \in [Channels -> Nat] /\ busy \in [Channels -> BOOLEAN]
      /\ apdu'[k] \in Fragment /\ seq \in [Channels -> -1..15]
  BY StationFacts, ChannelsDiffer DEF IInv, TypeOK
<1>2. /\ handed'[k] \in Nat /\ handed[k] \in Nat /\ handed[k] <= handed'[k]
      /\ handed'[k] = 0 => handed[k] = 0
  BY <1>1 DEF Shape, Kept, Fresh
<1>3. IF handed'[k] = 0 THEN seq'[k] = -1 /\ ~busy'[k]
                        ELSE seq'[k] = SeqOf(handed'[k]) /\ apdu'[k].seq = seq'[k]
  <2>1. CASE SendUnsolicited
    <3>1. PICK f \in Fragment : \E next :
            Send(k, next, f) /\ f.seq = NextSeq(seq[k])
      BY <2>1, UnsolicitedFits
    <3>2. /\ seq' = [seq EXCEPT ![k] = f.seq] /\ apdu' = [apdu EXCEPT ![k] = f]
          /\ handed' = [handed EXCEPT ![k] = handed[k] + 1]
      BY <3>1 DEF Send
    <3>3. seq'[k] = NextSeq(seq[k]) /\ apdu'[k].seq = seq'[k] /\ handed'[k] = handed[k] + 1
      BY <1>1, <3>1, <3>2 DEF IInv, TypeOK
    <3>4. NextSeq(seq[k]) = SeqOf(handed[k] + 1)
      <4>1. CASE handed[k] = 0
        BY <4>1, SequenceOf DEF Numbered
      <4>2. CASE handed[k] # 0
        <5>1. handed[k] > 0 /\ seq[k] = SeqOf(handed[k])
          BY <1>2, <4>2 DEF Numbered
        <5>2. QED
          BY <1>2, <5>1, SequenceOf
      <4>3. QED
        BY <4>1, <4>2
    <3>5. QED
      BY <1>2, <3>3, <3>4
  <2>2. CASE ~SendUnsolicited
    <3>1. seq'[k] = seq[k] /\ handed'[k] = handed[k]
      BY <2>2 DEF Tellers
    <3>2. Kept(k)
      BY <1>1, <1>2, <3>1 DEF Shape, Fresh
    <3>3. QED
      BY <3>1, <3>2 DEF Kept, Numbered
  <2>3. QED
    BY <2>1, <2>2
<1>4. ASSUME NEW f \in OnWay(Outstation)', f.fc = "UNSOLICITED"
      PROVE  f.seq = SeqOf(f.id) /\ f.id > 0
  <2>1. f \in OnWay(Outstation) \cup Sent(Outstation) \cup Acks(Outstation)
    <3>1. TypeOK /\ TypeOK' /\ Flow(Outstation, Sent(Outstation) \cup Acks(Outstation))
      BY <1>1 DEF Shape, IInv
    <3>2. OnWay(Outstation)' \subseteq OnWay(Outstation) \cup (Sent(Outstation) \cup Acks(Outstation))
      BY <1>1, <3>1, FlowFacts
    <3>3. QED
      BY <1>4, <3>2
  <2>2. CASE f \in OnWay(Outstation)
    BY <1>4, <2>2 DEF Numbered
  <2>3. CASE f \in Sent(Outstation)
    <3>1. PICK x \in Channels : x[1] = Outstation /\ busy'[x] /\ f = apdu'[x]
      BY <2>3 DEF Sent
    <3>2. f.fc \in Forms(x)
      BY <3>1 DEF Formed
    <3>3. x = Sol(Outstation) \/ x = k
      BY <3>1, ChannelFacts DEF Sol, Uns
    <3>4. x = k
      BY <1>4, <3>2, <3>3, FormsOf
    <3>5. f.seq = SeqOf(handed'[k]) /\ f.id = handed'[k] /\ handed'[k] # 0
      BY <1>3, <3>1, <3>4 DEF Copies
    <3>6. QED
      BY <1>2, <3>5
  <2>4. CASE f \in Acks(Outstation)
    BY <1>4, <2>4, AcksFacts
  <2>5. QED
    BY <2>1, <2>2, <2>3, <2>4
<1>5. ASSUME NEW n \in Range(unsols')
      PROVE  n \in 1 .. handed'[k]
  <2>1. CASE n \in Range(unsols)
    <3>1. n \in 1 .. handed[k]
      BY <2>1 DEF Numbered
    <3>2. QED
      BY <1>2, <3>1
  <2>2. CASE n \notin Range(unsols)
    <3>1. OnUnsolResponse /\ n = Incoming(Master).id
      BY <1>5, <2>2, UnsolsGrow
    <3>2. /\ Incoming(Master) \in OnWay(Outstation) /\ Incoming(Master).fc = "UNSOLICITED"
          /\ Incoming(Master).id <= handed[k]
      BY <3>1, UnsolRead
    <3>3. n > 0 /\ n \in Nat
      BY <1>1, <3>1, <3>2, QueueTypes DEF Numbered, IInv, Fragment
    <3>4. QED
      BY <1>2, <3>1, <3>2, <3>3
  <2>3. QED
    BY <2>1, <2>2
<1>6. QED
  BY <1>3, <1>4, <1>5 DEF Numbered

LEMMA ConfirmsNext ==
  ASSUME IInv, IInv', Formed, Shape, Tellers, Numbered, Confirms,
         Copies(Uns(Outstation)), Copies(Uns(Outstation))'
  PROVE  Confirms'
<1> DEFINE k == Uns(Outstation)
           g == Incoming(Master)
<1>1. /\ k \in Channels /\ k[1] = Outstation /\ Outstation \in Stations /\ Master \in Stations
      /\ handed[k] \in Nat /\ handed'[k] \in Nat /\ handed[k] <= handed'[k]
  <2>1. /\ k \in Channels /\ k[1] = Outstation /\ Outstation \in Stations /\ Master \in Stations
    BY StationFacts, ChannelsDiffer
  <2>2. handed[k] \in Nat /\ handed'[k] \in Nat
    BY <2>1 DEF IInv, TypeOK
  <2>3. handed[k] <= handed'[k]
    BY <2>1, <2>2 DEF Shape, Kept, Fresh
  <2>4. QED
    BY <2>1, <2>2, <2>3
<1>2. Range(unsols) \subseteq Range(unsols')
  BY UnsolsGrow
<1>3. ASSUME OnUnsolResponse
      PROVE  seq'[Uns(Master)] = g.seq /\ Given(g.seq, unsols')
  <2>1. /\ g \in OnWay(Outstation) /\ g.fc = "UNSOLICITED" /\ seq'[Uns(Master)] = g.seq
        /\ \/ unsols' = unsols /\ g.seq = seq[Uns(Master)]
           \/ unsols' = Append(unsols, g.id) /\ g.seq # seq[Uns(Master)]
    BY <1>3, UnsolRead
  <2>2. g \in Fragment /\ g.seq = SeqOf(g.id) /\ g.seq >= 0
    BY <1>1, <2>1, QueueTypes DEF Numbered, IInv, Fragment
  <2>3. CASE unsols' = unsols /\ g.seq = seq[Uns(Master)]
    BY <2>1, <2>2, <2>3 DEF Confirms
  <2>4. CASE unsols' # unsols
    <3>1. g.id \in Range(unsols')
      BY <1>3, <2>4, UnsolsGrow
    <3>2. QED
      BY <2>1, <2>2, <3>1 DEF Given
  <2>5. CASE unsols' = Append(unsols, g.id)
    <3>1. unsols \in Seq(Nat) /\ g.id \in Nat
      BY <2>2, UnsolsGrow DEF Fragment
    <3>2. unsols' # unsols
      <4>1. Len(unsols') = Len(unsols) + 1 /\ Len(unsols) \in Nat
        BY <2>5, <3>1
      <4>2. QED
        BY <4>1
    <3>3. QED
      BY <2>4, <3>2
  <2>6. QED
    BY <2>1, <2>3, <2>5
<1>4. seq'[Uns(Master)] >= 0 => Given(seq'[Uns(Master)], unsols')
  <2>1. CASE OnUnsolResponse
    BY <1>3, <2>1
  <2>2. CASE UnsolsLeft
    BY <2>2 DEF UnsolsLeft, Confirms
  <2>3. QED
    BY <2>1, <2>2 DEF Tellers
<1>5. ASSUME NEW f \in OnWay(Master)', f.fc = "CONFIRM", f.ch = "uns"
      PROVE  Given(f.seq, unsols')
  <2>1. f \in OnWay(Master) \cup Sent(Master) \cup Acks(Master)
    BY <1>1, <1>5, FlowFacts DEF Shape, IInv
  <2>2. CASE f \in OnWay(Master)
    BY <1>2, <1>5, <2>2, GivenMore DEF Confirms
  <2>3. CASE f \in Sent(Master)
    <3>1. PICK x \in Channels : x[1] = Master /\ busy'[x] /\ f = apdu'[x]
      BY <2>3 DEF Sent
    <3>2. Channel(x)' /\ x[2] # "confirm"
      BY ChannelFacts DEF IInv
    <3>3. QED
      BY <1>5, <3>1, <3>2 DEF Channel, Kind
  <2>4. CASE f \in Acks(Master)
    <3>1. /\ g \in Fragment /\ g \in Range(wire[Outstation]) /\ f.ch = g.ch /\ f.seq = g.seq
          /\ OnUnsolResponse \/ g.fc = "RESPONSE"
      BY <2>4, AcksFacts
    <3>2. g.fc # "RESPONSE"
      <4>1. g.fc = "CONFIRM" \/ g.fc \in Forms(<<Outstation, "uns">>)
        BY <1>1, <1>5, <3>1 DEF Formed, Fits, OnWay
      <4>2. QED
        BY <4>1, FormsOf DEF Uns
    <3>3. QED
      BY <1>3, <3>1, <3>2
  <2>5. QED
    BY <2>1, <2>2, <2>3, <2>4
<1>6. ASSUME NEW f \in confirmed', f.fc = "UNSOLICITED"
      PROVE  f.id \in 1 .. handed'[k] /\ Given(SeqOf(f.id), unsols')
  <2>1. CASE f \in confirmed
    <3>1. f.id \in 1 .. handed[k] /\ Given(SeqOf(f.id), unsols)
      BY <1>6, <2>1 DEF Confirms
    <3>2. QED
      BY <1>1, <1>2, <3>1, GivenMore
  <2>2. CASE f \notin confirmed
    <3> DEFINE h == Incoming(Outstation)
               x == <<Outstation, h.ch>>
    <3>1. OnConfirm
      BY <1>6, <2>2 DEF Tellers
    <3>2. IsMyConfirm(x, h) /\ f = apdu[x] /\ Receives(Outstation, {"CONFIRM"})
      BY <1>6, <2>2, <3>1 DEF OnConfirm
    <3>3. h \in Fragment /\ h.fc = "CONFIRM" /\ h \in Range(wire[Master])
      <4>1. h \in Fragment /\ h.fc = "CONFIRM"
        BY <1>1, <3>2, ReceivesFacts DEF IInv
      <4>2. wire[Master] # <<>> /\ h = Head(wire[Master]) /\ wire[Master] \in Seq(Fragment)
        BY <1>1, <3>2 DEF Receives, Incoming, IInv, TypeOK, Other, Stations
      <4>3. QED
        BY <4>1, <4>2, RangeFacts
    <3>4. x \in Channels /\ (h.ch = "uns" \/ x = Sol(Outstation))
      BY <1>1, <3>3, ChannelFacts DEF Fragment, Sol
    <3>5. busy[x]
      <4>1. Channel(x)
        BY <3>4 DEF IInv
      <4>2. QED
        BY <3>2, <4>1 DEF Channel, IsMyConfirm
    <3>6. f.fc \in Forms(x)
      BY <3>2, <3>4, <3>5 DEF Formed
    <3>7. x = k /\ h.ch = "uns"
      BY <1>6, <3>4, <3>6, FormsOf DEF Uns
    <3>8. Given(h.seq, unsols) /\ h.seq = seq[k]
      BY <3>2, <3>3, <3>7 DEF Confirms, OnWay, IsMyConfirm
    <3>9. /\ seq[k] = SeqOf(handed[k]) /\ handed[k] # 0 /\ f.id = handed[k]
      BY <3>2, <3>5, <3>7 DEF Numbered, Copies
    <3>10. Given(SeqOf(f.id), unsols')
      BY <1>2, <3>8, <3>9, GivenMore
    <3>11. f.id \in 1 .. handed'[k]
      BY <1>1, <3>9
    <3>12. QED
      BY <3>10, <3>11
  <2>3. QED
    BY <2>1, <2>2
<1>7. QED
  BY <1>4, <1>5, <1>6 DEF Confirms

---------------------------------------------------------------------------
(* The theorems about what users are told *)

LEMMA OrderInit == Init => JInv
<1> SUFFICES ASSUME Init PROVE JInv
  OBVIOUS
<1> DEFINE f0 == [fc |-> "READ", ch |-> "sol", seq |-> 0, fir |-> TRUE, fin |-> TRUE,
                  con |-> FALSE, id |-> 0, req |-> 0]
<1>1. /\ \A p \in Stations : wire[p] = <<>> /\ queue[p] = <<>>
      /\ \A k \in Channels : ~busy[k] /\ handed[k] = 0 /\ seq[k] = -1 /\ apdu[k] = f0
      /\ reported = <<>> /\ unsols = <<>> /\ confirmed = {} /\ asked = Nothing
  BY DEF Init
<1>2. f0.fc = "READ" /\ f0.ch = "sol" /\ f0.id = 0
  OBVIOUS
<1> HIDE DEF f0
<1>3. \A p \in Stations : OnWay(p) = {}
  BY <1>1, EmptyRange DEF OnWay
<1>4. Formed
  BY <1>1, <1>2, <1>3, ChannelsDiffer DEF Formed, Requests
<1>5. ASSUME NEW k \in Channels
      PROVE  Copies(k)
  <2>1. k[1] \in Stations /\ MaxHanded[k] \in Nat
    BY AppAssumption, ChannelFacts
  <2>2. InOrder(wire[k[1]], k[2])
    BY <1>1, <2>1 DEF InOrder
  <2>3. Range(queue[k[1]]) = {}
    BY <1>1, <2>1, EmptyRange
  <2>4. QED
    BY <1>1, <1>2, <1>3, <2>1, <2>2, <2>3 DEF Copies
<1>6. \A s, P, fcs : Heard(<<>>, s, P, fcs)
  BY EmptyRange DEF Heard, Increasing
<1>7. RequestsHeard /\ UnsolsHeard
  BY <1>1, <1>6, NothingAsked DEF RequestsHeard, UnsolsHeard
<1>8. UnsolsConfirmed
  BY <1>1, <1>3, EmptyRange, StationFacts, ChannelsDiffer DEF UnsolsConfirmed, Numbered, Confirms
<1>9. QED
  BY <1>4, <1>5, <1>7, <1>8 DEF JInv

LEMMA OrderNext == IInv /\ IInv' /\ JInv /\ [Next]_vars => JInv'
<1> SUFFICES ASSUME IInv, IInv', JInv, [Next]_vars PROVE JInv'
  OBVIOUS
<1>1. /\ Shape /\ Tellers /\ Formed /\ RequestsHeard /\ UnsolsHeard /\ UnsolsConfirmed
      /\ Outstation \in Stations
  BY StepShape, StepTellers, StationFacts DEF JInv
<1>2. Formed'
  BY <1>1, FormedNext
<1>3. \A k \in Channels : Copies(k) /\ Copies(k)'
  BY <1>1, <1>2, CopiesNext DEF JInv
<1>4. /\ Copies(Sol(Master)) /\ Copies(Sol(Master))'
      /\ Copies(Uns(Outstation)) /\ Copies(Uns(Outstation))'
  BY <1>3, ChannelsDiffer
<1>5. RequestsHeard'
  BY <1>1, <1>4, RequestsHeardNext
<1>6. UnsolsHeard'
  BY <1>1, <1>4, UnsolsHeardNext
<1>7. ASSUME downs'[Outstation] = 0
      PROVE  Numbered' /\ Confirms'
  <2>1. Numbered /\ Confirms
    BY <1>1, <1>7 DEF Tellers, UnsolsConfirmed
  <2>2. Numbered'
    BY <1>1, <1>2, <1>4, <1>7, <2>1, NumberedNext
  <2>3. Confirms'
    BY <1>1, <1>4, <2>1, ConfirmsNext
  <2>4. QED
    BY <2>2, <2>3
<1>8. UnsolsConfirmed'
  BY <1>7 DEF UnsolsConfirmed
<1>9. QED
  BY <1>2, <1>3, <1>5, <1>6, <1>8 DEF JInv

LEMMA OrderHolds == Spec => [](IInv /\ JInv)
<1>1. Init => IInv /\ JInv
  BY InitInv, OrderInit
<1>2. (IInv /\ JInv) /\ [Next]_vars => (IInv /\ JInv)'
  BY NextInv, OrderNext
<1>3. QED
  BY <1>1, <1>2, PTL DEF Spec

\* SolicitedChannel::OnRequest: the requests that the outstation executes are executed in the
\* order in which they were sent and none of them twice, whatever fragments are lost and
\* however often a request is repeated, while the outstation kept its lower layer.
THEOREM ReportedCorrect == Spec => []ReportedAtMostOnce
<1>1. IInv /\ JInv => ReportedAtMostOnce
  <2> SUFFICES ASSUME IInv, JInv, ~(downs[Outstation] > 0)
               PROVE  Increasing(reported)
    BY DEF ReportedAtMostOnce
  <2>1. downs[Outstation] = 0
    BY StationFacts DEF IInv, TypeOK
  <2>2. QED
    BY <2>1 DEF JInv, RequestsHeard, Heard
<1>2. QED
  BY <1>1, OrderHolds, PTL

\* UnsolicitedChannel::OnUnsol: the master's user is given the unsolicited responses in the
\* order in which they were sent and none of them twice, while the master kept its lower layer.
THEOREM UnsolOrderCorrect == Spec => []UnsolAtMostOnceInOrder
<1>1. IInv /\ JInv => UnsolAtMostOnceInOrder
  <2> SUFFICES ASSUME IInv, JInv, ~(downs[Master] > 0)
               PROVE  Increasing(unsols)
    BY DEF UnsolAtMostOnceInOrder
  <2>1. downs[Master] = 0
    BY StationFacts DEF IInv, TypeOK
  <2>2. QED
    BY <2>1 DEF JInv, UnsolsHeard, Heard
<1>2. QED
  BY <1>1, OrderHolds, PTL

\* An unsolicited response is told to be confirmed only when the master's user was given one
\* with its sequence.
ConfirmedInSequence ==
  \/ downs[Outstation] > 0
  \/ \A f \in confirmed : f.fc = "UNSOLICITED" =>
       f.id \in 1 .. handed[Uns(Outstation)] /\ Given(SeqOf(f.id), unsols)

LEMMA InSequence == IInv /\ JInv => ConfirmedInSequence
<1> SUFFICES ASSUME IInv, JInv, ~(downs[Outstation] > 0)
             PROVE  \A f \in confirmed : f.fc = "UNSOLICITED" =>
                      f.id \in 1 .. handed[Uns(Outstation)] /\ Given(SeqOf(f.id), unsols)
  BY DEF ConfirmedInSequence
<1>1. downs[Outstation] = 0
  BY StationFacts DEF IInv, TypeOK
<1>2. QED
  BY <1>1 DEF JInv, UnsolsConfirmed, Confirms

\* ACS_WaitForConfirm::OnConfirm compares four bits: whatever the number of unsolicited
\* responses, one is confirmed only when the master's user was given one with its sequence.
THEOREM UnsolSequenceCorrect == Spec => []ConfirmedInSequence
BY InSequence, OrderHolds, PTL

\* While the sequence does not return to a number used before, which is sixteen unsolicited
\* responses, the events of a confirmed one were given to the master's user, once and in order.
THEOREM UnsolHandledCorrect ==
  ASSUME MaxHanded[Uns(Outstation)] <= 16
  PROVE  Spec => []UnsolHandledOnce
<1>1. IInv /\ JInv => UnsolConfirmedMeansHandled
  <2> SUFFICES ASSUME IInv, JInv, ~(downs[Outstation] > 0),
                      NEW f \in confirmed, f.fc = "UNSOLICITED"
               PROVE  f.id \in Range(unsols)
    BY DEF UnsolConfirmedMeansHandled
  <2> DEFINE k == Uns(Outstation)
  <2>1. downs[Outstation] = 0
    BY StationFacts DEF IInv, TypeOK
  <2>2. /\ f.id \in 1 .. handed[k] /\ Given(SeqOf(f.id), unsols)
        /\ \A n \in Range(unsols) : n \in 1 .. handed[k]
    BY <2>1 DEF JInv, UnsolsConfirmed, Confirms, Numbered
  <2>3. PICK n \in Range(unsols) : SeqOf(n) = SeqOf(f.id)
    BY <2>2 DEF Given
  <2>4. handed[k] <= 16 /\ handed[k] \in Nat
    <3>1. k \in Channels /\ MaxHanded[k] \in Nat
      BY AppAssumption, ChannelsDiffer
    <3>2. handed[k] <= MaxHanded[k] /\ handed[k] \in Nat
      BY <3>1 DEF JInv, Copies, IInv, TypeOK
    <3>3. QED
      BY <3>1, <3>2
  <2>5. n \in 1 .. 16 /\ f.id \in 1 .. 16
    BY <2>2, <2>3, <2>4
  <2>6. n = f.id
    BY <2>3, <2>5 DEF SeqOf
  <2>7. QED
    BY <2>3, <2>6
<1>2. Spec => []UnsolConfirmedMeansHandled
  BY <1>1, OrderHolds, PTL
<1>3. QED
  BY <1>2, UnsolOrderCorrect, PTL DEF UnsolHandledOnce
=============================================================================
