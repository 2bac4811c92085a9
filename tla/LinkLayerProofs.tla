-------------------------- MODULE LinkLayerProofs --------------------------
(***************************************************************************)
(* Proofs about LinkLayer, for every value of its constants: its types,    *)
(* the link between timer, waiting state and user, that success means      *)
(* delivery, and delivery at most once and in order, from which it         *)
(* implements LinkService.                                                 *)
(*                                                                         *)
(* Two inductive invariants look at one direction of the line at a time    *)
(* and relate the frames on it to both ends: EInv, one question and one    *)
(* answer at a time, and IInv, the order of operations. Both are stated    *)
(* over the values of the state rather than over the variables, so that    *)
(* the lemmas on how they survive a frame being sent, lost or read are     *)
(* about sequences only.                                                   *)
(***************************************************************************)
EXTENDS LinkLayer, TLAPS

LEMMA OtherStation ==
  ASSUME NEW p \in Stations
  PROVE  Other(p) \in Stations /\ Other(p) # p /\ Other(Other(p)) = p
BY LinkAssumption DEF Stations, Other

LEMMA PutType ==
  ASSUME NEW q \in Seq(Frame), NEW p, NEW f \in Frame
  PROVE  Put(q, p, f) \in Seq(Frame)
BY DEF Put

LEMMA FrameTypes ==
  /\ \A fc \in Commands \cup Answers : Plain(fc) \in Frame
  /\ \A fc \in Commands \cup Answers, n \in Nat, b \in BOOLEAN : Numbered(fc, n, b) \in Frame
  /\ \A f \in Frame, b \in BOOLEAN : [f EXCEPT !.fcb = b] \in Frame
BY DEF Plain, Numbered, Frame

\* Reading and answering keep the line a sequence of frames.
LEMMA LineTypes ==
  ASSUME line \in [Stations -> Seq(Frame)], NEW p \in Stations, NEW f \in Frame
  PROVE  /\ Transmit(p, f) => line' \in [Stations -> Seq(Frame)]
         /\ line[Other(p)] # <<>> /\ Consume(p) => line' \in [Stations -> Seq(Frame)]
         /\ line[Other(p)] # <<>> /\ ConsumeAndTransmit(p, f) => line' \in [Stations -> Seq(Frame)]
         /\ line[Other(p)] # <<>> => Incoming(p) \in Frame
<1> DEFINE q == Other(p)
<1>1. q \in Stations /\ q # p /\ Put(line[p], p, f) \in Seq(Frame) /\ line[q] \in Seq(Frame)
  BY OtherStation, PutType
<1>2. line[q] # <<>> => Head(line[q]) \in Frame /\ Tail(line[q]) \in Seq(Frame)
  BY <1>1
<1> HIDE DEF q
<1>3. Transmit(p, f) => line' \in [Stations -> Seq(Frame)]
  BY <1>1 DEF Transmit
<1>4. line[q] # <<>> /\ line' = [line EXCEPT ![q] = Tail(@)] => line' \in [Stations -> Seq(Frame)]
  BY <1>1, <1>2
<1>5. line[q] # <<>> /\ line' = [line EXCEPT ![q] = Tail(@), ![p] = Put(@, p, f)]
        => line' \in [Stations -> Seq(Frame)]
  BY <1>1, <1>2
<1>6. QED
  BY <1>2, <1>3, <1>4, <1>5 DEF q, Consume, ConsumeAndTransmit, Incoming

---------------------------------------------------------------------------
(* Types. Every action keeps every variable in its set. *)

LEMMA InitType == Init => TypeOK
BY LinkAssumption, FrameTypes DEF Init, TypeOK, Waiting, Commands

LEMMA LowerLayerType ==
  ASSUME TypeOK, NEW p \in Stations, LowerLayer(p)
  PROVE  TypeOK'
<1>0. Other(p) \in Stations
  BY OtherStation
<1>1. CASE OnLowerLayerUp(p)
  BY <1>1 DEF OnLowerLayerUp, TypeOK, history, fcbVars
<1>2. CASE OnLowerLayerDown(p)
  BY <1>0, <1>2 DEF OnLowerLayerDown, StopWaiting, TypeOK, history, fcbVars
<1>3. CASE LoseFrame(p)
  <2>1. line' \in [Stations -> Seq(Frame)]
    BY <1>3 DEF LoseFrame, TypeOK
  <2>2. QED
    BY <1>3, <2>1 DEF LoseFrame, TypeOK, history, fcbVars
<1>4. QED
  BY <1>1, <1>2, <1>3 DEF LowerLayer

LEMMA SendingType ==
  ASSUME TypeOK, NEW p \in Stations, Sending(p)
  PROVE  TypeOK'
<1>1. NextId(p) \in Nat /\ writeFCB[p] \in BOOLEAN
  BY DEF TypeOK, NextId
<1>2. ASSUME NEW f \in Frame, Transmit(p, f)
      PROVE  line' \in [Stations -> Seq(Frame)]
  BY <1>2, LineTypes DEF TypeOK
<1>3. ASSUME NEW f \in Frame, NEW g \in Frame, NEW s \in Waiting,
             BeginConfirmed(p, s, f), Transmit(p, g)
      PROVE  TypeOK'
  BY <1>1, <1>2, <1>3, LinkAssumption DEF BeginConfirmed, TypeOK, fcbVars
<1>4. CASE SendUnconfirmed(p)
  <2>1. Numbered("UnconfirmedUserData", NextId(p), FALSE) \in Frame
    BY <1>1, FrameTypes DEF Commands
  <2>2. QED
    BY <1>1, <1>2, <1>4, <2>1 DEF SendUnconfirmed, TypeOK, fcbVars
<1>5. CASE SendConfirmedNotReset(p)
  <2>1. /\ Numbered("ConfirmedUserData", NextId(p), TRUE) \in Frame
        /\ Plain("ResetLinkStates") \in Frame /\ "ResetLinkWait" \in Waiting
    BY <1>1, FrameTypes DEF Commands, Waiting
  <2>2. QED
    BY <1>3, <1>5, <2>1 DEF SendConfirmedNotReset
<1>6. CASE SendConfirmedReset(p)
  <2>1. Numbered("ConfirmedUserData", NextId(p), writeFCB[p]) \in Frame /\ "ConfDataWait" \in Waiting
    BY <1>1, FrameTypes DEF Commands, Waiting
  <2>2. QED
    BY <1>3, <1>6, <2>1 DEF SendConfirmedReset
<1>7. CASE SendTestLinkStatus(p)
  <2>1. Numbered("TestLinkStatus", NextId(p), writeFCB[p]) \in Frame /\ "ConfDataWait" \in Waiting
    BY <1>1, FrameTypes DEF Commands, Waiting
  <2>2. QED
    BY <1>3, <1>7, <2>1 DEF SendTestLinkStatus
<1>8. CASE SendRequestLinkStatus(p)
  <2>1. Plain("RequestLinkStatus") \in Frame
    BY FrameTypes DEF Commands
  <2>2. QED
    BY <1>2, <1>8, <2>1 DEF SendRequestLinkStatus, TypeOK, history, fcbVars
<1>9. QED
  BY <1>4, <1>5, <1>6, <1>7, <1>8 DEF Sending

LEMMA PrimaryType ==
  ASSUME TypeOK, NEW p \in Stations, Primary(p)
  PROVE  TypeOK'
<1>0. Other(p) \in Stations /\ delayed[p] \in Frame /\ writeFCB[p] \in BOOLEAN
  BY OtherStation DEF TypeOK
<1>1. ASSUME NEW fc, Receives(p, fc), Consume(p)
      PROVE  line' \in [Stations -> Seq(Frame)]
  BY <1>0, <1>1, LineTypes DEF TypeOK, Receives
<1>2. GiveUp(p) => /\ timer' \in [Stations -> BOOLEAN]
                   /\ pri' \in [Stations -> {"SecNotReset", "SecReset"} \cup Waiting]
                   /\ busy' \in [Stations -> BOOLEAN]
  BY DEF GiveUp, TypeOK
<1>3. CASE AnswerNotUnderstood(p)
  BY <1>1, <1>3 DEF AnswerNotUnderstood, TypeOK, history, fcbVars
<1>4. CASE AckOfReset(p)
  <2>1. [delayed[p] EXCEPT !.fcb = TRUE] \in Frame
    BY <1>0, FrameTypes
  <2>2. line' \in [Stations -> Seq(Frame)]
    BY <1>4, <2>1, LineTypes DEF AckOfReset, Receives, TypeOK
  <2>3. delayed' \in [Stations -> Frame]
    BY <1>0, <1>4, <2>1 DEF AckOfReset, TypeOK
  <2>4. QED
    BY <1>4, <2>2, <2>3 DEF AckOfReset, TypeOK, history, Waiting
<1>5. CASE AckOfData(p)
  <2>1. confirmed' \in [Stations -> SUBSET Nat]
    BY <1>0, <1>5 DEF AckOfData, TypeOK, Frame
  <2>2. QED
    BY <1>1, <1>5, <2>1 DEF AckOfData, TypeOK
<1>6. CASE AnswerIsFailure(p)
  BY <1>1, <1>2, <1>6 DEF AnswerIsFailure, StopWaiting, TypeOK, fcbVars
<1>7. CASE OnTimeout(p)
  <2>1. late' \in [Stations -> BOOLEAN]
    BY <1>7 DEF OnTimeout, StopWaiting, TypeOK
  <2>2. Retry(p) => retry' \in [Stations -> 0..NumRetry]
    BY LinkAssumption DEF Retry, TypeOK
  <2>3. CASE Retry(p) /\ pri[p] = "ResetLinkWait"
    <3>1. Plain("ResetLinkStates") \in Frame
      BY FrameTypes DEF Commands
    <3>2. line' \in [Stations -> Seq(Frame)] /\ UNCHANGED <<delayed, timer, pri, busy>>
      BY <1>7, <2>3, <3>1, LineTypes DEF OnTimeout, Retry, TypeOK
    <3>3. QED
      BY <1>7, <2>1, <2>2, <2>3, <3>2 DEF OnTimeout, TypeOK, fcbVars
  <2>4. CASE Retry(p) /\ pri[p] # "ResetLinkWait"
    <3>1. [delayed[p] EXCEPT !.fcb = writeFCB[p]] \in Frame
      BY <1>0, FrameTypes
    <3>2. line' \in [Stations -> Seq(Frame)] /\ UNCHANGED <<timer, pri, busy>>
      <4>1. /\ Transmit(p, [delayed[p] EXCEPT !.fcb = writeFCB[p]])
            /\ UNCHANGED <<timer, pri, busy>>
        BY <1>7, <2>4 DEF OnTimeout, Retry
      <4>2. line \in [Stations -> Seq(Frame)]
        BY DEF TypeOK
      <4>3. QED
        BY <3>1, <4>1, <4>2, LineTypes
    <3>3. delayed' \in [Stations -> Frame]
      <4>1. delayed' = [delayed EXCEPT ![p] = [delayed[p] EXCEPT !.fcb = writeFCB[p]]]
        BY <1>7, <2>4 DEF OnTimeout, Retry
      <4>2. delayed \in [Stations -> Frame]
        BY DEF TypeOK
      <4>3. QED
        BY <3>1, <4>1, <4>2
    <3>4. QED
      BY <1>7, <2>1, <2>2, <2>4, <3>2, <3>3 DEF OnTimeout, TypeOK, fcbVars
  <2>5. CASE retry[p] = 0 /\ GiveUp(p) /\ UNCHANGED <<retry, delayed, line>>
    BY <1>2, <1>7, <2>1, <2>5 DEF OnTimeout, TypeOK, fcbVars
  <2>6. QED
    BY <1>7, <2>3, <2>4, <2>5 DEF OnTimeout
<1>8. QED
  BY <1>3, <1>4, <1>5, <1>6, <1>7 DEF Primary

LEMMA SecondaryType ==
  ASSUME TypeOK, NEW p \in Stations, Secondary(p)
  PROVE  TypeOK'
<1>1. ASSUME NEW fc, Receives(p, fc)
      PROVE  line[Other(p)] # <<>> /\ Incoming(p) \in Frame
  <2>1. Plain("Ack") \in Frame
    BY FrameTypes DEF Answers
  <2>2. QED
    BY <1>1, <2>1, LineTypes DEF TypeOK, Receives
<1>2. ASSUME NEW fc, Receives(p, fc), Consume(p)
      PROVE  line' \in [Stations -> Seq(Frame)]
  BY <1>1, <1>2, FrameTypes, LineTypes DEF TypeOK, Answers
<1>3. ASSUME NEW fc, Receives(p, fc), NEW a \in Answers, ConsumeAndTransmit(p, Plain(a))
      PROVE  line' \in [Stations -> Seq(Frame)]
  BY <1>1, <1>3, FrameTypes, LineTypes DEF TypeOK
<1>4. ASSUME NEW fc, Receives(p, fc), DataUp(p)
      PROVE  delivered' \in [Stations -> Seq(Nat)]
  <2>1. Incoming(p).id \in Nat /\ delivered[p] \in Seq(Nat)
    BY <1>1, <1>4 DEF Frame, TypeOK
  <2>2. QED
    BY <1>4, <2>1 DEF DataUp, TypeOK
<1>5. {"Ack", "Nack", "NotSupported", "LinkStatus"} \subseteq Answers
  BY DEF Answers
<1>6. CASE OnResetLinkStates(p)
  BY <1>3, <1>5, <1>6 DEF OnResetLinkStates, TypeOK, history
<1>7. CASE OnRequestLinkStatus(p)
  BY <1>3, <1>5, <1>7 DEF OnRequestLinkStatus, TypeOK, history, fcbVars
<1>8. CASE OnUnconfirmedUserData(p)
  BY <1>2, <1>4, <1>8 DEF OnUnconfirmedUserData, TypeOK, fcbVars
<1>9. CASE IgnoreNotReset(p)
  BY <1>2, <1>9 DEF IgnoreNotReset, TypeOK, history, fcbVars
<1>10. CASE OnTestLinkStatus(p)
  BY <1>2, <1>3, <1>5, <1>10 DEF OnTestLinkStatus, TypeOK, history
<1>11. CASE OnConfirmedUserData(p)
  BY <1>3, <1>4, <1>5, <1>11 DEF OnConfirmedUserData, TypeOK
<1>12. CASE Refuse(p)
  BY <1>3, <1>5, <1>12 DEF Refuse, TypeOK, history, fcbVars
<1>13. QED
  BY <1>6, <1>7, <1>8, <1>9, <1>10, <1>11, <1>12 DEF Secondary

LEMMA NextType == TypeOK /\ [Next]_vars => TypeOK'
<1>1. CASE UNCHANGED vars
  BY <1>1 DEF vars, TypeOK, history, fcbVars
<1>2. CASE Next
  BY <1>2, LowerLayerType, SendingType, PrimaryType, SecondaryType DEF Next
<1>3. QED
  BY <1>1, <1>2

\* Every reachable state of the two link layers is well typed: in particular Retry
\* never takes the retry counter below zero or above the configured number.
THEOREM TypeCorrect == Spec => []TypeOK
<1>1. QED
  BY InitType, NextType, PTL DEF Spec

---------------------------------------------------------------------------
(* The response timer *)

LEMMA NextTimer == TypeOK /\ TimerIffWaiting /\ [Next]_vars => TimerIffWaiting'
<1> SUFFICES ASSUME TypeOK, TimerIffWaiting, [Next]_vars
             PROVE  TimerIffWaiting'
  OBVIOUS
<1> USE DEF TimerIffWaiting, Waiting
<1>1. CASE UNCHANGED vars
  BY <1>1 DEF vars
<1>2. ASSUME NEW p \in Stations, LowerLayer(p)
      PROVE  TimerIffWaiting'
  <2>1. CASE OnLowerLayerUp(p)
    BY <2>1 DEF OnLowerLayerUp, TypeOK
  <2>2. CASE OnLowerLayerDown(p)
    BY <2>2 DEF OnLowerLayerDown, TypeOK
  <2>3. CASE LoseFrame(p)
    BY <2>3 DEF LoseFrame
  <2>4. QED
    BY <1>2, <2>1, <2>2, <2>3 DEF LowerLayer
<1>3. ASSUME NEW p \in Stations, Sending(p)
      PROVE  TimerIffWaiting'
  <2>1. ASSUME NEW s \in Waiting, NEW f, online[p], BeginConfirmed(p, s, f)
        PROVE  TimerIffWaiting'
    BY <2>1 DEF BeginConfirmed, TypeOK
  <2>2. CASE SendUnconfirmed(p)
    BY <2>2 DEF SendUnconfirmed
  <2>3. CASE SendConfirmedNotReset(p)
    BY <2>1, <2>3 DEF SendConfirmedNotReset, CanSend
  <2>4. CASE SendConfirmedReset(p) \/ SendTestLinkStatus(p)
    BY <2>1, <2>4 DEF SendConfirmedReset, SendTestLinkStatus, CanSend
  <2>5. CASE SendRequestLinkStatus(p)
    BY <2>5 DEF SendRequestLinkStatus
  <2>6. QED
    BY <1>3, <2>2, <2>3, <2>4, <2>5 DEF Sending
<1>4. ASSUME NEW p \in Stations, Primary(p)
      PROVE  TimerIffWaiting'
  <2>1. GiveUp(p) /\ UNCHANGED online => TimerIffWaiting'
    BY DEF GiveUp, TypeOK
  <2>2. CASE AnswerNotUnderstood(p)
    BY <2>2 DEF AnswerNotUnderstood
  <2>3. CASE AckOfReset(p)
    BY <2>3 DEF AckOfReset, TypeOK
  <2>4. CASE AckOfData(p)
    BY <2>4 DEF AckOfData, TypeOK
  <2>5. CASE AnswerIsFailure(p)
    BY <2>1, <2>5 DEF AnswerIsFailure
  <2>6. CASE OnTimeout(p)
    <3>1. UNCHANGED <<timer, pri, busy, online>> \/ (GiveUp(p) /\ UNCHANGED online)
      BY <2>6 DEF OnTimeout
    <3>2. QED
      BY <2>1, <3>1
  <2>7. QED
    BY <1>4, <2>2, <2>3, <2>4, <2>5, <2>6 DEF Primary
<1>5. ASSUME NEW p \in Stations, Secondary(p)
      PROVE  TimerIffWaiting'
  BY <1>5 DEF Secondary, OnResetLinkStates, OnRequestLinkStatus, OnUnconfirmedUserData, IgnoreNotReset,
     OnTestLinkStatus, OnConfirmedUserData, Refuse
<1>6. QED
  BY <1>1, <1>2, <1>3, <1>4, <1>5 DEF Next

\* The timer runs, and the user waits, exactly while the primary station is in a
\* waiting state: no assert of OnTimeout, StartTimer and CancelTimer can fail.
THEOREM TimerCorrect == Spec => []TimerIffWaiting
<1>1. Init => TimerIffWaiting
  BY DEF Init, TimerIffWaiting, Waiting
<1>2. QED
  BY <1>1, NextTimer, TypeCorrect, PTL DEF Spec

---------------------------------------------------------------------------
(* What an acknowledgement says                                            *)
(*                                                                         *)
(* The invariant is about one sender and its receiver, over the values of  *)
(* the state: the frames c on their way to the receiver and those on their *)
(* way back, a; the sender's state pr, delayed frame d and bit w; the      *)
(* receiver's state s, expected bit r and what its user was handed, dl.    *)

\* A frame that asks for an answer the sender waits for, and such an answer. The status of
\* the link is asked for without waiting.
IsAsking(f) == f.fc \in {"ResetLinkStates", "TestLinkStatus", "ConfirmedUserData"}
IsReply(f) == f.fc \in {"Ack", "Nack", "NotSupported"}

NoneAsks(c) == \A i \in DOMAIN c : ~IsAsking(c[i])
NoReply(a) == \A j \in DOMAIN a : ~IsReply(a[j])
Handed(dl, n) == \E i \in DOMAIN dl : dl[i] = n

\* One question or one answer is under way at most.
OneUnderWay(c, a) ==
  /\ \A i, j \in DOMAIN c : IsAsking(c[i]) /\ IsAsking(c[j]) => i = j
  /\ \A i, j \in DOMAIN a : IsReply(a[i]) /\ IsReply(a[j]) => i = j
  /\ NoneAsks(c) \/ NoReply(a)

\* A question under way is the one the sender waits for the answer to.
Asked(c, pr, d) ==
  \A i \in DOMAIN c : IsAsking(c[i]) =>
    IF c[i].fc = "ResetLinkStates" THEN pr = "ResetLinkWait" ELSE pr = "ConfDataWait" /\ c[i] = d

\* An acknowledgement under way says that the receiver was reset, or has taken the frame.
Answered(a, pr, d, w, s, r, dl) ==
  \A j \in DOMAIN a :
    /\ IsReply(a[j]) => pr \in Waiting
    /\ a[j].fc = "Ack" =>
         /\ pr = "ResetLinkWait" /\ s = "Reset" => r \in {TRUE}
         /\ pr = "ConfDataWait" /\ s = "Reset" => r # w
         /\ pr = "ConfDataWait" /\ d.fc = "ConfirmedUserData" => Handed(dl, d.id)

\* The bits of the two ends differ only while a frame is taken and not known to be.
InStep(pr, d, w, s, r, dl) ==
  /\ pr = "SecReset" /\ s = "Reset" => r = w
  /\ pr = "ConfDataWait" => d.fcb = w
  /\ pr = "ConfDataWait" /\ d.fc = "ConfirmedUserData" /\ s = "Reset" /\ r # w => Handed(dl, d.id)

Exchange(c, a, pr, d, w, s, r, dl) ==
  OneUnderWay(c, a) /\ Asked(c, pr, d) /\ Answered(a, pr, d, w, s, r, dl) /\ InStep(pr, d, w, s, r, dl)

\* It holds as long as the sender never gave up on an answer still under way.
ExchangeOf(p) ==
  late[p] \/ Exchange(line[p], line[Other(p)], pri[p], delayed[p], writeFCB[p],
                      sec[Other(p)], readFCB[Other(p)], delivered[Other(p)])

ConfirmedDelivered(p) ==
  late[p] \/ \A n \in confirmed[p] : Handed(delivered[Other(p)], n)

\* What is kept for retransmission is a frame that asks for an acknowledgement.
KeepsData(p) == delayed[p].fc \in {"ConfirmedUserData", "TestLinkStatus"}

EInv == \A p \in Stations : ExchangeOf(p) /\ ConfirmedDelivered(p) /\ KeepsData(p)

LEMMA TailPart ==
  ASSUME NEW c \in Seq(Frame), c # <<>>
  PROVE  /\ Tail(c) \in Seq(Frame) /\ Head(c) = c[1] /\ 1 \in DOMAIN c /\ Head(c) \in Frame
         /\ \A i \in DOMAIN Tail(c) : Tail(c)[i] = c[i + 1] /\ i + 1 \in DOMAIN c /\ i \in Nat /\ 1 # i + 1
OBVIOUS

\* What Put leaves on the line, seen from either end.
LEMMA PutPart ==
  ASSUME NEW q \in Seq(Frame), NEW p, NEW f \in Frame
  PROVE  /\ Put(q, p, f) \in Seq(Frame) /\ DOMAIN q \subseteq DOMAIN Put(q, p, f)
         /\ \A i \in DOMAIN q : Put(q, p, f)[i] = q[i]
         /\ \A i \in DOMAIN Put(q, p, f) : i \in DOMAIN q \/ (i = Len(q) + 1 /\ Put(q, p, f)[i] = f)
BY DEF Put

\* A frame to the receiver, or one from it, is read or lost.
LEMMA ExchangeTails ==
  ASSUME NEW c \in Seq(Frame), NEW a \in Seq(Frame), NEW pr, NEW d, NEW w, NEW s, NEW r, NEW dl,
         Exchange(c, a, pr, d, w, s, r, dl)
  PROVE  /\ c # <<>> => Exchange(Tail(c), a, pr, d, w, s, r, dl)
         /\ a # <<>> => Exchange(c, Tail(a), pr, d, w, s, r, dl)
<1>1. ASSUME c # <<>>
      PROVE  Exchange(Tail(c), a, pr, d, w, s, r, dl)
  <2> DEFINE t == Tail(c)
  <2>1. \A i \in DOMAIN t : t[i] = c[i + 1] /\ i + 1 \in DOMAIN c /\ i \in Nat
    BY <1>1, TailPart
  <2> HIDE DEF t
  <2>2. OneUnderWay(t, a)
    BY <2>1 DEF Exchange, OneUnderWay, NoneAsks
  <2>3. Asked(t, pr, d)
    BY <2>1 DEF Exchange, Asked
  <2>4. QED
    BY <2>2, <2>3 DEF Exchange, t
<1>2. ASSUME a # <<>>
      PROVE  Exchange(c, Tail(a), pr, d, w, s, r, dl)
  <2> DEFINE t == Tail(a)
  <2>1. \A i \in DOMAIN t : t[i] = a[i + 1] /\ i + 1 \in DOMAIN a /\ i \in Nat
    BY <1>2, TailPart
  <2> HIDE DEF t
  <2>2. OneUnderWay(c, t)
    BY <2>1 DEF Exchange, OneUnderWay, NoReply
  <2>3. Answered(t, pr, d, w, s, r, dl)
    BY <2>1 DEF Exchange, Answered
  <2>4. QED
    BY <2>2, <2>3 DEF Exchange, t
<1>3. QED
  BY <1>1, <1>2

\* A frame is sent that asks nothing, or comes back and answers nothing.
LEMMA ExchangePuts ==
  ASSUME NEW c \in Seq(Frame), NEW a \in Seq(Frame), NEW pr, NEW d, NEW w, NEW s, NEW r, NEW dl,
         Exchange(c, a, pr, d, w, s, r, dl), NEW q, NEW f \in Frame
  PROVE  /\ ~IsAsking(f) => Exchange(Put(c, q, f), a, pr, d, w, s, r, dl)
         /\ ~IsReply(f) => Exchange(c, Put(a, q, f), pr, d, w, s, r, dl)
<1>1. ASSUME ~IsAsking(f)
      PROVE  Exchange(Put(c, q, f), a, pr, d, w, s, r, dl)
  <2> DEFINE t == Put(c, q, f)
  <2>1. \A i \in DOMAIN t : IsAsking(t[i]) => i \in DOMAIN c /\ t[i] = c[i]
    BY <1>1, PutPart
  <2> HIDE DEF t
  <2>2. QED
    BY <2>1 DEF Exchange, OneUnderWay, NoneAsks, Asked, t
<1>2. ASSUME ~IsReply(f)
      PROVE  Exchange(c, Put(a, q, f), pr, d, w, s, r, dl)
  <2> DEFINE t == Put(a, q, f)
  <2>1. \A i \in DOMAIN t : IsReply(t[i]) => i \in DOMAIN a /\ t[i] = a[i]
    BY <1>2, PutPart
  <2> HIDE DEF t
  <2>2. OneUnderWay(c, t)
    BY <2>1 DEF Exchange, OneUnderWay, NoReply
  <2>3. Answered(t, pr, d, w, s, r, dl)
    BY <2>1 DEF Exchange, Answered, IsReply
  <2>4. QED
    BY <2>2, <2>3 DEF Exchange, t
<1>3. QED
  BY <1>1, <1>2

\* The receiver's user is handed something; or the receiver restarts.
LEMMA ExchangeReceiver ==
  ASSUME NEW c, NEW a, NEW pr, NEW d, NEW w, NEW s, NEW r, NEW dl \in Seq(Nat), NEW n \in Nat,
         Exchange(c, a, pr, d, w, s, r, dl)
  PROVE  /\ Exchange(c, a, pr, d, w, s, r, Append(dl, n))
         /\ Exchange(<<>>, a, pr, d, w, "NotReset", r, dl)
<1>1. \A k : Handed(dl, k) => Handed(Append(dl, n), k)
  BY DEF Handed
<1>2. Exchange(c, a, pr, d, w, s, r, Append(dl, n))
  BY <1>1 DEF Exchange, Answered, InStep
<1>3. Exchange(<<>>, a, pr, d, w, "NotReset", r, dl)
  <2>1. OneUnderWay(<<>>, a) /\ Asked(<<>>, pr, d)
    BY DEF Exchange, OneUnderWay, NoneAsks, Asked
  <2>2. Answered(a, pr, d, w, "NotReset", r, dl)
    BY DEF Exchange, Answered
  <2>3. QED
    BY <2>1, <2>2 DEF Exchange, InStep
<1>4. QED
  BY <1>2, <1>3

\* Nothing is under way: then all that matters is that the ends are in step.
LEMMA ExchangeQuiet ==
  ASSUME NEW c \in Seq(Frame), NEW a \in Seq(Frame), NEW pr, NEW d, NEW w, NEW s, NEW r, NEW dl,
         NoneAsks(c), NoReply(a), InStep(pr, d, w, s, r, dl)
  PROVE  Exchange(c, a, pr, d, w, s, r, dl)
BY DEF Exchange, OneUnderWay, NoneAsks, NoReply, Asked, Answered, IsReply

\* Then a question may be asked.
LEMMA ExchangeAsk ==
  ASSUME NEW c \in Seq(Frame), NEW a \in Seq(Frame), NEW pr, NEW d, NEW w, NEW s, NEW r, NEW dl,
         NoneAsks(c), NoReply(a), InStep(pr, d, w, s, r, dl), NEW q, NEW f \in Frame,
         \/ f.fc = "ResetLinkStates" /\ pr = "ResetLinkWait"
         \/ f = d /\ f.fc # "ResetLinkStates" /\ pr = "ConfDataWait"
  PROVE  Exchange(Put(c, q, f), a, pr, d, w, s, r, dl)
<1> DEFINE t == Put(c, q, f)
<1>1. \A i \in DOMAIN t : IsAsking(t[i]) => i = Len(c) + 1 /\ t[i] = f
  BY PutPart DEF NoneAsks
<1> HIDE DEF t
<1>2. OneUnderWay(t, a) /\ Asked(t, pr, d)
  BY <1>1 DEF OneUnderWay, Asked, NoReply
<1>3. QED
  BY <1>2 DEF Exchange, Answered, NoReply, IsReply, t

\* The receiver reads the question and nothing is under way any more, or it answers it.
LEMMA ExchangeAnswer ==
  ASSUME NEW c \in Seq(Frame), NEW a \in Seq(Frame), NEW pr, NEW d, NEW w, NEW s, NEW r, NEW dl,
         Exchange(c, a, pr, d, w, s, r, dl), c # <<>>, IsAsking(Head(c)),
         NEW s2, NEW r2, NEW dl2, InStep(pr, d, w, s2, r2, dl2)
  PROVE  /\ pr \in Waiting
         /\ Exchange(Tail(c), a, pr, d, w, s2, r2, dl2)
         /\ \A q : \A f \in Frame :
              /\ IsReply(f)
              /\ f.fc = "Ack" => /\ pr = "ResetLinkWait" /\ s2 = "Reset" => r2 \in {TRUE}
                                 /\ pr = "ConfDataWait" /\ s2 = "Reset" => r2 # w
                                 /\ pr = "ConfDataWait" /\ d.fc = "ConfirmedUserData"
                                      => Handed(dl2, d.id)
              => Exchange(Tail(c), Put(a, q, f), pr, d, w, s2, r2, dl2)
<1>1. /\ Tail(c) \in Seq(Frame) /\ Head(c) = c[1] /\ 1 \in DOMAIN c
      /\ \A i \in DOMAIN Tail(c) : Tail(c)[i] = c[i + 1] /\ i + 1 \in DOMAIN c /\ 1 # i + 1
  BY TailPart
<1>2. NoneAsks(Tail(c)) /\ NoReply(a)
  BY <1>1 DEF Exchange, OneUnderWay, NoneAsks
<1>3. pr \in Waiting
  BY <1>1 DEF Exchange, Asked, Waiting
<1>4. ASSUME NEW q, NEW f \in Frame, IsReply(f),
             f.fc = "Ack" => /\ pr = "ResetLinkWait" /\ s2 = "Reset" => r2 \in {TRUE}
                             /\ pr = "ConfDataWait" /\ s2 = "Reset" => r2 # w
                             /\ pr = "ConfDataWait" /\ d.fc = "ConfirmedUserData"
                                  => Handed(dl2, d.id)
      PROVE  Exchange(Tail(c), Put(a, q, f), pr, d, w, s2, r2, dl2)
  <2> DEFINE t == Put(a, q, f)
             u == Tail(c)
  <2>1. \A i \in DOMAIN t : IsReply(t[i]) => i = Len(a) + 1 /\ t[i] = f
    BY <1>2, PutPart DEF NoReply
  <2>2. NoneAsks(u)
    BY <1>2
  <2> HIDE DEF t, u
  <2>3. OneUnderWay(u, t) /\ Asked(u, pr, d)
    BY <2>1, <2>2 DEF OneUnderWay, Asked, NoneAsks
  <2>4. Answered(t, pr, d, w, s2, r2, dl2)
    BY <1>3, <1>4, <2>1 DEF Answered, IsReply
  <2>5. QED
    BY <2>3, <2>4 DEF Exchange, t, u
<1>5. QED
  BY <1>1, <1>2, <1>3, <1>4, ExchangeQuiet

\* The sender reads the answer: nothing is under way any more.
LEMMA ExchangeAnswered ==
  ASSUME NEW c \in Seq(Frame), NEW a \in Seq(Frame), NEW pr, NEW d, NEW w, NEW s, NEW r, NEW dl,
         Exchange(c, a, pr, d, w, s, r, dl), a # <<>>, Head(a).fc = "Ack"
  PROVE  /\ NoneAsks(c) /\ NoReply(Tail(a))
         /\ pr = "ResetLinkWait" /\ s = "Reset" => r \in {TRUE}
         /\ pr = "ConfDataWait" /\ s = "Reset" => r # w
         /\ pr = "ConfDataWait" /\ d.fc = "ConfirmedUserData" => Handed(dl, d.id)
<1>1. /\ Tail(a) \in Seq(Frame) /\ Head(a) = a[1] /\ 1 \in DOMAIN a
      /\ \A i \in DOMAIN Tail(a) : Tail(a)[i] = a[i + 1] /\ i + 1 \in DOMAIN a /\ 1 # i + 1
  BY TailPart
<1>2. IsReply(a[1])
  BY <1>1 DEF IsReply
<1>3. QED
  BY <1>1, <1>2 DEF Exchange, OneUnderWay, NoReply, Answered

\* A sender that waits for nothing has nothing under way.
LEMMA ExchangeIdle ==
  ASSUME NEW c, NEW a, NEW pr, NEW d, NEW w, NEW s, NEW r, NEW dl,
         Exchange(c, a, pr, d, w, s, r, dl), pr \notin Waiting
  PROVE  NoneAsks(c) /\ NoReply(a)
BY DEF Exchange, Asked, Answered, NoneAsks, NoReply, Waiting

\* The state of both directions, in the terms of the lemmas
LEMMA ExchangeTypes ==
  ASSUME TypeOK, NEW p \in Stations
  PROVE  /\ line[p] \in Seq(Frame) /\ line[Other(p)] \in Seq(Frame)
         /\ delivered[p] \in Seq(Nat) /\ delivered[Other(p)] \in Seq(Nat)
         /\ delayed[p] \in Frame /\ writeFCB[p] \in BOOLEAN /\ readFCB[p] \in BOOLEAN
         /\ sent[p] \in Nat /\ late \in [Stations -> BOOLEAN]
         /\ line \in [Stations -> Seq(Frame)]
BY OtherStation DEF TypeOK

LEMMA BothStations ==
  ASSUME NEW p \in Stations,
         ExchangeOf(p)', ExchangeOf(Other(p))', ConfirmedDelivered(p)', ConfirmedDelivered(Other(p))',
         KeepsData(p)', KeepsData(Other(p))'
  PROVE  EInv'
<1>1. \A q \in Stations : q = p \/ q = Other(p)
  BY DEF Stations, Other
<1>2. QED
  BY <1>1 DEF EInv

\* Who has not confirmed anything more still has all of it delivered.
LEMMA StillDelivered ==
  ASSUME TypeOK, NEW p \in Stations, ConfirmedDelivered(p),
         confirmed'[p] = confirmed[p], late[p] => late'[p],
         \/ delivered'[Other(p)] = delivered[Other(p)]
         \/ \E n \in Nat : delivered'[Other(p)] = Append(delivered[Other(p)], n)
  PROVE  ConfirmedDelivered(p)'
<1>1. delivered[Other(p)] \in Seq(Nat)
  BY ExchangeTypes
<1>2. \A k : Handed(delivered[Other(p)], k) => Handed(delivered'[Other(p)], k)
  BY <1>1 DEF Handed
<1>3. QED
  BY <1>2 DEF ConfirmedDelivered

LEMMA LowerLayerExchange ==
  ASSUME TypeOK, EInv, NEW p \in Stations, LowerLayer(p)
  PROVE  EInv'
<1> DEFINE q == Other(p)
<1>1. q \in Stations /\ q # p /\ Other(q) = p
  BY OtherStation
<1>2. /\ line[p] \in Seq(Frame) /\ line[q] \in Seq(Frame) /\ delivered[p] \in Seq(Nat)
      /\ line \in [Stations -> Seq(Frame)] /\ late \in [Stations -> BOOLEAN]
      /\ sec \in [Stations -> {"NotReset", "Reset"}]
      /\ pri \in [Stations -> {"SecNotReset", "SecReset"} \cup Waiting]
  BY ExchangeTypes DEF TypeOK
<1>3. /\ ExchangeOf(p) /\ ExchangeOf(q) /\ ConfirmedDelivered(p) /\ ConfirmedDelivered(q)
      /\ KeepsData(p) /\ KeepsData(q)
  BY <1>1 DEF EInv
<1>4. UNCHANGED <<delivered, confirmed>> /\ \A x \in Stations : late[x] => late'[x]
  BY <1>2 DEF LowerLayer, OnLowerLayerUp, OnLowerLayerDown, LoseFrame, StopWaiting, history
<1>5. ConfirmedDelivered(p)' /\ ConfirmedDelivered(q)' /\ KeepsData(p)' /\ KeepsData(q)'
  <2>1. UNCHANGED delayed
    BY DEF LowerLayer, OnLowerLayerUp, OnLowerLayerDown, LoseFrame
  <2>2. QED
    BY <1>1, <1>3, <1>4, <2>1, StillDelivered DEF KeepsData
<1>6. CASE OnLowerLayerUp(p)
  <2>1. ExchangeOf(p)' /\ ExchangeOf(q)'
    BY <1>3, <1>6 DEF OnLowerLayerUp, ExchangeOf, history, fcbVars, q
  <2>2. QED
    BY <1>5, <2>1, BothStations
<1>7. CASE OnLowerLayerDown(p)
  <2>1. /\ line'[q] = <<>> /\ line'[p] = line[p] /\ UNCHANGED <<delayed, readFCB, writeFCB, delivered>>
        /\ pri'[p] = "SecNotReset" /\ pri'[q] = pri[q] /\ sec'[p] = "NotReset" /\ sec'[q] = sec[q]
        /\ late'[q] = late[q] /\ late'[p] = (late[p] \/ AnswerOutstanding(p, <<>>))
    BY <1>1, <1>2, <1>7 DEF OnLowerLayerDown, StopWaiting, fcbVars
  <2>2. ExchangeOf(q)'
    BY <1>1, <1>2, <1>3, <2>1, ExchangeReceiver DEF ExchangeOf
  <2>3. ExchangeOf(p)'
    <3>1. CASE ~late'[p]
      <4>1. ~AnswerOutstanding(p, <<>>)
        BY <2>1, <3>1
      <4>2. NoneAsks(line[p]) /\ NoReply(<<>>) /\ <<>> \in Seq(Frame)
        BY <4>1 DEF AnswerOutstanding, NoneAsks, NoReply, IsAsking
      <4>3. InStep("SecNotReset", delayed[p], writeFCB[p], sec[q], readFCB[q], delivered[q])
        BY DEF InStep
      <4>4. Exchange(line[p], <<>>, "SecNotReset", delayed[p], writeFCB[p], sec[q], readFCB[q],
                     delivered[q])
        BY <1>2, <4>2, <4>3, ExchangeQuiet
      <4>5. QED
        BY <2>1, <4>4 DEF ExchangeOf
    <3>2. QED
      BY <3>1 DEF ExchangeOf
  <2>4. QED
    BY <1>5, <2>2, <2>3, BothStations
<1>8. CASE LoseFrame(p)
  <2>1. /\ line'[p] = Tail(line[p]) /\ line[p] # <<>> /\ line'[q] = line[q]
        /\ UNCHANGED <<pri, delayed, readFCB, writeFCB, sec, late, delivered>>
    BY <1>1, <1>2, <1>8 DEF LoseFrame, history, fcbVars
  <2>2. ExchangeOf(p)' /\ ExchangeOf(q)'
    BY <1>1, <1>2, <1>3, <2>1, ExchangeTails, ExchangeTypes DEF ExchangeOf
  <2>3. QED
    BY <1>5, <2>2, BothStations
<1>9. QED
  BY <1>6, <1>7, <1>8 DEF LowerLayer

LEMMA SendingExchange ==
  ASSUME TypeOK, EInv, NEW p \in Stations, Sending(p)
  PROVE  EInv'
<1> DEFINE q == Other(p)
<1>1. q \in Stations /\ q # p /\ Other(q) = p
  BY OtherStation
<1>2. /\ line[p] \in Seq(Frame) /\ line[q] \in Seq(Frame) /\ line \in [Stations -> Seq(Frame)]
      /\ delayed \in [Stations -> Frame] /\ NextId(p) \in Nat /\ writeFCB[p] \in BOOLEAN
      /\ pri \in [Stations -> {"SecNotReset", "SecReset"} \cup Waiting]
  BY ExchangeTypes DEF TypeOK, NextId
<1>3. /\ ExchangeOf(p) /\ ExchangeOf(q) /\ ConfirmedDelivered(p) /\ ConfirmedDelivered(q)
      /\ KeepsData(p) /\ KeepsData(q)
  BY <1>1 DEF EInv
<1>4. UNCHANGED <<delivered, confirmed, late, sec, readFCB, writeFCB>>
  BY DEF Sending, SendUnconfirmed, SendConfirmedNotReset, SendConfirmedReset, SendTestLinkStatus,
         SendRequestLinkStatus, BeginConfirmed, history, fcbVars
<1>5. ConfirmedDelivered(p)' /\ ConfirmedDelivered(q)'
  BY <1>1, <1>3, <1>4, StillDelivered
<1>6. ASSUME NEW f \in Frame, Transmit(p, f)
      PROVE  line'[p] = Put(line[p], p, f) /\ line'[q] = line[q]
  BY <1>1, <1>2, <1>6 DEF Transmit
<1>7. ASSUME NEW f \in Frame, Transmit(p, f), ~IsReply(f), pri'[q] = pri[q], delayed'[q] = delayed[q]
      PROVE  ExchangeOf(q)'
  <2>1. late[q] \/ Exchange(line[q], Put(line[p], p, f), pri[q], delayed[q], writeFCB[q], sec[p],
                            readFCB[p], delivered[p])
    BY <1>1, <1>2, <1>3, <1>7, ExchangePuts DEF ExchangeOf
  <2>2. QED
    BY <1>1, <1>4, <1>6, <1>7, <2>1 DEF ExchangeOf
<1>8. ASSUME NEW f \in Frame, Transmit(p, f), ~IsAsking(f), ~IsReply(f), UNCHANGED <<pri, delayed>>
      PROVE  EInv'
  <2>1. late[p] \/ Exchange(Put(line[p], p, f), line[q], pri[p], delayed[p], writeFCB[p], sec[q],
                            readFCB[q], delivered[q])
    BY <1>2, <1>3, <1>8, ExchangePuts DEF ExchangeOf
  <2>2. ExchangeOf(p)'
    BY <1>1, <1>4, <1>6, <1>8, <2>1 DEF ExchangeOf
  <2>3. KeepsData(p)' /\ KeepsData(q)'
    BY <1>3, <1>8 DEF KeepsData
  <2>4. QED
    BY <1>5, <1>7, <1>8, <2>2, <2>3, BothStations
<1>9. ASSUME NEW state, NEW g \in Frame, NEW f \in Frame, BeginConfirmed(p, state, g), Transmit(p, f),
             pri[p] \notin Waiting,
             ~late[p] => InStep(state, g, writeFCB[p], sec[q], readFCB[q], delivered[q]),
             \/ f.fc = "ResetLinkStates" /\ state = "ResetLinkWait"
             \/ f = g /\ f.fc # "ResetLinkStates" /\ state = "ConfDataWait",
             ~IsReply(f), g.fc \in {"ConfirmedUserData", "TestLinkStatus"}
      PROVE  EInv'
  <2>1. pri'[p] = state /\ delayed'[p] = g /\ pri'[q] = pri[q] /\ delayed'[q] = delayed[q]
    BY <1>1, <1>2, <1>9 DEF BeginConfirmed
  <2>0. KeepsData(p)' /\ KeepsData(q)'
    BY <1>3, <1>9, <2>1 DEF KeepsData
  <2>2. CASE ~late[p]
    <3>1. NoneAsks(line[p]) /\ NoReply(line[q])
      BY <1>2, <1>3, <1>9, <2>2, ExchangeIdle DEF ExchangeOf
    <3>2. Exchange(Put(line[p], p, f), line[q], state, g, writeFCB[p], sec[q], readFCB[q],
                   delivered[q])
      BY <1>2, <1>9, <2>2, <3>1, ExchangeAsk
    <3>3. ExchangeOf(p)'
      BY <1>1, <1>4, <1>6, <1>9, <2>1, <3>2 DEF ExchangeOf
    <3>4. QED
      BY <1>5, <1>7, <1>9, <2>0, <2>1, <3>3, BothStations
  <2>3. CASE late[p]
    BY <1>4, <1>5, <1>7, <1>9, <2>0, <2>1, <2>3, BothStations DEF ExchangeOf
  <2>4. QED
    BY <2>2, <2>3
<1>10. CASE SendUnconfirmed(p)
  <2>1. Numbered("UnconfirmedUserData", NextId(p), FALSE) \in Frame
    BY <1>2, FrameTypes DEF Commands
  <2>2. QED
    BY <1>8, <1>10, <2>1 DEF SendUnconfirmed, Numbered, IsAsking, IsReply
<1>11. CASE SendRequestLinkStatus(p)
  <2>1. Plain("RequestLinkStatus") \in Frame
    BY FrameTypes DEF Commands
  <2>2. QED
    BY <1>8, <1>11, <2>1 DEF SendRequestLinkStatus, Plain, IsAsking, IsReply
<1>12. CASE SendConfirmedNotReset(p)
  <2>1. Plain("ResetLinkStates") \in Frame /\ Numbered("ConfirmedUserData", NextId(p), TRUE) \in Frame
    BY <1>2, FrameTypes DEF Commands
  <2>2. InStep("ResetLinkWait", Numbered("ConfirmedUserData", NextId(p), TRUE), writeFCB[p], sec[q],
               readFCB[q], delivered[q])
    BY DEF InStep
  <2>3. QED
    BY <1>9, <1>12, <2>1, <2>2 DEF SendConfirmedNotReset, Plain, Numbered, IsReply, Waiting
<1>13. ASSUME NEW fc \in {"ConfirmedUserData", "TestLinkStatus"}, pri[p] = "SecReset",
              BeginConfirmed(p, "ConfDataWait", Numbered(fc, NextId(p), writeFCB[p])),
              Transmit(p, Numbered(fc, NextId(p), writeFCB[p]))
       PROVE  EInv'
  <2>1. Numbered(fc, NextId(p), writeFCB[p]) \in Frame
    BY <1>2, FrameTypes DEF Commands
  <2>2. ~late[p] => (sec[q] = "Reset" => readFCB[q] = writeFCB[p])
    BY <1>3, <1>13 DEF ExchangeOf, Exchange, InStep
  <2>3. ~late[p] => InStep("ConfDataWait", Numbered(fc, NextId(p), writeFCB[p]), writeFCB[p], sec[q],
                           readFCB[q], delivered[q])
    BY <2>2 DEF InStep, Numbered
  <2>4. QED
    BY <1>9, <1>13, <2>1, <2>3 DEF Numbered, IsReply, Waiting
<1>14. CASE SendConfirmedReset(p) \/ SendTestLinkStatus(p)
  BY <1>13, <1>14 DEF SendConfirmedReset, SendTestLinkStatus
<1>15. QED
  BY <1>10, <1>11, <1>12, <1>14 DEF Sending

LEMMA PrimaryExchange ==
  ASSUME TypeOK, EInv, NEW p \in Stations, Primary(p)
  PROVE  EInv'
<1> DEFINE q == Other(p)
<1>1. q \in Stations /\ q # p /\ Other(q) = p
  BY OtherStation
<1>2. /\ line[p] \in Seq(Frame) /\ line[q] \in Seq(Frame) /\ line \in [Stations -> Seq(Frame)]
      /\ delayed \in [Stations -> Frame] /\ delayed[p] \in Frame /\ writeFCB \in [Stations -> BOOLEAN]
      /\ readFCB \in [Stations -> BOOLEAN] /\ late \in [Stations -> BOOLEAN]
      /\ pri \in [Stations -> {"SecNotReset", "SecReset"} \cup Waiting]
      /\ confirmed \in [Stations -> SUBSET Nat]
  BY ExchangeTypes DEF TypeOK
<1>0. line[p] \in Seq(Frame) /\ line[q] \in Seq(Frame)
  BY <1>2
<1>3. /\ ExchangeOf(p) /\ ExchangeOf(q) /\ ConfirmedDelivered(p) /\ ConfirmedDelivered(q)
      /\ KeepsData(p) /\ KeepsData(q)
  BY <1>1 DEF EInv
<1>4. UNCHANGED <<delivered, sec, readFCB>> /\ \A x \in Stations : late[x] => late'[x]
  BY <1>2 DEF Primary, AnswerNotUnderstood, AckOfReset, AckOfData, AnswerIsFailure, OnTimeout,
              StopWaiting, history, fcbVars
<1>5. UNCHANGED confirmed => ConfirmedDelivered(p)' /\ ConfirmedDelivered(q)'
  BY <1>1, <1>3, <1>4, StillDelivered
\* What q sends its own questions over is as it was, or lost a frame to p, or got one.
<1>6. ASSUME UNCHANGED <<delivered, sec, readFCB>>, pri'[q] = pri[q], delayed'[q] = delayed[q],
             writeFCB'[q] = writeFCB[q], late'[q] = late[q],
             line'[q] = line[q] \/ (line[q] # <<>> /\ line'[q] = Tail(line[q])),
             \/ line'[p] = line[p]
             \/ \E f \in Frame : ~IsReply(f) /\ line'[p] = Put(line[p], p, f)
      PROVE  ExchangeOf(q)'
  <2>1. line'[q] \in Seq(Frame)
    BY <1>2, <1>6, TailPart
  <2>2. late[q] \/ Exchange(line'[q], line[p], pri[q], delayed[q], writeFCB[q], sec[p], readFCB[p],
                            delivered[p])
    BY <1>1, <1>2, <1>3, <1>6, ExchangeTails DEF ExchangeOf
  <2>3. late[q] \/ Exchange(line'[q], line'[p], pri[q], delayed[q], writeFCB[q], sec[p], readFCB[p],
                            delivered[p])
    BY <1>2, <1>6, <2>1, <2>2, ExchangePuts
  <2>4. QED
    BY <1>1, <1>6, <2>3 DEF ExchangeOf
<1>7. ASSUME UNCHANGED <<delivered, sec, readFCB>>, pri'[q] = pri[q], delayed'[q] = delayed[q],
             writeFCB'[q] = writeFCB[q], late'[q] = late[q],
             line'[q] = line[q] \/ (line[q] # <<>> /\ line'[q] = Tail(line[q])),
             \/ line'[p] = line[p]
             \/ \E f \in Frame : ~IsReply(f) /\ line'[p] = Put(line[p], p, f),
             ExchangeOf(p)', KeepsData(p)', ConfirmedDelivered(p)', confirmed'[q] = confirmed[q]
      PROVE  EInv'
  <2>1. KeepsData(q)'
    BY <1>3, <1>7 DEF KeepsData
  <2>2. ConfirmedDelivered(q)'
    BY <1>1, <1>3, <1>4, <1>7, StillDelivered
  <2>3. QED
    BY <1>6, <1>7, <2>1, <2>2, BothStations
<1>8. CASE AnswerNotUnderstood(p)
  <2>1. /\ line'[p] = line[p] /\ line[q] # <<>> /\ line'[q] = Tail(line[q])
        /\ UNCHANGED <<pri, delayed, writeFCB, readFCB, sec, late, delivered, confirmed>>
    BY <1>1, <1>2, <1>8 DEF AnswerNotUnderstood, Receives, Consume, history, fcbVars
  <2>2. ExchangeOf(p)' /\ KeepsData(p)'
    BY <1>0, <1>1, <1>3, <2>1, ExchangeTails DEF ExchangeOf, KeepsData
  <2>3. QED
    BY <1>5, <1>7, <2>1, <2>2
<1>9. CASE AckOfReset(p)
  <2> DEFINE g == [delayed[p] EXCEPT !.fcb = TRUE]
  <2>1. /\ line'[p] = Put(line[p], p, g) /\ line[q] # <<>> /\ line'[q] = Tail(line[q])
        /\ Head(line[q]).fc = "Ack" /\ pri[p] = "ResetLinkWait" /\ pri'[p] = "ConfDataWait"
        /\ delayed'[p] = g /\ writeFCB'[p] = TRUE
        /\ pri'[q] = pri[q] /\ delayed'[q] = delayed[q] /\ writeFCB'[q] = writeFCB[q]
        /\ UNCHANGED <<readFCB, sec, late, delivered, confirmed>>
    BY <1>1, <1>2, <1>9 DEF AckOfReset, Receives, Incoming, ConsumeAndTransmit, history
  <2>2. g \in Frame /\ g.fcb = TRUE /\ g.fc = delayed[p].fc /\ g.id = delayed[p].id
    BY <1>2 DEF Frame
  <2> HIDE DEF g
  <2>3. Tail(line[q]) \in Seq(Frame)
    BY <1>2, <2>1
  <2>4. ASSUME ~late[p]
        PROVE  ExchangeOf(p)'
    <3>1. NoneAsks(line[p]) /\ NoReply(Tail(line[q])) /\ (sec[q] = "Reset" => readFCB[q] = TRUE)
      <4>1. line[q] # <<>> /\ Head(line[q]).fc = "Ack" /\ pri[p] = "ResetLinkWait"
        BY <2>1
      <4>2. Exchange(line[p], line[q], pri[p], delayed[p], writeFCB[p], sec[q], readFCB[q],
                     delivered[q])
        BY <1>3, <2>4 DEF ExchangeOf
      <4>3. /\ NoneAsks(line[p]) /\ NoReply(Tail(line[q]))
            /\ pri[p] = "ResetLinkWait" /\ sec[q] = "Reset" => readFCB[q] \in {TRUE}
        BY <1>0, <4>1, <4>2, ExchangeAnswered
      <4>4. QED
        BY <4>1, <4>3
    <3>2. InStep("ConfDataWait", g, TRUE, sec[q], readFCB[q], delivered[q])
      BY <2>2, <3>1 DEF InStep
    <3>3. g.fc # "ResetLinkStates"
      BY <1>3, <2>2 DEF KeepsData
    <3>4. Exchange(Put(line[p], p, g), Tail(line[q]), "ConfDataWait", g, TRUE, sec[q], readFCB[q],
                   delivered[q])
      BY <1>0, <2>2, <2>3, <3>1, <3>2, <3>3, ExchangeAsk
    <3>5. QED
      BY <2>1, <3>4 DEF ExchangeOf
  <2>5. ExchangeOf(p)' /\ KeepsData(p)'
    BY <1>3, <2>1, <2>2, <2>4 DEF ExchangeOf, KeepsData
  <2>6. ~IsReply(g)
    BY <1>3, <2>2 DEF KeepsData, IsReply
  <2>7. QED
    BY <1>5, <1>7, <2>1, <2>2, <2>5, <2>6
<1>10. CASE AckOfData(p)
  <2>1. /\ line'[p] = line[p] /\ line[q] # <<>> /\ line'[q] = Tail(line[q])
        /\ Head(line[q]).fc = "Ack" /\ pri[p] = "ConfDataWait" /\ pri'[p] = "SecReset"
        /\ writeFCB'[p] = ~writeFCB[p] /\ pri'[q] = pri[q] /\ writeFCB'[q] = writeFCB[q]
        /\ confirmed'[q] = confirmed[q]
        /\ \A n \in confirmed'[p] :
             n \in confirmed[p] \/ (delayed[p].fc = "ConfirmedUserData" /\ n = delayed[p].id)
        /\ UNCHANGED <<readFCB, sec, late, delivered, delayed>>
    BY <1>1, <1>2, <1>10 DEF AckOfData, Receives, Incoming, Consume, history
  <2>2. ASSUME ~late[p]
        PROVE  ExchangeOf(p)' /\ ConfirmedDelivered(p)'
    <3>1. Exchange(line[p], line[q], "ConfDataWait", delayed[p], writeFCB[p], sec[q], readFCB[q],
                   delivered[q])
      BY <1>3, <2>1, <2>2 DEF ExchangeOf
    <3>2. /\ NoneAsks(line[p]) /\ NoReply(Tail(line[q])) /\ (sec[q] = "Reset" => readFCB[q] # writeFCB[p])
          /\ delayed[p].fc = "ConfirmedUserData" => Handed(delivered[q], delayed[p].id)
      <4>1. line[q] # <<>> /\ Head(line[q]).fc = "Ack"
        BY <2>1
      <4>2. QED
        BY <1>0, <3>1, <4>1, ExchangeAnswered
    <3>3. InStep("SecReset", delayed[p], ~writeFCB[p], sec[q], readFCB[q], delivered[q])
      <4>1. readFCB[q] \in BOOLEAN /\ writeFCB[p] \in BOOLEAN
        BY <1>1, <1>2
      <4>2. QED
        BY <3>2, <4>1 DEF InStep
    <3>4. Tail(line[q]) \in Seq(Frame)
      BY <1>0, <2>1
    <3>5. Exchange(line[p], Tail(line[q]), "SecReset", delayed[p], ~writeFCB[p], sec[q], readFCB[q],
                   delivered[q])
      BY <1>0, <3>2, <3>3, <3>4, ExchangeQuiet
    <3>6. ExchangeOf(p)'
      BY <2>1, <3>5 DEF ExchangeOf
    <3>7. ConfirmedDelivered(p)'
      BY <1>3, <2>1, <2>2, <3>2 DEF ConfirmedDelivered
    <3>8. QED
      BY <3>6, <3>7
  <2>3. ExchangeOf(p)' /\ ConfirmedDelivered(p)' /\ KeepsData(p)'
    BY <1>3, <2>1, <2>2 DEF ExchangeOf, ConfirmedDelivered, KeepsData
  <2>4. QED
    BY <1>7, <2>1, <2>3
\* Giving up with nothing under way leaves the exchange empty; otherwise it is late.
<1>11. ASSUME UNCHANGED <<delivered, sec, readFCB, writeFCB, delayed, confirmed>>, GiveUp(p),
              line'[p] = line[p], NEW a \in Seq(Frame), line'[q] = a, StopWaiting(p, a),
              line'[q] = line[q] \/ (line[q] # <<>> /\ line'[q] = Tail(line[q]))
       PROVE  EInv'
  <2>1. /\ pri'[p] = "SecNotReset" /\ pri'[q] = pri[q] /\ late'[q] = late[q]
        /\ late'[p] = (late[p] \/ AnswerOutstanding(p, a))
    BY <1>1, <1>2, <1>11 DEF GiveUp, StopWaiting
  <2>2. ASSUME ~late'[p]
        PROVE  ExchangeOf(p)'
    <3>1. ~AnswerOutstanding(p, a)
      BY <2>1, <2>2
    <3>2. NoneAsks(line[p]) /\ NoReply(a)
      BY <3>1 DEF AnswerOutstanding, NoneAsks, NoReply, IsAsking, IsReply, Answers
    <3>3. InStep("SecNotReset", delayed[p], writeFCB[p], sec[q], readFCB[q], delivered[q])
      BY DEF InStep
    <3>4. Exchange(line[p], a, "SecNotReset", delayed[p], writeFCB[p], sec[q], readFCB[q],
                   delivered[q])
      BY <1>0, <1>11, <3>2, <3>3, ExchangeQuiet
    <3>5. QED
      BY <1>11, <2>1, <3>4 DEF ExchangeOf
  <2>3. ExchangeOf(p)' /\ KeepsData(p)'
    BY <1>3, <1>11, <2>2 DEF ExchangeOf, KeepsData
  <2>4. QED
    BY <1>5, <1>7, <1>11, <2>1, <2>3
<1>12. CASE AnswerIsFailure(p)
  <2>1. line[q] # <<>> /\ line'[q] = Tail(line[q]) /\ line'[p] = line[p] /\ StopWaiting(p, Tail(line[q]))
    BY <1>1, <1>2, <1>12 DEF AnswerIsFailure, Receives, Consume
  <2>2. UNCHANGED <<delivered, sec, readFCB, writeFCB, delayed, confirmed>> /\ GiveUp(p)
    BY <1>12 DEF AnswerIsFailure, fcbVars
  <2>3. Tail(line[q]) \in Seq(Frame)
    BY <1>0, <2>1
  <2>4. QED
    BY <1>11, <2>1, <2>2, <2>3
<1>13. CASE OnTimeout(p)
  <2>1. UNCHANGED <<delivered, sec, readFCB, writeFCB, confirmed>> /\ StopWaiting(p, line[q])
    BY <1>13 DEF OnTimeout, fcbVars
  <2>2. CASE GiveUp(p) /\ UNCHANGED <<retry, delayed, line>>
    BY <1>0, <1>11, <2>1, <2>2
  <2>3. ASSUME NEW f \in Frame, Transmit(p, f), UNCHANGED pri, NEW g \in Frame,
               delayed' = [delayed EXCEPT ![p] = g], g.fc = delayed[p].fc, g.id = delayed[p].id,
               pri[p] = "ConfDataWait" => g.fcb = writeFCB[p],
               \/ f.fc = "ResetLinkStates" /\ pri[p] = "ResetLinkWait"
               \/ f = g /\ pri[p] = "ConfDataWait"
        PROVE  EInv'
    <3>1. /\ line'[p] = Put(line[p], p, f) /\ line'[q] = line[q]
          /\ delayed'[p] = g /\ delayed'[q] = delayed[q] /\ late'[q] = late[q]
          /\ late'[p] = (late[p] \/ AnswerOutstanding(p, line[q]))
      BY <1>1, <1>2, <2>1, <2>3 DEF Transmit, StopWaiting
    <3>2. g.fc # "ResetLinkStates" /\ KeepsData(p)' /\ ~IsReply(f)
      BY <1>3, <2>3, <3>1 DEF KeepsData, IsReply
    <3>3. ASSUME ~late'[p]
          PROVE  ExchangeOf(p)'
      <4>1. ~AnswerOutstanding(p, line[q]) /\ ~late[p]
        BY <3>1, <3>3
      <4>2. NoneAsks(line[p]) /\ NoReply(line[q])
        BY <4>1 DEF AnswerOutstanding, NoneAsks, NoReply, IsAsking, IsReply, Answers
      <4>3. InStep(pri[p], g, writeFCB[p], sec[q], readFCB[q], delivered[q])
        BY <1>3, <2>3, <4>1 DEF ExchangeOf, Exchange, InStep
      <4>4. Exchange(Put(line[p], p, f), line[q], pri[p], g, writeFCB[p], sec[q], readFCB[q],
                     delivered[q])
        BY <1>0, <2>3, <3>2, <4>2, <4>3, ExchangeAsk
      <4>5. QED
        BY <2>1, <2>3, <3>1, <4>4 DEF ExchangeOf
    <3>4. ExchangeOf(p)'
      BY <3>3 DEF ExchangeOf
    <3>5. QED
      BY <1>5, <1>7, <2>1, <2>3, <3>1, <3>2, <3>4
  <2>4. CASE Retry(p) /\ pri[p] = "ResetLinkWait"
    <3>1. Plain("ResetLinkStates") \in Frame /\ Plain("ResetLinkStates").fc = "ResetLinkStates"
      BY FrameTypes DEF Commands, Plain
    <3>2. Transmit(p, Plain("ResetLinkStates")) /\ UNCHANGED <<delayed, pri>>
      BY <1>13, <2>4 DEF OnTimeout, Retry
    <3>3. delayed' = [delayed EXCEPT ![p] = delayed[p]]
      BY <1>2, <3>2
    <3>4. QED
      BY <1>2, <2>3, <2>4, <3>1, <3>2, <3>3
  <2>5. CASE Retry(p) /\ pri[p] = "ConfDataWait"
    <3> DEFINE g == [delayed[p] EXCEPT !.fcb = writeFCB[p]]
    <3>1. Transmit(p, g) /\ delayed' = [delayed EXCEPT ![p] = g] /\ UNCHANGED pri
      BY <1>13, <2>5 DEF OnTimeout, Retry
    <3>2. g \in Frame /\ g.fc = delayed[p].fc /\ g.id = delayed[p].id /\ g.fcb = writeFCB[p]
      BY <1>2 DEF Frame
    <3> HIDE DEF g
    <3>3. QED
      BY <2>3, <2>5, <3>1, <3>2
  <2>6. QED
    BY <1>13, <2>2, <2>4, <2>5 DEF OnTimeout, Waiting
<1>14. QED
  BY <1>8, <1>9, <1>10, <1>12, <1>13 DEF Primary

LEMMA SecondaryExchange ==
  ASSUME TypeOK, EInv, NEW p \in Stations, Secondary(p)
  PROVE  EInv'
<1> DEFINE q == Other(p)
<1>1. q \in Stations /\ q # p /\ Other(q) = p
  BY OtherStation
<1>2. /\ line[p] \in Seq(Frame) /\ line[q] \in Seq(Frame) /\ line \in [Stations -> Seq(Frame)]
      /\ sec \in [Stations -> {"NotReset", "Reset"}]
      /\ delivered \in [Stations -> Seq(Nat)] /\ readFCB \in [Stations -> BOOLEAN]
  BY ExchangeTypes DEF TypeOK
<1>3. /\ ExchangeOf(p) /\ ExchangeOf(q) /\ ConfirmedDelivered(p) /\ ConfirmedDelivered(q)
      /\ KeepsData(p) /\ KeepsData(q)
  BY <1>1 DEF EInv
<1>0. line[p] \in Seq(Frame) /\ line[q] \in Seq(Frame) /\ delivered[p] \in Seq(Nat)
  BY <1>1, <1>2
\* What p receives with leaves its own sending alone, but for the answer that follows it.
<1>4. ASSUME UNCHANGED <<pri, delayed, writeFCB, confirmed, late>>,
             sec'[q] = sec[q], readFCB'[q] = readFCB[q], delivered'[q] = delivered[q],
             line[q] # <<>>, line'[q] = Tail(line[q]),
             \/ line'[p] = line[p]
             \/ \E f \in Frame : ~IsAsking(f) /\ line'[p] = Put(line[p], p, f),
             \/ delivered'[p] = delivered[p]
             \/ \E n \in Nat : delivered'[p] = Append(delivered[p], n),
             ~late[q] => Exchange(Tail(line[q]), line'[p], pri[q], delayed[q], writeFCB[q],
                                  sec'[p], readFCB'[p], delivered'[p])
      PROVE  EInv'
  <2>1. ExchangeOf(q)'
    BY <1>1, <1>4 DEF ExchangeOf
  <2>2. Tail(line[q]) \in Seq(Frame)
    BY <1>0, <1>4
  <2>3. late[p] \/ Exchange(line[p], Tail(line[q]), pri[p], delayed[p], writeFCB[p], sec[q],
                            readFCB[q], delivered[q])
    BY <1>0, <1>3, <1>4, ExchangeTails DEF ExchangeOf
  <2>4. late[p] \/ Exchange(line'[p], Tail(line[q]), pri[p], delayed[p], writeFCB[p], sec[q],
                            readFCB[q], delivered[q])
    BY <1>0, <1>4, <2>2, <2>3, ExchangePuts
  <2>5. ExchangeOf(p)'
    BY <1>4, <2>4 DEF ExchangeOf
  <2>6. ConfirmedDelivered(p)' /\ ConfirmedDelivered(q)'
    BY <1>1, <1>3, <1>4, StillDelivered
  <2>7. KeepsData(p)' /\ KeepsData(q)'
    BY <1>3, <1>4 DEF KeepsData
  <2>8. QED
    BY <2>1, <2>5, <2>6, <2>7, BothStations
\* The frame p reads, and the direction it came from
<1>5. ASSUME NEW fc, Receives(p, fc)
      PROVE  /\ line[q] # <<>> /\ Head(line[q]).fc = fc /\ Incoming(p) = Head(line[q])
             /\ Head(line[q]) \in Frame /\ Tail(line[q]) \in Seq(Frame)
  BY <1>0, <1>5, TailPart DEF Receives, Incoming
<1>6. Consume(p) => line'[q] = Tail(line[q]) /\ line'[p] = line[p]
  BY <1>1, <1>2 DEF Consume
<1>7. \A f : ConsumeAndTransmit(p, f) => line'[q] = Tail(line[q]) /\ line'[p] = Put(line[p], p, f)
  BY <1>1, <1>2 DEF ConsumeAndTransmit
<1>8. ~late[q] => Exchange(line[q], line[p], pri[q], delayed[q], writeFCB[q], sec[p], readFCB[p],
                           delivered[p])
  BY <1>1, <1>3 DEF ExchangeOf
<1>9. \A a \in {"Ack", "Nack", "NotSupported"} :
        Plain(a) \in Frame /\ IsReply(Plain(a)) /\ ~IsAsking(Plain(a)) /\ Plain(a).fc = a
  BY FrameTypes DEF Answers, Plain, IsReply, IsAsking
\* The question p reads, told apart by its code
<1>10. ASSUME NEW fc, Receives(p, fc), ~late[q], IsAsking(Head(line[q]))
       PROVE  /\ fc = "ResetLinkStates" => pri[q] = "ResetLinkWait"
              /\ fc # "ResetLinkStates" => /\ pri[q] = "ConfDataWait" /\ Head(line[q]) = delayed[q]
                                           /\ delayed[q].fcb = writeFCB[q]
  <2>1. 1 \in DOMAIN line[q] /\ Head(line[q]) = line[q][1] /\ line[q][1].fc = fc
    BY <1>0, <1>5, <1>10, TailPart
  <2>2. QED
    BY <1>8, <1>10, <2>1 DEF Exchange, Asked, InStep
<1>11. CASE OnResetLinkStates(p)
  <2>1. /\ Receives(p, "ResetLinkStates") /\ ConsumeAndTransmit(p, Plain("Ack"))
        /\ UNCHANGED <<pri, delayed, writeFCB, confirmed, late, delivered>>
        /\ sec'[p] = "Reset" /\ readFCB'[p] = TRUE /\ sec'[q] = sec[q] /\ readFCB'[q] = readFCB[q]
    BY <1>1, <1>2, <1>11 DEF OnResetLinkStates, history
  <2>2. ASSUME ~late[q]
        PROVE  Exchange(Tail(line[q]), Put(line[p], p, Plain("Ack")), pri[q], delayed[q], writeFCB[q],
                        "Reset", TRUE, delivered[p])
    <3>1. IsAsking(Head(line[q]))
      BY <1>5, <2>1 DEF IsAsking
    <3>2. pri[q] = "ResetLinkWait"
      BY <1>10, <2>1, <2>2, <3>1
    <3>3. InStep(pri[q], delayed[q], writeFCB[q], "Reset", TRUE, delivered[p])
      BY <3>2 DEF InStep
    <3>4. line[q] # <<>>
      BY <1>5, <2>1
    <3>5. QED
      BY <1>0, <1>8, <1>9, <2>2, <3>1, <3>2, <3>3, <3>4, ExchangeAnswer
  <2>3. QED
    BY <1>4, <1>5, <1>7, <1>9, <2>1, <2>2
<1>12. CASE OnRequestLinkStatus(p)
  <2>1. /\ Receives(p, "RequestLinkStatus") /\ ConsumeAndTransmit(p, Plain("LinkStatus"))
        /\ UNCHANGED <<pri, delayed, writeFCB, confirmed, late, delivered, sec, readFCB>>
    BY <1>12 DEF OnRequestLinkStatus, history, fcbVars
  <2>2. /\ Plain("LinkStatus") \in Frame /\ ~IsReply(Plain("LinkStatus"))
        /\ ~IsAsking(Plain("LinkStatus"))
    BY FrameTypes DEF Answers, Plain, IsReply, IsAsking
  <2>3. ~late[q] => Exchange(Tail(line[q]), line[p], pri[q], delayed[q], writeFCB[q], sec[p],
                             readFCB[p], delivered[p])
    BY <1>0, <1>5, <1>8, <2>1, ExchangeTails
  <2>4. ~late[q] => Exchange(Tail(line[q]), Put(line[p], p, Plain("LinkStatus")), pri[q], delayed[q],
                             writeFCB[q], sec[p], readFCB[p], delivered[p])
    BY <1>0, <1>5, <2>1, <2>2, <2>3, ExchangePuts
  <2>5. QED
    BY <1>4, <1>5, <1>7, <2>1, <2>2, <2>4
\* The frame is read and nothing answered.
<1>13. ASSUME NEW fc, Receives(p, fc), Consume(p),
              UNCHANGED <<pri, delayed, writeFCB, confirmed, late, sec, readFCB>>,
              delivered'[q] = delivered[q],
              \/ delivered'[p] = delivered[p]
              \/ \E n \in Nat : delivered'[p] = Append(delivered[p], n)
       PROVE  EInv'
  <2>1. ~late[q] => Exchange(Tail(line[q]), line[p], pri[q], delayed[q], writeFCB[q], sec[p],
                             readFCB[p], delivered[p])
    BY <1>0, <1>5, <1>8, <1>13, ExchangeTails
  <2>2. Tail(line[q]) \in Seq(Frame)
    BY <1>5, <1>13
  <2>3. ~late[q] => Exchange(Tail(line[q]), line[p], pri[q], delayed[q], writeFCB[q], sec[p],
                             readFCB[p], delivered'[p])
    BY <1>0, <1>13, <2>1, <2>2, ExchangeReceiver
  <2>4. QED
    BY <1>4, <1>5, <1>6, <1>13, <2>3
\* What is handed to the user of p
<1>14. ASSUME NEW fc, Receives(p, fc), DataUp(p)
       PROVE  /\ delivered'[q] = delivered[q] /\ Head(line[q]).id \in Nat
              /\ delivered'[p] = Append(delivered[p], Head(line[q]).id)
  BY <1>1, <1>2, <1>5, <1>14 DEF DataUp, Frame
<1>15. CASE OnUnconfirmedUserData(p)
  <2>1. /\ Receives(p, "UnconfirmedUserData") /\ Consume(p) /\ DataUp(p)
        /\ UNCHANGED <<pri, delayed, writeFCB, confirmed, late, sec, readFCB>>
    BY <1>15 DEF OnUnconfirmedUserData, fcbVars
  <2>2. QED
    BY <1>13, <1>14, <2>1
<1>16. CASE IgnoreNotReset(p)
  <2>1. /\ Consume(p) /\ UNCHANGED <<pri, delayed, writeFCB, confirmed, late, sec, readFCB, delivered>>
        /\ \E fc \in {"TestLinkStatus", "ConfirmedUserData"} : Receives(p, fc)
    BY <1>16 DEF IgnoreNotReset, history, fcbVars
  <2>2. QED
    BY <1>13, <2>1
\* The frame is taken, and answered.
<1>17. ASSUME NEW fc \in {"TestLinkStatus", "ConfirmedUserData"}, Receives(p, fc), sec[p] = "Reset",
              IsNext(p), readFCB' = [readFCB EXCEPT ![p] = ~@], ConsumeAndTransmit(p, Plain("Ack")),
              fc = "ConfirmedUserData" => DataUp(p), fc = "TestLinkStatus" => UNCHANGED delivered,
              UNCHANGED <<pri, delayed, writeFCB, confirmed, late, sec>>
       PROVE  EInv'
  <2>1. readFCB'[q] = readFCB[q] /\ readFCB'[p] = ~readFCB[p] /\ readFCB[p] \in BOOLEAN
    BY <1>1, <1>2, <1>17
  <2>2. /\ delivered'[q] = delivered[q]
        /\ \/ delivered'[p] = delivered[p]
           \/ \E n \in Nat : delivered'[p] = Append(delivered[p], n)
    BY <1>14, <1>17
  <2>3. fc = "ConfirmedUserData" => Handed(delivered'[p], Head(line[q]).id)
    BY <1>0, <1>14, <1>17 DEF Handed
  <2>4. ASSUME ~late[q]
        PROVE  Exchange(Tail(line[q]), Put(line[p], p, Plain("Ack")), pri[q], delayed[q], writeFCB[q],
                        sec[p], ~readFCB[p], delivered'[p])
    <3>1. IsAsking(Head(line[q])) /\ line[q] # <<>> /\ Head(line[q]).fc = fc
      BY <1>5, <1>17 DEF IsAsking
    <3>2. pri[q] = "ConfDataWait" /\ Head(line[q]) = delayed[q] /\ delayed[q].fcb = writeFCB[q]
      BY <1>10, <1>17, <2>4, <3>1
    <3>3. readFCB[p] = writeFCB[q]
      BY <1>5, <1>17, <3>2 DEF IsNext
    <3>4. delayed[q].fc = "ConfirmedUserData" => Handed(delivered'[p], delayed[q].id)
      BY <2>3, <3>1, <3>2
    <3>5. InStep(pri[q], delayed[q], writeFCB[q], sec[p], ~readFCB[p], delivered'[p])
      BY <3>2, <3>4 DEF InStep
    <3>6. ~readFCB[p] # writeFCB[q]
      BY <2>1, <3>3
    <3>7. QED
      BY <1>0, <1>8, <1>9, <2>4, <3>1, <3>2, <3>4, <3>5, <3>6, ExchangeAnswer
  <2>5. QED
    BY <1>4, <1>5, <1>7, <1>9, <1>17, <2>1, <2>2, <2>4
<1>18. CASE OnTestLinkStatus(p)
  <2>1. /\ Receives(p, "TestLinkStatus") /\ sec[p] = "Reset"
        /\ UNCHANGED <<pri, delayed, writeFCB, confirmed, late, sec, delivered>>
        /\ \/ /\ IsNext(p) /\ readFCB' = [readFCB EXCEPT ![p] = ~@]
              /\ ConsumeAndTransmit(p, Plain("Ack"))
           \/ Consume(p) /\ UNCHANGED readFCB
    BY <1>18 DEF OnTestLinkStatus, history
  <2>2. QED
    BY <1>13, <1>17, <2>1
<1>19. CASE OnConfirmedUserData(p)
  <2>1. /\ Receives(p, "ConfirmedUserData") /\ sec[p] = "Reset" /\ ConsumeAndTransmit(p, Plain("Ack"))
        /\ UNCHANGED <<pri, delayed, writeFCB, confirmed, late, sec>>
        /\ \/ /\ IsNext(p) /\ readFCB' = [readFCB EXCEPT ![p] = ~@] /\ DataUp(p)
           \/ ~IsNext(p) /\ UNCHANGED <<readFCB, delivered>>
    BY <1>19 DEF OnConfirmedUserData
  <2>2. CASE IsNext(p)
    BY <1>17, <2>1, <2>2
  <2>3. CASE ~IsNext(p)
    <3>1. UNCHANGED <<readFCB, delivered>>
      BY <2>1, <2>3
    <3>2. ASSUME ~late[q]
          PROVE  Exchange(Tail(line[q]), Put(line[p], p, Plain("Ack")), pri[q], delayed[q],
                          writeFCB[q], sec[p], readFCB[p], delivered[p])
      <4>1. /\ IsAsking(Head(line[q])) /\ line[q] # <<>>
            /\ Head(line[q]).fc = "ConfirmedUserData"
        BY <1>5, <2>1 DEF IsAsking
      <4>2. /\ pri[q] = "ConfDataWait" /\ Head(line[q]) = delayed[q]
            /\ delayed[q].fcb = writeFCB[q]
        BY <1>10, <2>1, <3>2, <4>1
      <4>3. readFCB[p] # writeFCB[q]
        BY <1>5, <2>1, <2>3, <4>2 DEF IsNext
      <4>4. InStep(pri[q], delayed[q], writeFCB[q], sec[p], readFCB[p], delivered[p])
        BY <1>8, <3>2 DEF Exchange
      <4>5. delayed[q].fc = "ConfirmedUserData" => Handed(delivered[p], delayed[q].id)
        BY <2>1, <4>2, <4>3, <4>4 DEF InStep
      <4>6. QED
        BY <1>0, <1>8, <1>9, <3>2, <4>1, <4>2, <4>3, <4>4, <4>5, ExchangeAnswer
    <3>3. QED
      BY <1>4, <1>5, <1>7, <1>9, <2>1, <3>1, <3>2
  <2>4. QED
    BY <2>2, <2>3
<1>20. CASE Refuse(p)
  <2>1. PICK a \in {"Nack", "NotSupported"} : ConsumeAndTransmit(p, Plain(a))
    BY <1>20 DEF Refuse
  <2>2. PICK fc \in {"ResetLinkStates", "TestLinkStatus", "ConfirmedUserData"} : Receives(p, fc)
    BY <1>20 DEF Refuse
  <2>3. UNCHANGED <<pri, delayed, writeFCB, confirmed, late, sec, readFCB, delivered>>
    BY <1>20 DEF Refuse, history, fcbVars
  <2>4. ASSUME ~late[q]
        PROVE  Exchange(Tail(line[q]), Put(line[p], p, Plain(a)), pri[q], delayed[q], writeFCB[q],
                        sec[p], readFCB[p], delivered[p])
    <3>1. IsAsking(Head(line[q])) /\ line[q] # <<>>
      BY <1>5, <2>2 DEF IsAsking
    <3>2. InStep(pri[q], delayed[q], writeFCB[q], sec[p], readFCB[p], delivered[p])
      BY <1>8, <2>4 DEF Exchange
    <3>3. Plain(a) \in Frame /\ IsReply(Plain(a)) /\ Plain(a).fc # "Ack"
      BY <1>9
    <3>4. QED
      BY <1>0, <1>8, <2>4, <3>1, <3>2, <3>3, ExchangeAnswer
  <2>5. QED
    BY <1>4, <1>5, <1>7, <1>9, <2>1, <2>2, <2>3, <2>4
<1>21. QED
  BY <1>11, <1>12, <1>15, <1>16, <1>18, <1>19, <1>20 DEF Secondary

LEMMA NextExchange == TypeOK /\ EInv /\ [Next]_vars => EInv'
<1>1. ASSUME EInv, UNCHANGED vars
      PROVE  EInv'
  BY <1>1 DEF vars, history, fcbVars, EInv, ExchangeOf, ConfirmedDelivered, KeepsData
<1>2. ASSUME TypeOK, EInv, Next
      PROVE  EInv'
  BY <1>2, LowerLayerExchange, SendingExchange, PrimaryExchange, SecondaryExchange DEF Next
<1>3. QED
  BY <1>1, <1>2

\* PLLS_ConfDataWait::Ack takes any acknowledgement for the one of its frame, and is right
\* to as long as the response timeout outlasts every answer: then a payload reported with
\* OnSendSuccess was handed to the other user, whatever was lost, repeated or restarted.
THEOREM SuccessCorrect == Spec => []SuccessMeansDelivered
<1>1. Init => EInv
  <2> SUFFICES ASSUME Init, NEW p \in Stations
               PROVE  ExchangeOf(p) /\ ConfirmedDelivered(p) /\ KeepsData(p)
    BY DEF EInv
  <2>1. Other(p) \in Stations
    BY OtherStation
  <2>2. /\ line[p] = <<>> /\ line[Other(p)] = <<>> /\ pri[p] = "SecNotReset" /\ confirmed[p] = {}
        /\ delayed[p] = Plain("ConfirmedUserData")
    BY <2>1 DEF Init
  <2>3. ConfirmedDelivered(p) /\ KeepsData(p)
    BY <2>2 DEF ConfirmedDelivered, KeepsData, Plain
  <2>4. Exchange(<<>>, <<>>, "SecNotReset", delayed[p], writeFCB[p], sec[Other(p)],
                 readFCB[Other(p)], delivered[Other(p)])
    BY DEF Exchange, OneUnderWay, NoneAsks, Asked, Answered, InStep
  <2>5. QED
    BY <2>2, <2>3, <2>4 DEF ExchangeOf
<1>2. EInv => SuccessMeansDelivered
  BY DEF EInv, ConfirmedDelivered, Handed, SuccessMeansDelivered
<1>3. QED
  BY <1>1, <1>2, NextExchange, TypeCorrect, PTL DEF Spec

---------------------------------------------------------------------------
(* LinkLayer implements LinkService: delivery at most once and in order. *)

\* A frame that carries an operation, and one whose repetition has to be recognised.
Carries(f) == f.fc \in {"ConfirmedUserData", "UnconfirmedUserData", "TestLinkStatus"}
IsReset(f) == f.fc = "ResetLinkStates"

(* The frames c on their way to a receiver that was last handed operation l, of n in all. *)

\* They carry operations that are not older than l, and l only as its repetition.
InWindow(c, l, n) ==
  \A i \in DOMAIN c : Carries(c[i]) =>
    /\ 0 < c[i].id /\ l <= c[i].id /\ c[i].id <= n
    /\ c[i].fc # "ConfirmedUserData" => l < c[i].id

\* They are in order, and the copies of one operation are equal, with no reset between them.
Ordered(c) ==
  \A i, j \in DOMAIN c : i < j /\ Carries(c[i]) /\ Carries(c[j]) =>
    /\ c[i].id <= c[j].id
    /\ c[i].id = c[j].id =>
         /\ c[i] = c[j] /\ c[i].fc # "UnconfirmedUserData"
         /\ \A k \in DOMAIN c : i < k /\ k < j => ~IsReset(c[k])

\* A copy of operation l is told from the next one by its bit r, and stays so.
Repetition(c, l, s, r) ==
  \A i \in DOMAIN c : c[i].fc = "ConfirmedUserData" /\ c[i].id = l =>
    /\ s = "Reset" => c[i].fcb # r
    /\ \A k \in DOMAIN c : k < i => ~IsReset(c[k])

\* A sender in state pr with the frame d delayed and bit w: operation n is outstanding,
\* not sent yet while the link is reset, and afterwards sent as d only, with no reset since.
Outstanding(c, l, n, pr, d, w, s, r) ==
  /\ pr \in Waiting => 0 < n /\ d.id = n /\ d.fc \in {"ConfirmedUserData", "TestLinkStatus"}
  /\ pr = "ResetLinkWait" => l < n /\ \A i \in DOMAIN c : Carries(c[i]) => c[i].id < n
  /\ pr = "ConfDataWait" =>
       /\ d.fcb = w
       /\ \A i \in DOMAIN c : Carries(c[i]) /\ c[i].id = n =>
            c[i] = d /\ \A k \in DOMAIN c : i < k => ~IsReset(c[k])
       /\ l = n => /\ d.fc = "ConfirmedUserData"
                   /\ \A k \in DOMAIN c : ~IsReset(c[k])
                   /\ s = "Reset" => r # w

Direction(c, l, n, pr, d, w, s, r) ==
  /\ l <= n
  /\ InWindow(c, l, n)
  /\ Ordered(c)
  /\ Repetition(c, l, s, r)
  /\ Outstanding(c, l, n, pr, d, w, s, r)

Last(p) == Service!LastOf(delivered[p])

DirectionOf(p) ==
  Direction(line[p], Last(Other(p)), sent[p], pri[p], delayed[p], writeFCB[p],
            sec[Other(p)], readFCB[Other(p)])

\* What a user has received is increasing.
Increasing(s) == \A i, j \in DOMAIN s : i < j => s[i] < s[j]

IInv == \A p \in Stations : DirectionOf(p) /\ Increasing(delivered[p])

---------------------------------------------------------------------------
(* The receiving end *)

LEMMA TailFacts ==
  ASSUME NEW c \in Seq(Frame), c # <<>>
  PROVE  /\ Tail(c) \in Seq(Frame) /\ Head(c) = c[1] /\ 1 \in DOMAIN c /\ Head(c) \in Frame
         /\ \A i \in DOMAIN Tail(c) : Tail(c)[i] = c[i + 1] /\ i + 1 \in DOMAIN c /\ i \in Nat /\ 1 < i + 1
OBVIOUS

\* The frames behind the first one still make a direction.
LEMMA TailDirection ==
  ASSUME NEW c \in Seq(Frame), c # <<>>, NEW l \in Nat, NEW n \in Nat, NEW pr, NEW d \in Frame,
         NEW w, NEW s, NEW r,
         Direction(c, l, n, pr, d, w, s, r)
  PROVE  Direction(Tail(c), l, n, pr, d, w, s, r)
<1> DEFINE t == Tail(c)
<1>1. \A i \in DOMAIN t : t[i] = c[i + 1] /\ i + 1 \in DOMAIN c /\ i \in Nat
  BY TailFacts
<1> HIDE DEF t
<1>2. InWindow(t, l, n)
  BY <1>1 DEF Direction, InWindow
<1>3. Ordered(t)
  <2> SUFFICES ASSUME NEW i \in DOMAIN t, NEW j \in DOMAIN t, i < j, Carries(t[i]), Carries(t[j])
               PROVE  /\ t[i].id <= t[j].id
                      /\ t[i].id = t[j].id =>
                           /\ t[i] = t[j] /\ t[i].fc # "UnconfirmedUserData"
                           /\ \A k \in DOMAIN t : i < k /\ k < j => ~IsReset(t[k])
    BY DEF Ordered
  <2>1. i + 1 < j + 1 /\ \A k \in DOMAIN t : i < k /\ k < j => i + 1 < k + 1 /\ k + 1 < j + 1
    BY <1>1
  <2>2. QED
    BY <1>1, <2>1 DEF Direction, Ordered
<1>4. Repetition(t, l, s, r)
  <2>1. \A i, k \in DOMAIN t : k < i => k + 1 < i + 1
    BY <1>1
  <2>2. QED
    BY <1>1, <2>1 DEF Direction, Repetition
<1>5. Outstanding(t, l, n, pr, d, w, s, r)
  <2>1. \A i, k \in DOMAIN t : i < k => i + 1 < k + 1
    BY <1>1
  <2>2. QED
    BY <1>1, <2>1 DEF Direction, Outstanding
<1>6. QED
  BY <1>2, <1>3, <1>4, <1>5 DEF Direction, t

\* The receiver restarts: the line is empty and its secondary station not reset.
LEMMA ClearDirection ==
  ASSUME NEW c, NEW l \in Nat, NEW n \in Nat, NEW pr, NEW d, NEW w, NEW s, NEW r,
         Direction(c, l, n, pr, d, w, s, r)
  PROVE  Direction(<<>>, l, n, pr, d, w, "NotReset", r)
BY DEF Direction, InWindow, Ordered, Repetition, Outstanding

\* The receiver reads a reset: no copy of the last operation is behind it.
LEMMA ResetDirection ==
  ASSUME NEW c \in Seq(Frame), c # <<>>, NEW l \in Nat, NEW n \in Nat, NEW pr, NEW d \in Frame,
         NEW w, NEW s, NEW r,
         Direction(c, l, n, pr, d, w, s, r), IsReset(Head(c)), NEW s2, NEW r2
  PROVE  Direction(Tail(c), l, n, pr, d, w, s2, r2)
<1> DEFINE t == Tail(c)
<1>1. Direction(t, l, n, pr, d, w, s, r)
  BY TailDirection
<1>2. \A i \in DOMAIN t : t[i] = c[i + 1] /\ i + 1 \in DOMAIN c /\ 1 < i + 1
  BY TailFacts
<1>3. 1 \in DOMAIN c /\ IsReset(c[1])
  BY TailFacts
<1> HIDE DEF t
<1>4. \A i \in DOMAIN t : ~(t[i].fc = "ConfirmedUserData" /\ t[i].id = l)
  BY <1>2, <1>3 DEF Direction, Repetition
<1>5. ~(pr = "ConfDataWait" /\ l = n)
  BY <1>3 DEF Direction, Outstanding
<1>6. QED
  BY <1>1, <1>4, <1>5 DEF Direction, Repetition, Outstanding, t

\* Confirmed data with the bit the receiver expects is new.
LEMMA AcceptIsNewer ==
  ASSUME NEW c \in Seq(Frame), c # <<>>, NEW l \in Nat, NEW n \in Nat, NEW pr, NEW d, NEW w, NEW s, NEW r,
         s = "Reset", Direction(c, l, n, pr, d, w, s, r),
         Head(c).fc = "ConfirmedUserData", Head(c).fcb = r
  PROVE  l < Head(c).id /\ Head(c).id <= n
<1>1. 1 \in DOMAIN c /\ c[1] = Head(c) /\ c[1] \in Frame /\ Carries(c[1])
  BY TailFacts DEF Carries
<1>2. c[1].id # l
  BY <1>1 DEF Direction, Repetition
<1>3. QED
  BY <1>1, <1>2 DEF Direction, InWindow, Frame

\* The receiver accepts confirmed data: its copies are repetitions from now on.
LEMMA AcceptDirection ==
  ASSUME NEW c \in Seq(Frame), c # <<>>, NEW l \in Nat, NEW n \in Nat, NEW pr, NEW d \in Frame,
         NEW w, NEW s, NEW r, s = "Reset",
         Direction(c, l, n, pr, d, w, s, r),
         Head(c).fc = "ConfirmedUserData", Head(c).fcb = r, NEW r2, r2 # r
  PROVE  Direction(Tail(c), Head(c).id, n, pr, d, w, s, r2)
<1> DEFINE t == Tail(c)  h == c[1]
<1>1. Direction(t, l, n, pr, d, w, s, r)
  BY TailDirection
<1>2. \A i \in DOMAIN t : t[i] = c[i + 1] /\ i + 1 \in DOMAIN c /\ i \in Nat /\ 1 < i + 1
  BY TailFacts
<1>3. 1 \in DOMAIN c /\ h = Head(c) /\ h \in Frame /\ Carries(h)
  BY TailFacts DEF Carries
<1> HIDE DEF t
<1>4. l < h.id /\ h.id <= n
  BY <1>3, AcceptIsNewer
<1>5. \A i \in DOMAIN t : Carries(t[i]) =>
         /\ h.id <= t[i].id
         /\ h.id = t[i].id => t[i] = h /\ \A k \in DOMAIN t : k < i => ~IsReset(t[k])
  <2>1. \A i, k \in DOMAIN t : k < i => k + 1 < i + 1
    BY <1>2
  <2>2. QED
    BY <1>2, <1>3, <2>1 DEF Direction, Ordered
<1>6. InWindow(t, h.id, n)
  <2> SUFFICES ASSUME NEW i \in DOMAIN t, Carries(t[i])
               PROVE  /\ 0 < t[i].id /\ h.id <= t[i].id /\ t[i].id <= n
                      /\ t[i].fc # "ConfirmedUserData" => h.id < t[i].id
    BY DEF InWindow
  <2>1. t[i] \in Frame /\ t[i].id \in Nat /\ h.id \in Nat
    <3>1. \A k \in DOMAIN c : c[k] \in Frame
      OBVIOUS
    <3>2. QED
      BY <1>2, <1>3, <3>1 DEF Frame
  <2>2. t[i].fc # "ConfirmedUserData" => t[i] # h
    BY <1>3
  <2>3. QED
    BY <1>1, <1>3, <1>5, <2>1, <2>2 DEF Direction, InWindow, Frame
<1>7. Repetition(t, h.id, s, r2)
  BY <1>3, <1>5 DEF Repetition, Carries
<1>8. Outstanding(t, h.id, n, pr, d, w, s, r2)
  <2>1. pr = "ResetLinkWait" => h.id < n
    BY <1>3 DEF Direction, Outstanding
  <2>2. pr = "ConfDataWait" /\ h.id = n => h = d /\ d.fcb = w /\ \A k \in DOMAIN t : ~IsReset(t[k])
    BY <1>2, <1>3 DEF Direction, Outstanding
  <2>3. QED
    BY <1>1, <1>3, <2>1, <2>2 DEF Direction, Outstanding
<1>9. QED
  BY <1>1, <1>3, <1>4, <1>6, <1>7, <1>8 DEF Direction, t

\* The receiver accepts a link test: every payload behind it is of a later operation than the last.
LEMMA TestDirection ==
  ASSUME NEW c \in Seq(Frame), c # <<>>, NEW l \in Nat, NEW n \in Nat, NEW pr, NEW d \in Frame,
         NEW w, NEW s, NEW r, s = "Reset",
         Direction(c, l, n, pr, d, w, s, r),
         Head(c).fc = "TestLinkStatus", Head(c).fcb = r, NEW r2, r2 # r
  PROVE  Direction(Tail(c), l, n, pr, d, w, s, r2)
<1> DEFINE t == Tail(c)  h == c[1]
<1>1. Direction(t, l, n, pr, d, w, s, r)
  BY TailDirection
<1>2. \A i \in DOMAIN t : t[i] = c[i + 1] /\ i + 1 \in DOMAIN c /\ i \in Nat /\ 1 < i + 1
  BY TailFacts
<1>3. 1 \in DOMAIN c /\ h = Head(c) /\ h \in Frame /\ Carries(h)
  BY TailFacts DEF Carries
<1> HIDE DEF t
<1>4. l < h.id /\ h.id \in Nat
  BY <1>3 DEF Direction, InWindow, Frame
<1>5. \A i \in DOMAIN t : Carries(t[i]) => h.id <= t[i].id
  BY <1>2, <1>3 DEF Direction, Ordered
<1>6. Repetition(t, l, s, r2)
  BY <1>4, <1>5 DEF Repetition, Carries
<1>7. l # n
  BY <1>3, <1>4 DEF Direction, InWindow
<1>8. QED
  BY <1>1, <1>6, <1>7 DEF Direction, Outstanding, t

\* The receiver accepts unconfirmed data: it is new, and nothing behind it is older or equal.
LEMMA UnconfirmedDirection ==
  ASSUME NEW c \in Seq(Frame), c # <<>>, NEW l \in Nat, NEW n \in Nat, NEW pr, NEW d \in Frame,
         NEW w, NEW s, NEW r,
         Direction(c, l, n, pr, d, w, s, r), Head(c).fc = "UnconfirmedUserData"
  PROVE  /\ l < Head(c).id /\ Head(c).id <= n
         /\ Direction(Tail(c), Head(c).id, n, pr, d, w, s, r)
<1> DEFINE t == Tail(c)  h == c[1]
<1>1. Direction(t, l, n, pr, d, w, s, r)
  BY TailDirection
<1>2. \A i \in DOMAIN t : t[i] = c[i + 1] /\ i + 1 \in DOMAIN c /\ i \in Nat /\ 1 < i + 1
  BY TailFacts
<1>3. 1 \in DOMAIN c /\ h = Head(c) /\ h \in Frame /\ Carries(h) /\ ~IsReset(h)
  BY TailFacts DEF Carries, IsReset
<1> HIDE DEF t
<1>4. l < h.id /\ h.id <= n /\ h.id \in Nat
  BY <1>3 DEF Direction, InWindow, Frame
<1>5. \A i \in DOMAIN t : Carries(t[i]) => t[i].id \in Nat /\ h.id < t[i].id
  <2>1. \A k \in DOMAIN c : c[k] \in Frame /\ c[k].id \in Nat
    <3>1. \A k \in DOMAIN c : c[k] \in Frame
      OBVIOUS
    <3>2. QED
      BY <3>1 DEF Frame
  <2>2. \A i \in DOMAIN t : Carries(t[i]) => h.id <= t[i].id /\ h.id # t[i].id
    BY <1>2, <1>3 DEF Direction, Ordered
  <2>3. QED
    BY <1>2, <1>4, <2>1, <2>2
<1>6. InWindow(t, h.id, n)
  BY <1>1, <1>4, <1>5 DEF Direction, InWindow
<1>7. Repetition(t, h.id, s, r)
  BY <1>5 DEF Repetition, Carries
<1>8. Outstanding(t, h.id, n, pr, d, w, s, r)
  <2>1. pr = "ResetLinkWait" => h.id < n
    BY <1>3 DEF Direction, Outstanding
  <2>2. ~(pr = "ConfDataWait" /\ h.id = n)
    BY <1>3 DEF Direction, Outstanding, Waiting
  <2>3. QED
    BY <1>1, <2>1, <2>2 DEF Direction, Outstanding
<1>9. QED
  BY <1>1, <1>3, <1>4, <1>6, <1>7, <1>8 DEF Direction, t

---------------------------------------------------------------------------
(* The sending end *)

LEMMA AppendFacts ==
  ASSUME NEW c \in Seq(Frame), NEW f \in Frame
  PROVE  /\ Append(c, f) \in Seq(Frame) /\ Len(c) + 1 \in DOMAIN Append(c, f)
         /\ Append(c, f)[Len(c) + 1] = f
         /\ \A i \in DOMAIN Append(c, f) : i \in DOMAIN c \/ i = Len(c) + 1
         /\ \A i \in DOMAIN c : Append(c, f)[i] = c[i] /\ i \in DOMAIN Append(c, f) /\ i < Len(c) + 1
OBVIOUS

\* A frame that carries nothing and resets nothing may be sent at any time.
LEMMA PlainDirection ==
  ASSUME NEW c \in Seq(Frame), NEW f \in Frame, NEW l \in Nat, NEW n \in Nat, NEW pr, NEW d \in Frame,
         NEW w, NEW s, NEW r,
         Direction(c, l, n, pr, d, w, s, r), ~Carries(f), ~IsReset(f)
  PROVE  Direction(Append(c, f), l, n, pr, d, w, s, r)
<1> DEFINE a == Append(c, f)  m == Len(c) + 1
<1>1. /\ m \in DOMAIN a /\ a[m] = f /\ \A i \in DOMAIN a : i \in DOMAIN c \/ i = m
      /\ \A i \in DOMAIN c : a[i] = c[i] /\ i \in DOMAIN a /\ i < m /\ i \in Nat
  BY AppendFacts
<1> HIDE DEF a, m
<1>2. InWindow(a, l, n) /\ Repetition(a, l, s, r)
  BY <1>1 DEF Direction, InWindow, Repetition, Carries
<1>3. Ordered(a)
  BY <1>1 DEF Direction, Ordered
<1>4. Outstanding(a, l, n, pr, d, w, s, r)
  BY <1>1 DEF Direction, Outstanding
<1>5. QED
  BY <1>2, <1>3, <1>4 DEF Direction, a

\* A reset is sent while the outstanding operation has not been sent yet.
LEMMA SendResetDirection ==
  ASSUME NEW c \in Seq(Frame), NEW f \in Frame, NEW l \in Nat, NEW n \in Nat, NEW pr, NEW d \in Frame,
         NEW w, NEW s, NEW r,
         pr = "ResetLinkWait", Direction(c, l, n, pr, d, w, s, r), IsReset(f)
  PROVE  Direction(Append(c, f), l, n, pr, d, w, s, r)
<1> DEFINE a == Append(c, f)  m == Len(c) + 1
<1>1. /\ m \in Nat /\ m \in DOMAIN a /\ a[m] = f /\ \A i \in DOMAIN a : i \in DOMAIN c \/ i = m
      /\ \A i \in DOMAIN c : a[i] = c[i] /\ i \in DOMAIN a /\ i < m /\ i \in Nat
  BY AppendFacts
<1>2. ~Carries(f)
  BY DEF Carries, IsReset
<1> HIDE DEF a, m
<1>3. InWindow(a, l, n) /\ Repetition(a, l, s, r)
  BY <1>1, <1>2 DEF Direction, InWindow, Repetition, Carries
<1>4. Ordered(a)
  BY <1>1, <1>2 DEF Direction, Ordered
<1>5. Outstanding(a, l, n, pr, d, w, s, r)
  BY <1>1, <1>2 DEF Direction, Outstanding
<1>6. QED
  BY <1>3, <1>4, <1>5 DEF Direction, a

\* The outstanding operation is sent, for the first time or again.
LEMMA SendDelayedDirection ==
  ASSUME NEW c \in Seq(Frame), NEW l \in Nat, NEW n \in Nat, NEW pr, NEW d \in Frame,
         NEW w, NEW s, NEW r,
         pr = "ConfDataWait", Direction(c, l, n, pr, d, w, s, r)
  PROVE  Direction(Append(c, d), l, n, pr, d, w, s, r)
<1> DEFINE a == Append(c, d)  m == Len(c) + 1
<1>1. /\ m \in Nat /\ m \in DOMAIN a /\ a[m] = d /\ \A i \in DOMAIN a : i \in DOMAIN c \/ i = m
      /\ \A i \in DOMAIN c : a[i] = c[i] /\ i \in DOMAIN a /\ i < m /\ i \in Nat
  BY AppendFacts
<1>2. /\ Carries(d) /\ ~IsReset(d) /\ d.id = n /\ 0 < n /\ d.fcb = w
      /\ d.fc \in {"ConfirmedUserData", "TestLinkStatus"}
  BY DEF Direction, Outstanding, Waiting, Carries, IsReset
<1>3. l = n => /\ d.fc = "ConfirmedUserData" /\ \A k \in DOMAIN c : ~IsReset(c[k])
               /\ s = "Reset" => r # w
  BY DEF Direction, Outstanding
<1>4. \A i \in DOMAIN c : Carries(c[i]) =>
        /\ c[i].id <= n
        /\ c[i].id = n => c[i] = d /\ \A k \in DOMAIN c : i < k => ~IsReset(c[k])
  BY DEF Direction, Outstanding, InWindow
<1> HIDE DEF a, m
<1>5. InWindow(a, l, n)
  BY <1>1, <1>2, <1>3 DEF Direction, InWindow
<1>6. Repetition(a, l, s, r)
  BY <1>1, <1>2, <1>3 DEF Direction, Repetition
<1>7. Ordered(a)
  <2> SUFFICES ASSUME NEW i \in DOMAIN a, NEW j \in DOMAIN a, i < j, Carries(a[i]), Carries(a[j])
               PROVE  /\ a[i].id <= a[j].id
                      /\ a[i].id = a[j].id =>
                           /\ a[i] = a[j] /\ a[i].fc # "UnconfirmedUserData"
                           /\ \A k \in DOMAIN a : i < k /\ k < j => ~IsReset(a[k])
    BY DEF Ordered
  <2>1. i \in DOMAIN c
    BY <1>1
  <2>2. CASE j \in DOMAIN c
    BY <1>1, <2>1, <2>2 DEF Direction, Ordered
  <2>3. CASE j = m
    BY <1>1, <1>2, <1>4, <2>1, <2>3
  <2>4. QED
    BY <1>1, <2>2, <2>3
<1>8. Outstanding(a, l, n, pr, d, w, s, r)
  <2>1. \A k \in DOMAIN a : l = n => ~IsReset(a[k])
    BY <1>1, <1>2, <1>3
  <2>2. \A i \in DOMAIN a : Carries(a[i]) /\ a[i].id = n =>
          a[i] = d /\ \A k \in DOMAIN a : i < k => ~IsReset(a[k])
    BY <1>1, <1>2, <1>4
  <2>3. QED
    BY <1>2, <1>3, <2>1, <2>2 DEF Outstanding, Waiting
<1>9. QED
  BY <1>5, <1>6, <1>7, <1>8 DEF Direction, a

\* Nothing is said of an idle sender: it may forget its operation at any time.
LEMMA IdleDirection ==
  ASSUME NEW c, NEW l, NEW n, NEW pr, NEW d, NEW w, NEW s, NEW r,
         Direction(c, l, n, pr, d, w, s, r), NEW p2, NEW d2, NEW w2, p2 \notin Waiting
  PROVE  Direction(c, l, n, p2, d2, w2, s, r)
BY DEF Direction, Outstanding, Waiting

\* A new operation is handed over: no frame on the line is of it yet.
LEMMA NewOperation ==
  ASSUME NEW c \in Seq(Frame), NEW l \in Nat, NEW n \in Nat, NEW pr, NEW d, NEW w, NEW s, NEW r,
         Direction(c, l, n, pr, d, w, s, r),
         NEW p2, NEW d2 \in Frame, NEW w2, d2.id = n + 1, d2.fc \in {"ConfirmedUserData", "TestLinkStatus"},
         p2 = "ConfDataWait" => d2.fcb = w2
  PROVE  Direction(c, l, n + 1, p2, d2, w2, s, r)
<1>1. \A i \in DOMAIN c : c[i].id \in Nat
  <2>1. \A i \in DOMAIN c : c[i] \in Frame
    OBVIOUS
  <2>2. QED
    BY <2>1 DEF Frame
<1>2. InWindow(c, l, n + 1)
  BY <1>1 DEF Direction, InWindow
<1>3. l < n + 1 /\ \A i \in DOMAIN c : Carries(c[i]) => c[i].id < n + 1
  BY <1>1 DEF Direction, InWindow
<1>4. Outstanding(c, l, n + 1, p2, d2, w2, s, r)
  BY <1>1, <1>3 DEF Outstanding
<1>5. QED
  BY <1>2, <1>3, <1>4 DEF Direction

\* The reset is acknowledged: the delayed frame may go out, with the bit that follows a reset.
LEMMA AckResetDirection ==
  ASSUME NEW c \in Seq(Frame), NEW l \in Nat, NEW n \in Nat, NEW pr, NEW d \in Frame, NEW w, NEW s,
         NEW r, Direction(c, l, n, pr, d, w, s, r), pr = "ResetLinkWait",
         NEW e \in Frame, NEW b, e.id = d.id, e.fc = d.fc, e.fcb = b
  PROVE  Direction(c, l, n, "ConfDataWait", e, b, s, r)
<1>1. l < n /\ \A i \in DOMAIN c : Carries(c[i]) => c[i].id < n
  BY DEF Direction, Outstanding
<1>2. \A i \in DOMAIN c : c[i].id \in Nat
  <2>1. \A i \in DOMAIN c : c[i] \in Frame
    OBVIOUS
  <2>2. QED
    BY <2>1 DEF Frame
<1>3. 0 < n /\ e.id = n /\ e.fc \in {"ConfirmedUserData", "TestLinkStatus"}
  BY DEF Direction, Outstanding, Waiting
<1>4. \A i \in DOMAIN c : ~(Carries(c[i]) /\ c[i].id = n)
  BY <1>1, <1>2
<1>5. Outstanding(c, l, n, "ConfDataWait", e, b, s, r)
  BY <1>1, <1>3, <1>4 DEF Outstanding
<1>6. QED
  BY <1>5 DEF Direction

\* Unconfirmed data is a new operation and its only frame.
LEMMA SendUnconfirmedDirection ==
  ASSUME NEW c \in Seq(Frame), NEW f \in Frame, NEW l \in Nat, NEW n \in Nat, NEW pr, NEW d, NEW w,
         NEW s, NEW r, Direction(c, l, n, pr, d, w, s, r),
         f.fc = "UnconfirmedUserData", f.id = n + 1, pr \notin Waiting
  PROVE  Direction(c, l, n + 1, pr, d, w, s, r) /\ Direction(Append(c, f), l, n + 1, pr, d, w, s, r)
<1> DEFINE a == Append(c, f)  m == Len(c) + 1
<1>1. /\ m \in Nat /\ m \in DOMAIN a /\ a[m] = f /\ \A i \in DOMAIN a : i \in DOMAIN c \/ i = m
      /\ \A i \in DOMAIN c : a[i] = c[i] /\ i \in DOMAIN a /\ i < m /\ i \in Nat
  BY AppendFacts
<1>2. \A i \in DOMAIN c : c[i].id \in Nat
  <2>1. \A i \in DOMAIN c : c[i] \in Frame
    OBVIOUS
  <2>2. QED
    BY <2>1 DEF Frame
<1>3. l < n + 1 /\ \A i \in DOMAIN c : Carries(c[i]) => c[i].id < n + 1
  BY <1>2 DEF Direction, InWindow
<1>4. ~IsReset(f)
  BY DEF IsReset
<1> HIDE DEF a, m
<1>5. InWindow(c, l, n + 1) /\ InWindow(a, l, n + 1)
  BY <1>1, <1>2, <1>3 DEF Direction, InWindow
<1>6. Repetition(a, l, s, r)
  BY <1>1, <1>4 DEF Direction, Repetition
<1>7. Ordered(a)
  <2> SUFFICES ASSUME NEW i \in DOMAIN a, NEW j \in DOMAIN a, i < j, Carries(a[i]), Carries(a[j])
               PROVE  /\ a[i].id <= a[j].id
                      /\ a[i].id = a[j].id =>
                           /\ a[i] = a[j] /\ a[i].fc # "UnconfirmedUserData"
                           /\ \A k \in DOMAIN a : i < k /\ k < j => ~IsReset(a[k])
    BY DEF Ordered
  <2>1. i \in DOMAIN c
    BY <1>1
  <2>2. CASE j \in DOMAIN c
    BY <1>1, <2>1, <2>2 DEF Direction, Ordered
  <2>3. CASE j = m
    BY <1>1, <1>2, <1>3, <2>1, <2>3
  <2>4. QED
    BY <1>1, <2>2, <2>3
<1>8. QED
  BY <1>3, <1>5, <1>6, <1>7 DEF Direction, Outstanding, Waiting, a

---------------------------------------------------------------------------
(* The invariant is inductive *)

LEMMA DirectionTypes ==
  ASSUME TypeOK, NEW p \in Stations
  PROVE  /\ line[p] \in Seq(Frame) /\ Last(p) \in Nat /\ sent[p] \in Nat /\ delayed[p] \in Frame
         /\ writeFCB[p] \in BOOLEAN /\ readFCB[p] \in BOOLEAN /\ sec[p] \in {"NotReset", "Reset"}
<1>1. delivered[p] \in Seq(Nat)
  BY DEF TypeOK
<1>2. Last(p) \in Nat
  BY <1>1 DEF Last, Service!LastOf
<1>3. QED
  BY <1>2 DEF TypeOK

LEMMA BothDirections ==
  ASSUME NEW p \in Stations
  PROVE  /\ IInv => /\ DirectionOf(p) /\ Increasing(delivered[p])
                     /\ DirectionOf(Other(p)) /\ Increasing(delivered[Other(p)])
         /\ DirectionOf(p)' /\ DirectionOf(Other(p))' /\ (\A x \in Stations : Increasing(delivered[x]))' => IInv'
<1>1. \A x \in Stations : x = p \/ x = Other(p)
  BY DEF Stations, Other
<1>2. Other(p) \in Stations
  BY OtherStation
<1>3. QED
  BY <1>1, <1>2 DEF IInv

LEMMA PutCases ==
  ASSUME NEW c, NEW p, NEW f
  PROVE  Put(c, p, f) = c \/ Put(c, p, f) = Append(c, f)
BY DEF Put

LEMMA LowerLayerInv ==
  ASSUME TypeOK, IInv, NEW p \in Stations, LowerLayer(p)
  PROVE  IInv'
<1> DEFINE q == Other(p)
<1>1. q \in Stations /\ q # p /\ Other(q) = p
  BY OtherStation
<1>2. DirectionOf(p) /\ DirectionOf(q) /\ \A x \in Stations : Increasing(delivered[x])
  BY BothDirections DEF IInv
<1>3. SUFFICES DirectionOf(p)' /\ DirectionOf(q)' /\ UNCHANGED delivered
  BY <1>2, BothDirections
<1>4. CASE OnLowerLayerUp(p)
  BY <1>2, <1>4 DEF OnLowerLayerUp, DirectionOf, Last, history, fcbVars
<1>5. CASE OnLowerLayerDown(p)
  <2>1. /\ line'[p] = line[p] /\ line'[q] = <<>> /\ pri'[p] = "SecNotReset" /\ pri'[q] = pri[q]
        /\ sec'[p] = "NotReset" /\ sec'[q] = sec[q]
        /\ UNCHANGED <<delivered, sent, delayed, writeFCB, readFCB>>
    BY <1>1, <1>5 DEF OnLowerLayerDown, TypeOK, fcbVars
  <2>2. DirectionOf(p)'
    BY <1>2, <2>1, IdleDirection DEF DirectionOf, Last, Waiting
  <2>3. DirectionOf(q)'
    BY <1>1, <1>2, <2>1, DirectionTypes, ClearDirection DEF DirectionOf, Last
  <2>4. QED
    BY <2>1, <2>2, <2>3
<1>6. CASE LoseFrame(p)
  <2>1. /\ line[p] # <<>> /\ line'[p] = Tail(line[p]) /\ line'[q] = line[q]
        /\ UNCHANGED <<delivered, sent, pri, sec, delayed, writeFCB, readFCB>>
    BY <1>1, <1>6 DEF LoseFrame, TypeOK, fcbVars, history
  <2>2. DirectionOf(p)'
    BY <1>1, <1>2, <2>1, DirectionTypes, TailDirection DEF DirectionOf, Last
  <2>3. DirectionOf(q)'
    BY <1>1, <1>2, <2>1 DEF DirectionOf, Last
  <2>4. QED
    BY <2>1, <2>2, <2>3
<1>7. QED
  BY <1>4, <1>5, <1>6 DEF LowerLayer

LEMMA SendingInv ==
  ASSUME TypeOK, IInv, NEW p \in Stations, Sending(p)
  PROVE  IInv'
<1> DEFINE q == Other(p)
<1>1. q \in Stations /\ q # p /\ Other(q) = p
  BY OtherStation
<1>2. DirectionOf(p) /\ DirectionOf(q) /\ \A x \in Stations : Increasing(delivered[x])
  BY BothDirections DEF IInv
<1>3. SUFFICES DirectionOf(p)' /\ DirectionOf(q)' /\ UNCHANGED delivered
  BY <1>2, BothDirections
<1>4. \A f : Transmit(p, f) => line'[p] = Put(line[p], p, f) /\ line'[q] = line[q]
  BY <1>1 DEF Transmit, TypeOK
<1>5. ASSUME UNCHANGED <<delivered, readFCB, writeFCB, sec>>, line'[q] = line[q], pri'[q] = pri[q],
             delayed'[q] = delayed[q], sent'[q] = sent[q]
      PROVE  DirectionOf(q)'
  BY <1>1, <1>2, <1>5 DEF DirectionOf, Last
<1>6. ASSUME NEW s \in Waiting, NEW f \in Frame, BeginConfirmed(p, s, f),
             f.id = NextId(p), f.fc \in {"ConfirmedUserData", "TestLinkStatus"},
             s = "ConfDataWait" => f.fcb = writeFCB[p],
             NEW g \in Frame, Transmit(p, g),
             s = "ConfDataWait" => g = f, s = "ResetLinkWait" => IsReset(g)
      PROVE  DirectionOf(p)' /\ DirectionOf(q)' /\ UNCHANGED delivered
  <2>1. /\ pri'[p] = s /\ delayed'[p] = f /\ sent'[p] = sent[p] + 1
        /\ pri'[q] = pri[q] /\ delayed'[q] = delayed[q] /\ sent'[q] = sent[q]
        /\ UNCHANGED <<delivered, readFCB, writeFCB, sec>>
    BY <1>1, <1>6 DEF BeginConfirmed, NextId, TypeOK, fcbVars
  <2>2. Direction(line[p], Last(q), sent[p] + 1, s, f, writeFCB[p], sec[q], readFCB[q])
    BY <1>1, <1>2, <1>6, DirectionTypes, NewOperation DEF DirectionOf, NextId
  <2>3. Direction(Append(line[p], g), Last(q), sent[p] + 1, s, f, writeFCB[p], sec[q], readFCB[q])
    <3>1. CASE s = "ResetLinkWait"
      BY <1>1, <1>6, <2>2, <3>1, DirectionTypes, SendResetDirection
    <3>2. CASE s = "ConfDataWait"
      BY <1>1, <1>6, <2>2, <3>2, DirectionTypes, SendDelayedDirection
    <3>3. QED
      BY <1>6, <3>1, <3>2 DEF Waiting
  <2>4. line'[p] = line[p] \/ line'[p] = Append(line[p], g)
    BY <1>4, <1>6, PutCases
  <2>5. DirectionOf(p)'
    BY <2>1, <2>2, <2>3, <2>4 DEF DirectionOf, Last
  <2>6. QED
    BY <1>4, <1>5, <1>6, <2>1, <2>5
<1>7. NextId(p) \in Nat /\ writeFCB[p] \in BOOLEAN
  BY DirectionTypes DEF NextId
<1>8. CASE SendUnconfirmed(p)
  <2>1. PICK f \in Frame : /\ f = Numbered("UnconfirmedUserData", NextId(p), FALSE)
                           /\ Transmit(p, f)
    BY <1>7, <1>8, FrameTypes DEF SendUnconfirmed, Commands
  <2>2. /\ sent'[p] = sent[p] + 1 /\ sent'[q] = sent[q] /\ pri[p] \notin Waiting
        /\ UNCHANGED <<delivered, readFCB, writeFCB, sec, pri, delayed>>
    BY <1>1, <1>8 DEF SendUnconfirmed, NextId, TypeOK, fcbVars
  <2>3. /\ Direction(line[p], Last(q), sent[p] + 1, pri[p], delayed[p], writeFCB[p], sec[q], readFCB[q])
        /\ Direction(Append(line[p], f), Last(q), sent[p] + 1, pri[p], delayed[p], writeFCB[p],
                     sec[q], readFCB[q])
    <3>1. f.fc = "UnconfirmedUserData" /\ f.id = sent[p] + 1
      BY <2>1 DEF Numbered, NextId
    <3>2. QED
      BY <1>1, <1>2, <2>2, <3>1, DirectionTypes, SendUnconfirmedDirection DEF DirectionOf
  <2>4. line'[p] = line[p] \/ line'[p] = Append(line[p], f)
    BY <1>4, <2>1, PutCases
  <2>5. DirectionOf(p)'
    BY <2>2, <2>3, <2>4 DEF DirectionOf, Last
  <2>6. QED
    BY <1>4, <1>5, <2>1, <2>2, <2>5
<1>9. CASE SendConfirmedNotReset(p)
  <2>1. Plain("ResetLinkStates") \in Frame /\ Numbered("ConfirmedUserData", NextId(p), TRUE) \in Frame
    BY <1>7, FrameTypes DEF Commands
  <2>2. QED
    BY <1>6, <1>9, <2>1 DEF SendConfirmedNotReset, Numbered, Plain, IsReset, Waiting
<1>10. CASE SendConfirmedReset(p) \/ SendTestLinkStatus(p)
  <2>1. \A fc \in {"ConfirmedUserData", "TestLinkStatus"} : Numbered(fc, NextId(p), writeFCB[p]) \in Frame
    BY <1>7, FrameTypes DEF Commands
  <2>2. PICK fc \in {"ConfirmedUserData", "TestLinkStatus"} :
          /\ BeginConfirmed(p, "ConfDataWait", Numbered(fc, NextId(p), writeFCB[p]))
          /\ Transmit(p, Numbered(fc, NextId(p), writeFCB[p]))
    BY <1>10 DEF SendConfirmedReset, SendTestLinkStatus
  <2>3. QED
    BY <1>6, <2>1, <2>2 DEF Numbered, Waiting
<1>11. CASE SendRequestLinkStatus(p)
  <2>1. PICK f \in Frame : f = Plain("RequestLinkStatus") /\ Transmit(p, f)
    BY <1>11, FrameTypes DEF SendRequestLinkStatus, Commands
  <2>2. UNCHANGED <<delivered, readFCB, writeFCB, sec, pri, delayed, sent>>
    BY <1>11 DEF SendRequestLinkStatus, history, fcbVars
  <2>3. ~Carries(f) /\ ~IsReset(f)
    BY <2>1 DEF Plain, Carries, IsReset
  <2>4. Direction(Append(line[p], f), Last(q), sent[p], pri[p], delayed[p], writeFCB[p], sec[q], readFCB[q])
    BY <1>1, <1>2, <2>3, DirectionTypes, PlainDirection DEF DirectionOf
  <2>5. line'[p] = line[p] \/ line'[p] = Append(line[p], f)
    BY <1>4, <2>1, PutCases
  <2>6. DirectionOf(p)'
    BY <1>2, <2>2, <2>4, <2>5 DEF DirectionOf, Last
  <2>7. QED
    BY <1>4, <1>5, <2>1, <2>2, <2>6
<1>12. QED
  BY <1>8, <1>9, <1>10, <1>11 DEF Sending

LEMMA PrimaryInv ==
  ASSUME TypeOK, IInv, NEW p \in Stations, Primary(p)
  PROVE  IInv'
<1> DEFINE q == Other(p)
<1>1. q \in Stations /\ q # p /\ Other(q) = p
  BY OtherStation
<1>2. DirectionOf(p) /\ DirectionOf(q) /\ \A x \in Stations : Increasing(delivered[x])
  BY BothDirections DEF IInv
<1>3. SUFFICES DirectionOf(p)' /\ DirectionOf(q)' /\ UNCHANGED delivered
  BY <1>2, BothDirections
<1>4. ASSUME UNCHANGED <<delivered, sec, readFCB, sent>>, pri'[q] = pri[q], delayed'[q] = delayed[q],
             writeFCB'[q] = writeFCB[q],
             line'[q] = line[q] \/ (line[q] # <<>> /\ line'[q] = Tail(line[q]))
      PROVE  DirectionOf(q)'
  <2>1. line[q] # <<>> => Direction(Tail(line[q]), Last(p), sent[q], pri[q], delayed[q], writeFCB[q],
                                    sec[p], readFCB[p])
    BY <1>1, <1>2, DirectionTypes, TailDirection DEF DirectionOf
  <2>2. QED
    BY <1>1, <1>2, <1>4, <2>1 DEF DirectionOf, Last
<1>5. Consume(p) => line'[p] = line[p] /\ line'[q] = Tail(line[q])
  BY <1>1 DEF Consume, TypeOK
<1>6. ASSUME UNCHANGED <<delivered, sec, readFCB, sent>>, pri'[p] \notin Waiting, line'[p] = line[p]
      PROVE  DirectionOf(p)'
  BY <1>2, <1>6, IdleDirection DEF DirectionOf, Last
<1>7. GiveUp(p) => pri'[p] \notin Waiting /\ pri'[q] = pri[q]
  BY <1>1 DEF GiveUp, TypeOK, Waiting
<1>8. CASE AnswerNotUnderstood(p)
  <2>1. /\ line[q] # <<>> /\ pri[p] \notin Waiting /\ Consume(p)
        /\ UNCHANGED <<delivered, sec, readFCB, sent, pri, delayed, writeFCB>>
    BY <1>8 DEF AnswerNotUnderstood, Receives, history, fcbVars
  <2>2. QED
    BY <1>4, <1>5, <1>6, <2>1
<1>9. CASE AckOfReset(p)
  <2>1. PICK f \in Frame : /\ f = [delayed[p] EXCEPT !.fcb = TRUE]
                           /\ f.id = delayed[p].id /\ f.fc = delayed[p].fc /\ f.fcb = TRUE
    BY DirectionTypes, FrameTypes DEF Frame
  <2>2. /\ line[q] # <<>> /\ pri[p] = "ResetLinkWait"
        /\ line'[q] = Tail(line[q]) /\ line'[p] = Put(line[p], p, f)
        /\ pri'[p] = "ConfDataWait" /\ pri'[q] = pri[q] /\ writeFCB'[p] = TRUE /\ writeFCB'[q] = writeFCB[q]
        /\ delayed'[p] = f /\ delayed'[q] = delayed[q]
        /\ UNCHANGED <<delivered, sec, readFCB, sent>>
    BY <1>1, <1>9, <2>1 DEF AckOfReset, Receives, ConsumeAndTransmit, TypeOK, history
  <2>3. writeFCB'[p] \in BOOLEAN /\ f.fcb = writeFCB'[p]
    BY <2>1, <2>2
  <2>4. Direction(line[p], Last(q), sent[p], "ConfDataWait", f, writeFCB'[p], sec[q], readFCB[q])
    BY <1>1, <1>2, <2>1, <2>2, <2>3, DirectionTypes, AckResetDirection DEF DirectionOf
  <2>5. Direction(Append(line[p], f), Last(q), sent[p], "ConfDataWait", f, writeFCB'[p], sec[q], readFCB[q])
    BY <1>1, <2>1, <2>3, <2>4, DirectionTypes, SendDelayedDirection
  <2>6. line'[p] = line[p] \/ line'[p] = Append(line[p], f)
    BY <2>2, PutCases
  <2>7. DirectionOf(p)'
    BY <2>2, <2>4, <2>5, <2>6 DEF DirectionOf, Last
  <2>8. QED
    BY <1>4, <2>2, <2>7
<1>10. CASE AckOfData(p)
  <2>1. /\ line[q] # <<>> /\ Consume(p) /\ pri'[p] \notin Waiting /\ pri'[q] = pri[q]
        /\ writeFCB'[q] = writeFCB[q] /\ UNCHANGED <<delivered, sec, readFCB, sent, delayed>>
    BY <1>1, <1>10 DEF AckOfData, Receives, TypeOK, Waiting
  <2>2. QED
    BY <1>4, <1>5, <1>6, <2>1
<1>11. CASE AnswerIsFailure(p)
  <2>1. /\ line[q] # <<>> /\ Consume(p) /\ GiveUp(p)
        /\ UNCHANGED <<delivered, sec, readFCB, sent, delayed, writeFCB>>
    BY <1>11 DEF AnswerIsFailure, Receives, fcbVars
  <2>2. QED
    BY <1>4, <1>5, <1>6, <1>7, <2>1
<1>12. CASE OnTimeout(p)
  <2>1. UNCHANGED <<delivered, sec, readFCB, sent, writeFCB>>
    BY <1>12 DEF OnTimeout, fcbVars
  <2>2. CASE Retry(p) /\ pri[p] = "ResetLinkWait"
    <3>1. PICK f \in Frame : f = Plain("ResetLinkStates")
      BY FrameTypes DEF Commands
    <3>2. /\ line'[p] = Put(line[p], p, f) /\ line'[q] = line[q] /\ UNCHANGED <<pri, delayed>>
      BY <1>1, <1>12, <2>2, <3>1 DEF OnTimeout, Retry, Transmit, TypeOK
    <3>3. Direction(Append(line[p], f), Last(q), sent[p], pri[p], delayed[p], writeFCB[p], sec[q], readFCB[q])
      BY <1>1, <1>2, <2>2, <3>1, DirectionTypes, SendResetDirection DEF DirectionOf, Plain, IsReset
    <3>4. DirectionOf(p)'
      BY <1>2, <2>1, <3>2, <3>3, PutCases DEF DirectionOf, Last
    <3>5. QED
      BY <1>4, <2>1, <3>2, <3>4
  <2>3. CASE Retry(p) /\ pri[p] = "ConfDataWait"
    <3>1. delayed[p] \in Frame /\ delayed[p].fcb = writeFCB[p]
      BY <1>2, <2>3, DirectionTypes DEF DirectionOf, Direction, Outstanding
    <3>2. [delayed[p] EXCEPT !.fcb = writeFCB[p]] = delayed[p]
      BY <3>1 DEF Frame
    <3>3. /\ delayed' = [delayed EXCEPT ![p] = [@ EXCEPT !.fcb = writeFCB[p]]]
          /\ Transmit(p, [delayed[p] EXCEPT !.fcb = writeFCB[p]]) /\ UNCHANGED pri
      BY <1>12, <2>3 DEF OnTimeout, Retry
    <3>4. /\ line'[p] = Put(line[p], p, delayed[p]) /\ line'[q] = line[q]
          /\ delayed'[p] = delayed[p] /\ delayed'[q] = delayed[q] /\ UNCHANGED pri
      BY <1>1, <3>2, <3>3 DEF Transmit, TypeOK
    <3>5. Direction(Append(line[p], delayed[p]), Last(q), sent[p], pri[p], delayed[p], writeFCB[p],
                    sec[q], readFCB[q])
      BY <1>1, <1>2, <2>3, DirectionTypes, SendDelayedDirection DEF DirectionOf
    <3>6. DirectionOf(p)'
      BY <1>2, <2>1, <3>4, <3>5, PutCases DEF DirectionOf, Last
    <3>7. QED
      BY <1>4, <2>1, <3>4, <3>6
  <2>4. CASE GiveUp(p) /\ UNCHANGED <<retry, delayed, line>>
    BY <1>4, <1>6, <1>7, <2>1, <2>4
  <2>5. QED
    BY <1>12, <2>2, <2>3, <2>4 DEF OnTimeout, Waiting
<1>13. QED
  BY <1>8, <1>9, <1>10, <1>11, <1>12 DEF Primary

\* A user that receives an operation newer than its last one keeps receiving in order.
LEMMA AppendIncreasing ==
  ASSUME NEW s \in Seq(Nat), Increasing(s), NEW n \in Nat, Service!LastOf(s) < n
  PROVE  Increasing(Append(s, n)) /\ Service!LastOf(Append(s, n)) = n
<1>1. CASE s = <<>>
  BY <1>1 DEF Increasing, Service!LastOf
<1>2. CASE s # <<>>
  <2>1. \A i \in DOMAIN s : s[i] \in Nat /\ s[i] <= s[Len(s)]
    BY <1>2 DEF Increasing
  <2>2. s[Len(s)] < n
    BY <1>2 DEF Service!LastOf
  <2>3. Increasing(Append(s, n))
    <3> SUFFICES ASSUME NEW i \in DOMAIN Append(s, n), NEW j \in DOMAIN Append(s, n), i < j
                 PROVE  Append(s, n)[i] < Append(s, n)[j]
      BY DEF Increasing
    <3>1. i \in DOMAIN s /\ Append(s, n)[i] = s[i]
      OBVIOUS
    <3>2. CASE j \in DOMAIN s
      BY <3>1, <3>2 DEF Increasing
    <3>3. CASE j = Len(s) + 1
      BY <2>1, <2>2, <3>1, <3>3
    <3>4. QED
      BY <3>2, <3>3
  <2>4. QED
    BY <2>3 DEF Service!LastOf
<1>3. QED
  BY <1>1, <1>2

LEMMA SecondaryInv ==
  ASSUME TypeOK, IInv, NEW p \in Stations, Secondary(p)
  PROVE  IInv'
<1> DEFINE q == Other(p)
           h == Incoming(p)
<1>1. q \in Stations /\ q # p /\ Other(q) = p
  BY OtherStation
<1>2. DirectionOf(p) /\ DirectionOf(q) /\ \A x \in Stations : Increasing(delivered[x])
  BY BothDirections DEF IInv
<1>3. /\ UNCHANGED <<online, pri, writeFCB, delayed, sent>> /\ line[q] # <<>> /\ h = Head(line[q])
      /\ sec'[q] = sec[q] /\ readFCB'[q] = readFCB[q] /\ delivered'[q] = delivered[q]
  BY <1>1 DEF Secondary, OnResetLinkStates, OnRequestLinkStatus, OnUnconfirmedUserData, IgnoreNotReset,
     OnTestLinkStatus, OnConfirmedUserData, Refuse, Receives, Incoming, DataUp, TypeOK, history, fcbVars
<1>4. line'[q] = Tail(line[q])
  BY <1>1 DEF Secondary, OnResetLinkStates, OnRequestLinkStatus, OnUnconfirmedUserData, IgnoreNotReset,
     OnTestLinkStatus, OnConfirmedUserData, Refuse, Consume, ConsumeAndTransmit, TypeOK
<1>5. DirectionOf(p)'
  <2>1. \/ line'[p] = line[p]
        \/ \E a \in {"Ack", "Nack", "NotSupported", "LinkStatus"} : line'[p] = Put(line[p], p, Plain(a))
    BY <1>1 DEF Secondary, OnResetLinkStates, OnRequestLinkStatus, OnUnconfirmedUserData, IgnoreNotReset,
       OnTestLinkStatus, OnConfirmedUserData, Refuse, Consume, ConsumeAndTransmit, TypeOK
  <2>2. ASSUME NEW a \in {"Ack", "Nack", "NotSupported", "LinkStatus"}
        PROVE  Direction(Append(line[p], Plain(a)), Last(q), sent[p], pri[p], delayed[p], writeFCB[p],
                         sec[q], readFCB[q])
    <3>1. Plain(a) \in Frame /\ ~Carries(Plain(a)) /\ ~IsReset(Plain(a))
      BY FrameTypes DEF Answers, Plain, Carries, IsReset
    <3>2. QED
      BY <1>1, <1>2, <3>1, DirectionTypes, PlainDirection DEF DirectionOf
  <2>3. QED
    BY <1>2, <1>3, <2>1, <2>2, PutCases DEF DirectionOf, Last
<1>6. ASSUME UNCHANGED delivered, UNCHANGED <<sec, readFCB>>
      PROVE  IInv'
  <2>1. DirectionOf(q)'
    BY <1>1, <1>2, <1>3, <1>4, <1>6, DirectionTypes, TailDirection DEF DirectionOf, Last
  <2>2. QED
    BY <1>2, <1>5, <1>6, <2>1, BothDirections
<1>7. ASSUME h.id \in Nat, Last(p) < h.id, delivered' = [delivered EXCEPT ![p] = Append(@, h.id)]
      PROVE  /\ Last(p)' = h.id /\ (\A x \in Stations : Increasing(delivered[x]))'
  <2>1. delivered[p] \in Seq(Nat) /\ delivered'[p] = Append(delivered[p], h.id)
    BY <1>7 DEF TypeOK
  <2>2. Increasing(delivered'[p]) /\ Last(p)' = h.id
    BY <1>2, <1>7, <2>1, AppendIncreasing DEF Last
  <2>3. \A x \in Stations \ {p} : delivered'[x] = delivered[x]
    BY <1>7 DEF TypeOK
  <2>4. QED
    BY <1>2, <2>2, <2>3
<1>8. h \in Frame
  BY <1>1, <1>3, DirectionTypes, TailFacts
<1>9. CASE OnResetLinkStates(p)
  <2>1. IsReset(h) /\ UNCHANGED delivered
    BY <1>9 DEF OnResetLinkStates, Receives, IsReset, TypeOK, history
  <2>2. DirectionOf(q)'
    BY <1>1, <1>2, <1>3, <1>4, <2>1, DirectionTypes, ResetDirection DEF DirectionOf, Last
  <2>3. QED
    BY <1>2, <1>5, <2>1, <2>2, BothDirections
<1>10. CASE OnUnconfirmedUserData(p)
  <2>1. h.fc = "UnconfirmedUserData" /\ UNCHANGED <<sec, readFCB>> /\ DataUp(p)
    BY <1>10 DEF OnUnconfirmedUserData, Receives, fcbVars
  <2>2. /\ Last(p) < h.id
        /\ Direction(Tail(line[q]), h.id, sent[q], pri[q], delayed[q], writeFCB[q], sec[p], readFCB[p])
    BY <1>1, <1>2, <1>3, <2>1, DirectionTypes, UnconfirmedDirection DEF DirectionOf
  <2>3. Last(p)' = h.id /\ (\A x \in Stations : Increasing(delivered[x]))'
    BY <1>7, <1>8, <2>1, <2>2 DEF DataUp, Frame
  <2>4. DirectionOf(q)'
    BY <1>1, <1>3, <1>4, <2>1, <2>2, <2>3 DEF DirectionOf
  <2>5. QED
    BY <1>5, <2>3, <2>4, BothDirections
<1>11. CASE OnTestLinkStatus(p)
  <2>1. CASE IsNext(p)
    <3>1. /\ h.fc = "TestLinkStatus" /\ sec[p] = "Reset" /\ h.fcb = readFCB[p]
          /\ UNCHANGED <<sec, delivered>> /\ readFCB'[p] # readFCB[p] /\ readFCB'[p] \in BOOLEAN
      BY <1>11, <2>1 DEF OnTestLinkStatus, IsNext, Receives, TypeOK, history
    <3>2. DirectionOf(q)'
      BY <1>1, <1>2, <1>3, <1>4, <3>1, DirectionTypes, TestDirection DEF DirectionOf, Last
    <3>3. QED
      BY <1>2, <1>5, <3>1, <3>2, BothDirections
  <2>2. CASE ~IsNext(p)
    BY <1>6, <1>11, <2>2 DEF OnTestLinkStatus, history
  <2>3. QED
    BY <2>1, <2>2
<1>12. CASE OnConfirmedUserData(p)
  <2>1. CASE IsNext(p)
    <3>1. /\ h.fc = "ConfirmedUserData" /\ sec[p] = "Reset" /\ h.fcb = readFCB[p]
          /\ UNCHANGED sec /\ readFCB'[p] # readFCB[p] /\ readFCB'[p] \in BOOLEAN /\ DataUp(p)
      BY <1>12, <2>1 DEF OnConfirmedUserData, IsNext, Receives, TypeOK
    <3>2. /\ Last(p) < h.id
          /\ Direction(Tail(line[q]), h.id, sent[q], pri[q], delayed[q], writeFCB[q], sec[p], readFCB'[p])
      <4>1. Direction(line[q], Last(p), sent[q], pri[q], delayed[q], writeFCB[q], sec[p], readFCB[p])
        BY <1>1, <1>2 DEF DirectionOf
      <4>2. /\ line[q] \in Seq(Frame) /\ Last(p) \in Nat /\ sent[q] \in Nat /\ delayed[q] \in Frame
            /\ writeFCB[q] \in BOOLEAN /\ readFCB[p] \in BOOLEAN
        BY <1>1, DirectionTypes
      <4>3. Head(line[q]).fc = "ConfirmedUserData" /\ Head(line[q]).fcb = readFCB[p]
        BY <1>3, <3>1
      <4>4. readFCB'[p] \in BOOLEAN /\ readFCB'[p] # readFCB[p] /\ sec[p] = "Reset" /\ line[q] # <<>>
        BY <1>3, <3>1
      <4>5. Last(p) < Head(line[q]).id
        BY <4>1, <4>2, <4>3, <4>4, AcceptIsNewer
      <4>6. Direction(Tail(line[q]), Head(line[q]).id, sent[q], pri[q], delayed[q], writeFCB[q],
                      sec[p], readFCB'[p])
        BY <4>1, <4>2, <4>3, <4>4, AcceptDirection
      <4>7. QED
        BY <1>3, <4>5, <4>6
    <3>3. Last(p)' = h.id /\ (\A x \in Stations : Increasing(delivered[x]))'
      BY <1>7, <1>8, <3>1, <3>2 DEF DataUp, Frame
    <3>4. DirectionOf(q)'
      BY <1>1, <1>3, <1>4, <3>1, <3>2, <3>3 DEF DirectionOf
    <3>5. QED
      BY <1>5, <3>3, <3>4, BothDirections
  <2>2. CASE ~IsNext(p)
    BY <1>6, <1>12, <2>2 DEF OnConfirmedUserData
  <2>3. QED
    BY <2>1, <2>2
<1>13. CASE OnRequestLinkStatus(p) \/ IgnoreNotReset(p) \/ Refuse(p)
  BY <1>6, <1>13 DEF OnRequestLinkStatus, IgnoreNotReset, Refuse, history, fcbVars
<1>14. QED
  BY <1>9, <1>10, <1>11, <1>12, <1>13 DEF Secondary

LEMMA InvInvariant == Spec => []IInv
<1>1. Init => IInv
  <2> SUFFICES ASSUME Init, NEW p \in Stations
               PROVE  DirectionOf(p) /\ Increasing(delivered[p])
    BY DEF IInv
  <2>1. /\ line[p] = <<>> /\ delivered[p] = <<>> /\ delivered[Other(p)] = <<>> /\ sent[p] = 0
        /\ pri[p] = "SecNotReset"
    BY OtherStation DEF Init
  <2>2. Last(Other(p)) = 0
    BY <2>1 DEF Last, Service!LastOf
  <2>3. QED
    BY <2>1, <2>2 DEF DirectionOf, Direction, InWindow, Ordered, Repetition, Outstanding, Waiting, Increasing
<1>2. TypeOK /\ IInv /\ [Next]_vars => IInv'
  <2> SUFFICES ASSUME TypeOK, IInv, [Next]_vars
               PROVE  IInv'
    OBVIOUS
  <2>1. CASE UNCHANGED vars
    BY <2>1 DEF vars, history, fcbVars, IInv, DirectionOf, Last
  <2>2. CASE Next
    BY <2>2, LowerLayerInv, SendingInv, PrimaryInv, SecondaryInv DEF Next
  <2>3. QED
    BY <2>1, <2>2
<1>3. QED
  BY <1>1, <1>2, TypeCorrect, PTL DEF Spec

\* No payload reaches the user of a link layer twice or out of order, however often the
\* frames that carry it are repeated and whenever either station restarts.
THEOREM AtMostOnce == Spec => []AtMostOnceInOrder
<1>1. IInv => AtMostOnceInOrder
  BY DEF IInv, Increasing, AtMostOnceInOrder
<1>2. QED
  BY <1>1, InvInvariant, PTL

---------------------------------------------------------------------------
(* Implementation of the abstract service *)

LEMMA SameStations == Service!Stations = Stations /\ \A p \in Stations : Service!Other(p) = Other(p)
BY DEF Service!Stations, Stations, Service!Other, Other

LEMMA LowerLayerStep ==
  ASSUME TypeOK, NEW p \in Stations, LowerLayer(p)
  PROVE  Service!Complete(p) \/ UNCHANGED Service!vars
<1>1. CASE OnLowerLayerDown(p)
  <2>1. CASE busy[p]
    BY <1>1, <2>1 DEF OnLowerLayerDown, Service!Complete
  <2>2. CASE ~busy[p]
    BY <1>1, <2>2 DEF OnLowerLayerDown, Service!vars, TypeOK
  <2>3. QED
    BY <2>1, <2>2
<1>2. CASE OnLowerLayerUp(p) \/ LoseFrame(p)
  BY <1>2 DEF OnLowerLayerUp, LoseFrame, Service!vars, history
<1>3. QED
  BY <1>1, <1>2 DEF LowerLayer

LEMMA SendingStep ==
  ASSUME TypeOK, NEW p \in Stations, Sending(p)
  PROVE  (\E b \in BOOLEAN : Service!Submit(p, b)) \/ UNCHANGED Service!vars
<1>1. ASSUME NEW s, NEW f, CanSend(p), BeginConfirmed(p, s, f)
      PROVE  Service!Submit(p, TRUE)
  BY <1>1 DEF CanSend, BeginConfirmed, NextId, Service!Submit, TypeOK
<1>2. CASE SendUnconfirmed(p)
  <2>1. busy' = [busy EXCEPT ![p] = FALSE]
    BY <1>2 DEF SendUnconfirmed, CanSend, TypeOK
  <2>2. Service!Submit(p, FALSE)
    BY <1>2, <2>1 DEF SendUnconfirmed, CanSend, NextId, Service!Submit
  <2>3. QED
    BY <2>2
<1>3. CASE SendConfirmedNotReset(p)
  BY <1>1, <1>3 DEF SendConfirmedNotReset
<1>4. CASE SendConfirmedReset(p) \/ SendTestLinkStatus(p)
  BY <1>1, <1>4 DEF SendConfirmedReset, SendTestLinkStatus
<1>5. CASE SendRequestLinkStatus(p)
  BY <1>5 DEF SendRequestLinkStatus, Service!vars, history
<1>6. QED
  BY <1>2, <1>3, <1>4, <1>5 DEF Sending

LEMMA PrimaryStep ==
  ASSUME TypeOK, TimerIffWaiting, NEW p \in Stations, Primary(p)
  PROVE  Service!Complete(p) \/ UNCHANGED Service!vars
<1>1. pri[p] \in Waiting => busy[p]
  BY DEF TimerIffWaiting
<1>2. pri[p] \in Waiting /\ GiveUp(p) /\ UNCHANGED <<sent, delivered>> => Service!Complete(p)
  BY <1>1 DEF GiveUp, Service!Complete
<1>3. CASE AnswerNotUnderstood(p) \/ AckOfReset(p)
  BY <1>3 DEF AnswerNotUnderstood, AckOfReset, Service!vars, history
<1>4. CASE AckOfData(p)
  BY <1>1, <1>4 DEF AckOfData, Waiting, Service!Complete
<1>5. CASE AnswerIsFailure(p)
  BY <1>2, <1>5 DEF AnswerIsFailure
<1>6. CASE OnTimeout(p)
  <2>1. UNCHANGED <<sent, delivered>> /\ pri[p] \in Waiting /\ (UNCHANGED busy \/ GiveUp(p))
    BY <1>6 DEF OnTimeout
  <2>2. QED
    BY <1>2, <2>1 DEF Service!vars
<1>7. QED
  BY <1>3, <1>4, <1>5, <1>6 DEF Primary

LEMMA SecondaryStep ==
  ASSUME TypeOK, IInv, NEW p \in Stations, Secondary(p)
  PROVE  Service!Deliver(p) \/ UNCHANGED Service!vars
<1> DEFINE q == Other(p)
           h == Incoming(p)
<1>1. q \in Stations /\ Other(q) = p /\ Service!Other(p) = q
  BY OtherStation, SameStations
<1>2. /\ Direction(line[q], Last(p), sent[q], pri[q], delayed[q], writeFCB[q], sec[p], readFCB[p])
      /\ line[q] \in Seq(Frame) /\ Last(p) \in Nat /\ sent[q] \in Nat
  BY <1>1, DirectionTypes DEF IInv, DirectionOf
<1>3. ASSUME DataUp(p), UNCHANGED <<sent, busy>>, Last(p) < h.id, h.id <= sent[q], h.id \in Nat
      PROVE  Service!Deliver(p)
  <2>1. h.id \in Service!LastOf(delivered[p]) + 1 .. sent[Service!Other(p)]
    BY <1>1, <1>2, <1>3 DEF Last
  <2>2. QED
    BY <1>3, <2>1 DEF DataUp, Service!Deliver
<1>4. line[q] # <<>> => h \in Frame /\ h = Head(line[q])
  BY <1>2, TailFacts DEF Incoming
<1>5. CASE OnUnconfirmedUserData(p)
  <2>1. line[q] # <<>> /\ h.fc = "UnconfirmedUserData" /\ DataUp(p) /\ UNCHANGED <<sent, busy>>
    BY <1>5 DEF OnUnconfirmedUserData, Receives
  <2>2. Last(p) < h.id /\ h.id <= sent[q] /\ h.id \in Nat
    <3>1. 1 \in DOMAIN line[q] /\ h = line[q][1] /\ Carries(h)
      BY <1>2, <1>4, <2>1, TailFacts DEF Carries
    <3>2. QED
      BY <1>2, <1>4, <2>1, <3>1 DEF Direction, InWindow, Frame
  <2>3. QED
    BY <1>3, <2>1, <2>2
<1>6. CASE OnConfirmedUserData(p)
  <2>1. CASE IsNext(p)
    <3>1. /\ line[q] # <<>> /\ h.fc = "ConfirmedUserData" /\ h.fcb = readFCB[p] /\ sec[p] = "Reset"
          /\ DataUp(p) /\ UNCHANGED <<sent, busy>>
      BY <1>6, <2>1 DEF OnConfirmedUserData, Receives, IsNext
    <3>2. Last(p) < h.id /\ h.id <= sent[q] /\ h.id \in Nat
      BY <1>2, <1>4, <3>1, AcceptIsNewer DEF Frame
    <3>3. QED
      BY <1>3, <3>1, <3>2
  <2>2. CASE ~IsNext(p)
    BY <1>6, <2>2 DEF OnConfirmedUserData, Service!vars
  <2>3. QED
    BY <2>1, <2>2
<1>7. CASE \/ OnResetLinkStates(p) \/ OnRequestLinkStatus(p) \/ IgnoreNotReset(p)
           \/ OnTestLinkStatus(p) \/ Refuse(p)
  BY <1>7 DEF OnResetLinkStates, OnRequestLinkStatus, IgnoreNotReset, OnTestLinkStatus, Refuse,
     Service!vars, history
<1>8. QED
  BY <1>5, <1>6, <1>7 DEF Secondary

\* Two link layers and a lossy line implement the at-most-once, in-order service that
\* LinkService promises the transport layers, for every retry limit and line capacity.
THEOREM LinkImplementsService == Spec => ImplementsService
<1>1. Init => Service!Init
  BY SameStations DEF Init, Service!Init
<1>2. TypeOK /\ TimerIffWaiting /\ IInv /\ [Next]_vars => [Service!Next]_(Service!vars)
  <2> SUFFICES ASSUME TypeOK, TimerIffWaiting, IInv, [Next]_vars
               PROVE  Service!Next \/ UNCHANGED Service!vars
    OBVIOUS
  <2>1. CASE UNCHANGED vars
    BY <2>1 DEF vars, history, Service!vars
  <2>2. ASSUME NEW p \in Stations, LowerLayer(p) \/ Sending(p) \/ Primary(p) \/ Secondary(p)
        PROVE  Service!Next \/ UNCHANGED Service!vars
    BY <2>2, LowerLayerStep, SendingStep, PrimaryStep, SecondaryStep, SameStations DEF Service!Next
  <2>3. QED
    BY <2>1, <2>2 DEF Next
<1>3. QED
  BY <1>1, <1>2, TypeCorrect, TimerCorrect, InvInvariant, PTL DEF Spec, ImplementsService, Service!Spec
=============================================================================
