----------------------------- MODULE LinkLayer -----------------------------
(***************************************************************************)
(* The DNP3 data link layer of two stations and the line between them:     *)
(* LinkLayer with its primary (PriLinkLayerStates) and secondary           *)
(* (SecLinkLayerStates) state machines, one of each per station.           *)
(*                                                                         *)
(* The line is a FIFO queue per direction that may lose any frame; frames  *)
(* are never reordered or invented, and only retransmission duplicates     *)
(* them. Either station may lose its lower layer at any moment. The user   *)
(* of a station is its transport layer, which hands over one operation at  *)
(* a time and waits for OnSendSuccess, OnSendFailure or OnLowerLayerDown.  *)
(*                                                                         *)
(* A station in Foreign runs another vendor's stack. It follows the same   *)
(* procedures and, in addition, sends what LinkLayer understands but never *)
(* sends itself: TestLinkStatus, RequestLinkStatus, Nack and NotSupported. *)
(***************************************************************************)
EXTENDS Naturals, Sequences

CONSTANTS
  Master, Outstation,  \* the two stations
  Confirming,          \* the stations configured with UseConfirms
  Foreign,             \* the stations that run another implementation
  NumRetry,            \* LinkConfig::NumRetry
  LineCapacity,        \* bound: frames on the line in one direction
  MaxSends,            \* bound: MaxSends[p] operations are handed over by station p
  MaxProbes,           \* bound: link status requests of foreign stations
  MaxDowns             \* bound: losses of the lower layer

Stations == {Master, Outstation}
Other(p) == IF p = Master THEN Outstation ELSE Master

ASSUME LinkAssumption ==
  /\ Master # Outstation
  /\ Confirming \subseteq Stations /\ Foreign \subseteq Stations
  /\ NumRetry \in Nat /\ LineCapacity \in Nat
  /\ MaxSends \in [Stations -> Nat] /\ MaxProbes \in Nat /\ MaxDowns \in Nat

VARIABLES
  online,     \* mIsOnline
  pri,        \* mpPriState
  sec,        \* mpSecState
  timer,      \* mpTimer # NULL
  retry,      \* mRetryRemaining
  readFCB,    \* mNextReadFCB
  writeFCB,   \* mNextWriteFCB
  delayed,    \* mDelayedPriFrame
  line,       \* line[p]: frames sent by p that Other(p) has not read yet
  busy,       \* the user of p waits for the outcome of an operation
  sent,       \* history: operations handed over by the user of p
  delivered,  \* history: operations whose payload the user of p received
  confirmed,  \* history: payloads of p reported as sent by a link-level Ack
  late,       \* history: p gave up waiting while an answer could still come
  probes,     \* number of link status requests so far
  downs       \* number of losses of a lower layer so far

fcbVars  == <<readFCB, writeFCB>>
history  == <<sent, delivered, confirmed, late>>
vars == <<online, pri, sec, timer, retry, fcbVars, delayed, line, busy, history, probes, downs>>

---------------------------------------------------------------------------
(* Frames. The id names the operation a frame belongs to; it is not on the *)
(* wire and no handler looks at it. Frames that belong to none have id 0.  *)

Commands == {"ResetLinkStates", "TestLinkStatus", "RequestLinkStatus",
             "ConfirmedUserData", "UnconfirmedUserData"}
Answers  == {"Ack", "Nack", "LinkStatus", "NotSupported"}

Frame == [fc : Commands \cup Answers, id : Nat, fcb : BOOLEAN]

Plain(fc)        == [fc |-> fc, id |-> 0, fcb |-> FALSE]
Numbered(fc, n, b) == [fc |-> fc, id |-> n, fcb |-> b]

Waiting == {"ResetLinkWait", "ConfDataWait"}

\* LinkLayer::Transmit. A frame sent to a station that is not listening, or
\* onto a line that is full, is lost.
Put(q, p, f) == IF online[Other(p)] /\ Len(q) < LineCapacity THEN Append(q, f) ELSE q
Transmit(p, f) == line' = [line EXCEPT ![p] = Put(@, p, f)]

\* p reads a frame with function code fc, and answers it with f or not at all.
Incoming(p)    == Head(line[Other(p)])
Receives(p, fc) == online[p] /\ line[Other(p)] # <<>> /\ Incoming(p).fc = fc
Consume(p)     == line' = [line EXCEPT ![Other(p)] = Tail(@)]
ConsumeAndTransmit(p, f) ==
  line' = [line EXCEPT ![Other(p)] = Tail(@), ![p] = Put(@, p, f)]

\* Something p sent is still on the line, or an answer to it among the frames of unread.
AnswerOutstanding(p, unread) ==
  \/ \E i \in DOMAIN line[p] :
       line[p][i].fc \in {"ResetLinkStates", "TestLinkStatus", "ConfirmedUserData"}
  \/ \E i \in DOMAIN unread : unread[i].fc \in Answers

\* p stops waiting for the answer to the frame it sent last.
StopWaiting(p, unread) == late' = [late EXCEPT ![p] = @ \/ AnswerOutstanding(p, unread)]

---------------------------------------------------------------------------
TypeOK ==
  /\ online \in [Stations -> BOOLEAN]
  /\ pri \in [Stations -> {"SecNotReset", "SecReset"} \cup Waiting]
  /\ sec \in [Stations -> {"NotReset", "Reset"}]
  /\ timer \in [Stations -> BOOLEAN]
  /\ retry \in [Stations -> 0..NumRetry]
  /\ readFCB \in [Stations -> BOOLEAN]
  /\ writeFCB \in [Stations -> BOOLEAN]
  /\ delayed \in [Stations -> Frame]
  /\ line \in [Stations -> Seq(Frame)]
  /\ busy \in [Stations -> BOOLEAN]
  /\ sent \in [Stations -> Nat]
  /\ delivered \in [Stations -> Seq(Nat)]
  /\ confirmed \in [Stations -> SUBSET Nat]
  /\ late \in [Stations -> BOOLEAN]
  /\ probes \in Nat
  /\ downs \in Nat

Init ==
  /\ online = [p \in Stations |-> FALSE]
  /\ pri = [p \in Stations |-> "SecNotReset"]
  /\ sec = [p \in Stations |-> "NotReset"]
  /\ timer = [p \in Stations |-> FALSE]
  /\ retry = [p \in Stations |-> 0]
  /\ readFCB = [p \in Stations |-> FALSE]
  /\ writeFCB = [p \in Stations |-> FALSE]
  /\ delayed = [p \in Stations |-> Plain("ConfirmedUserData")]
  /\ line = [p \in Stations |-> <<>>]
  /\ busy = [p \in Stations |-> FALSE]
  /\ sent = [p \in Stations |-> 0]
  /\ delivered = [p \in Stations |-> <<>>]
  /\ confirmed = [p \in Stations |-> {}]
  /\ late = [p \in Stations |-> FALSE]
  /\ probes = 0
  /\ downs = 0

---------------------------------------------------------------------------
(* The lower layer *)

OnLowerLayerUp(p) ==
  /\ ~online[p]
  /\ online' = [online EXCEPT ![p] = TRUE]
  /\ UNCHANGED <<pri, sec, timer, retry, fcbVars, delayed, line, busy, history, probes, downs>>

\* What p has not read is gone; what it sent may still arrive.
OnLowerLayerDown(p) ==
  /\ online[p]
  /\ downs < MaxDowns
  /\ downs' = downs + 1
  /\ timer' = [timer EXCEPT ![p] = FALSE]
  /\ online' = [online EXCEPT ![p] = FALSE]
  /\ pri' = [pri EXCEPT ![p] = "SecNotReset"]
  /\ sec' = [sec EXCEPT ![p] = "NotReset"]
  /\ busy' = [busy EXCEPT ![p] = FALSE]
  /\ line' = [line EXCEPT ![Other(p)] = <<>>]
  /\ StopWaiting(p, <<>>)
  /\ UNCHANGED <<retry, fcbVars, delayed, sent, delivered, confirmed, probes>>

LoseFrame(p) ==
  /\ line[p] # <<>>
  /\ line' = [line EXCEPT ![p] = Tail(@)]
  /\ UNCHANGED <<online, pri, sec, timer, retry, fcbVars, delayed, busy, history, probes, downs>>

---------------------------------------------------------------------------
(* Sending *)

\* The user hands over its next operation.
CanSend(p) == online[p] /\ ~busy[p] /\ sent[p] < MaxSends[p]
NextId(p) == sent[p] + 1

\* PLLS_SecNotReset and PLLS_SecReset, SendUnconfirmed
SendUnconfirmed(p) ==
  /\ CanSend(p) /\ p \notin Confirming
  /\ pri[p] \notin Waiting
  /\ sent' = [sent EXCEPT ![p] = NextId(p)]
  /\ Transmit(p, Numbered("UnconfirmedUserData", NextId(p), FALSE))
  /\ UNCHANGED <<online, pri, sec, timer, retry, fcbVars, delayed, busy, delivered, confirmed,
                 late, probes, downs>>

\* What both states of a confirmed send share: one more operation is outstanding.
BeginConfirmed(p, state, f) ==
  /\ retry' = [retry EXCEPT ![p] = NumRetry]
  /\ timer' = [timer EXCEPT ![p] = TRUE]
  /\ pri' = [pri EXCEPT ![p] = state]
  /\ delayed' = [delayed EXCEPT ![p] = f]
  /\ busy' = [busy EXCEPT ![p] = TRUE]
  /\ sent' = [sent EXCEPT ![p] = NextId(p)]
  /\ UNCHANGED <<online, sec, fcbVars, delivered, confirmed, late, probes, downs>>

\* PLLS_SecNotReset::SendConfirmed
SendConfirmedNotReset(p) ==
  /\ CanSend(p) /\ p \in Confirming
  /\ pri[p] = "SecNotReset"
  /\ BeginConfirmed(p, "ResetLinkWait", Numbered("ConfirmedUserData", NextId(p), TRUE))
  /\ Transmit(p, Plain("ResetLinkStates"))

\* PLLS_SecReset::SendConfirmed
SendConfirmedReset(p) ==
  /\ CanSend(p) /\ p \in Confirming
  /\ pri[p] = "SecReset"
  /\ LET f == Numbered("ConfirmedUserData", NextId(p), writeFCB[p])
     IN  BeginConfirmed(p, "ConfDataWait", f) /\ Transmit(p, f)

\* A foreign station tests a link it has reset, by the procedure of confirmed data.
SendTestLinkStatus(p) ==
  /\ CanSend(p) /\ p \in Foreign \cap Confirming
  /\ pri[p] = "SecReset"
  /\ LET f == Numbered("TestLinkStatus", NextId(p), writeFCB[p])
     IN  BeginConfirmed(p, "ConfDataWait", f) /\ Transmit(p, f)

\* A foreign station asks for the link status; it keeps no state for it.
SendRequestLinkStatus(p) ==
  /\ online[p] /\ p \in Foreign
  /\ probes < MaxProbes
  /\ probes' = probes + 1
  /\ Transmit(p, Plain("RequestLinkStatus"))
  /\ UNCHANGED <<online, pri, sec, timer, retry, fcbVars, delayed, busy, history, downs>>

---------------------------------------------------------------------------
(* The primary station: the answer to a command, or no answer in time *)

\* PriStateBase: an answer nobody waits for is logged and dropped.
AnswerNotUnderstood(p) ==
  /\ \E fc \in Answers : Receives(p, fc)
  /\ pri[p] \notin Waiting
  /\ Consume(p)
  /\ UNCHANGED <<online, pri, sec, timer, retry, fcbVars, delayed, busy, history, probes, downs>>

\* PLLS_ResetLinkWait::Ack. The timer is restarted; the retries left are kept.
AckOfReset(p) ==
  /\ Receives(p, "Ack")
  /\ pri[p] = "ResetLinkWait"
  /\ writeFCB' = [writeFCB EXCEPT ![p] = TRUE]
  /\ timer' = [timer EXCEPT ![p] = TRUE]
  /\ pri' = [pri EXCEPT ![p] = "ConfDataWait"]
  /\ delayed' = [delayed EXCEPT ![p].fcb = TRUE]
  /\ ConsumeAndTransmit(p, [delayed[p] EXCEPT !.fcb = TRUE])
  /\ UNCHANGED <<online, sec, retry, readFCB, busy, history, probes, downs>>

\* PLLS_ConfDataWait::Ack
AckOfData(p) ==
  /\ Receives(p, "Ack")
  /\ pri[p] = "ConfDataWait"
  /\ writeFCB' = [writeFCB EXCEPT ![p] = ~@]
  /\ timer' = [timer EXCEPT ![p] = FALSE]
  /\ pri' = [pri EXCEPT ![p] = "SecReset"]
  /\ busy' = [busy EXCEPT ![p] = FALSE]
  /\ confirmed' = [confirmed EXCEPT ![p] =
                     IF delayed[p].fc = "ConfirmedUserData" THEN @ \cup {delayed[p].id} ELSE @]
  /\ Consume(p)
  /\ UNCHANGED <<online, sec, retry, readFCB, delayed, sent, delivered, late, probes, downs>>

\* Mutant of GiveUp: the link is still taken as reset after a failure.
GiveUpLinkReset(p) ==
  /\ timer' = [timer EXCEPT ![p] = FALSE]
  /\ pri' = [pri EXCEPT ![p] = "SecReset"]
  /\ busy' = [busy EXCEPT ![p] = FALSE]

\* DoSendFailure, with the link taken as not reset from now on.
GiveUp(p) ==
  /\ timer' = [timer EXCEPT ![p] = FALSE]
  /\ pri' = [pri EXCEPT ![p] = "SecNotReset"]
  /\ busy' = [busy EXCEPT ![p] = FALSE]

\* Failure of PLLS_ResetLinkWait and PLLS_ConfDataWait: any answer but an Ack.
AnswerIsFailure(p) ==
  /\ \E fc \in Answers \ {"Ack"} : Receives(p, fc)
  /\ pri[p] \in Waiting
  /\ GiveUp(p)
  /\ StopWaiting(p, Tail(line[Other(p)]))
  /\ Consume(p)
  /\ UNCHANGED <<online, sec, retry, fcbVars, delayed, sent, delivered, confirmed, probes, downs>>

\* Mutants of Retry: the count has no end, or the end is not looked at.
RetryForEver(p) == retry' = [retry EXCEPT ![p] = @]
RetryAlways(p)  == retry' = [retry EXCEPT ![p] = @ - 1]

\* LinkLayer::Retry
Retry(p) == retry[p] > 0 /\ retry' = [retry EXCEPT ![p] = @ - 1]

\* LinkLayer::OnTimeout and OnTimeout of PLLS_ResetLinkWait and PLLS_ConfDataWait
OnTimeout(p) ==
  /\ timer[p]
  /\ pri[p] \in Waiting
  /\ StopWaiting(p, line[Other(p)])
  /\ \/ /\ Retry(p)
        /\ IF pri[p] = "ResetLinkWait"
             THEN Transmit(p, Plain("ResetLinkStates")) /\ UNCHANGED delayed
             ELSE /\ delayed' = [delayed EXCEPT ![p].fcb = writeFCB[p]]
                  /\ Transmit(p, [delayed[p] EXCEPT !.fcb = writeFCB[p]])
        /\ UNCHANGED <<timer, pri, busy>>
     \/ /\ retry[p] = 0
        /\ GiveUp(p)
        /\ UNCHANGED <<retry, delayed, line>>
  /\ UNCHANGED <<online, sec, fcbVars, sent, delivered, confirmed, probes, downs>>

---------------------------------------------------------------------------
(* The secondary station: the commands of the other one *)

\* SecStateBase::ResetLinkStates
OnResetLinkStates(p) ==
  /\ Receives(p, "ResetLinkStates")
  /\ readFCB' = [readFCB EXCEPT ![p] = TRUE]
  /\ sec' = [sec EXCEPT ![p] = "Reset"]
  /\ ConsumeAndTransmit(p, Plain("Ack"))
  /\ UNCHANGED <<online, pri, timer, retry, writeFCB, delayed, busy, history, probes, downs>>

\* SecStateBase::RequestLinkStatus
OnRequestLinkStatus(p) ==
  /\ Receives(p, "RequestLinkStatus")
  /\ ConsumeAndTransmit(p, Plain("LinkStatus"))
  /\ UNCHANGED <<online, pri, sec, timer, retry, fcbVars, delayed, busy, history, probes, downs>>

\* Mutant of IsNext: the frame count bit is not looked at.
AnyIsNext(p) == TRUE

\* The command p reads carries the frame count bit p expects: it is no repetition.
IsNext(p) == Incoming(p).fcb = readFCB[p]

\* DoDataUp: the payload goes to the user of p.
DataUp(p) == delivered' = [delivered EXCEPT ![p] = Append(@, Incoming(p).id)]

\* SecStateBase::UnconfirmedUserData
OnUnconfirmedUserData(p) ==
  /\ Receives(p, "UnconfirmedUserData")
  /\ DataUp(p)
  /\ Consume(p)
  /\ UNCHANGED <<online, pri, sec, timer, retry, fcbVars, delayed, busy, sent, confirmed, late,
                 probes, downs>>

\* SLLS_NotReset ignores both commands that carry a frame count bit.
IgnoreNotReset(p) ==
  /\ Receives(p, "TestLinkStatus") \/ Receives(p, "ConfirmedUserData")
  /\ sec[p] = "NotReset"
  /\ Consume(p)
  /\ UNCHANGED <<online, pri, sec, timer, retry, fcbVars, delayed, busy, history, probes, downs>>

\* SLLS_Reset::TestLinkStatus. With the wrong bit the answer is not repeated.
OnTestLinkStatus(p) ==
  /\ Receives(p, "TestLinkStatus")
  /\ sec[p] = "Reset"
  /\ \/ /\ IsNext(p)
        /\ readFCB' = [readFCB EXCEPT ![p] = ~@]
        /\ ConsumeAndTransmit(p, Plain("Ack"))
     \/ /\ ~IsNext(p)
        /\ Consume(p)
        /\ UNCHANGED readFCB
  /\ UNCHANGED <<online, pri, sec, timer, retry, writeFCB, delayed, busy, history, probes, downs>>

\* SLLS_Reset::ConfirmedUserData. A repetition is acknowledged again, not delivered again.
OnConfirmedUserData(p) ==
  /\ Receives(p, "ConfirmedUserData")
  /\ sec[p] = "Reset"
  /\ ConsumeAndTransmit(p, Plain("Ack"))
  /\ \/ /\ IsNext(p)
        /\ readFCB' = [readFCB EXCEPT ![p] = ~@]
        /\ DataUp(p)
     \/ /\ ~IsNext(p)
        /\ UNCHANGED <<readFCB, delivered>>
  /\ UNCHANGED <<online, pri, sec, timer, retry, writeFCB, delayed, busy, sent, confirmed, late,
                 probes, downs>>

\* A foreign station may refuse a command that LinkLayer always serves.
Refuse(p) ==
  /\ p \in Foreign
  /\ \E fc \in {"ResetLinkStates", "TestLinkStatus", "ConfirmedUserData"} : Receives(p, fc)
  /\ \E answer \in {"Nack", "NotSupported"} : ConsumeAndTransmit(p, Plain(answer))
  /\ UNCHANGED <<online, pri, sec, timer, retry, fcbVars, delayed, busy, history, probes, downs>>

---------------------------------------------------------------------------
LowerLayer(p) == OnLowerLayerUp(p) \/ OnLowerLayerDown(p) \/ LoseFrame(p)

Sending(p) ==
  \/ SendUnconfirmed(p) \/ SendConfirmedNotReset(p) \/ SendConfirmedReset(p)
  \/ SendTestLinkStatus(p) \/ SendRequestLinkStatus(p)

Primary(p) ==
  AnswerNotUnderstood(p) \/ AckOfReset(p) \/ AckOfData(p) \/ AnswerIsFailure(p) \/ OnTimeout(p)

Secondary(p) ==
  \/ OnResetLinkStates(p) \/ OnRequestLinkStatus(p) \/ OnUnconfirmedUserData(p)
  \/ IgnoreNotReset(p) \/ OnTestLinkStatus(p) \/ OnConfirmedUserData(p) \/ Refuse(p)

Next == \E p \in Stations : LowerLayer(p) \/ Sending(p) \/ Primary(p) \/ Secondary(p)

Spec == Init /\ [][Next]_vars

\* The timer service runs every timer that is not cancelled.
FairSpec == Spec /\ \A p \in Stations : WF_vars(OnTimeout(p))

---------------------------------------------------------------------------
(* Properties *)

\* A station waits for an answer exactly when its timer runs and its user waits for
\* an outcome, and then it is online. OnTimeout, CancelTimer and StartTimer assert the
\* first half; _Send relies on the second, or PriStateBase::SendConfirmed throws.
TimerIffWaiting ==
  \A p \in Stations :
    /\ pri[p] \in Waiting <=> timer[p]
    /\ pri[p] \in Waiting <=> busy[p]
    /\ timer[p] => online[p]

\* No payload reaches the receiving user twice or after a later one, whatever frames
\* and acknowledgements are lost, repeated or cut off by a restart: the frame count
\* bit of SLLS_Reset::ConfirmedUserData is enough for that.
AtMostOnceInOrder ==
  \A p \in Stations : \A i, j \in DOMAIN delivered[p] : i < j => delivered[p][i] < delivered[p][j]

\* Acknowledgements carry no number, so DoSendSuccess is only as good as the response
\* timeout: a station that never gave up on an answer still on its way has had every
\* payload it reported as sent delivered to the other user.
SuccessMeansDelivered ==
  \A p \in Stations :
    late[p] \/ \A n \in confirmed[p] : \E i \in DOMAIN delivered[Other(p)] : delivered[Other(p)][i] = n

\* The user of the link is always told how its operation ended ("The callback is
\* guaranteed", AsyncLayerInterfaces.h), since timeouts consume a bounded number of
\* retries that nothing restores during an operation.
SendCompletes == \A p \in Stations : busy[p] ~> ~busy[p]

\* The two link layers and their line implement the at-most-once link service.
Service == INSTANCE LinkService WITH sent <- sent, busy <- busy, delivered <- delivered
ImplementsService == Service!Spec
=============================================================================
