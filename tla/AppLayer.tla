----------------------------- MODULE AppLayer -----------------------------
(***************************************************************************)
(* The DNP3 application layer of a master and an outstation: AppLayer with *)
(* its send queue and its automatic confirmations, the solicited and the   *)
(* unsolicited AppLayerChannel with their states (AppChannelStates), and   *)
(* the transports and links between the two as a lossy line.               *)
(*                                                                         *)
(* The layer below delivers fragments in order and at most once (what      *)
(* LinkLayer implements of LinkService), loses some, and tells the outcome *)
(* of a Send at any later moment: a fragment may be read, and answered,    *)
(* before its sender hears OnSendSuccess. It may fail a fragment that did  *)
(* arrive.                                                                 *)
(*                                                                         *)
(* The users are Master and Slave: one transaction per channel at a time,  *)
(* and the outstation answers the last request it was given.               *)
(***************************************************************************)
EXTENDS Integers, Sequences

CONSTANTS
  Master, Outstation,  \* the two stations
  NumRetry,            \* AppConfig::NumRetry
  Functions,           \* the kinds of request the master sends
  Capacity,            \* bound: fragments on the line in one direction
  MaxHanded,           \* bound: MaxHanded[k] fragments are handed to channel k by its user
  MaxDowns             \* bound: MaxDowns[p] losses of the lower layer of station p

Stations == {Master, Outstation}
Other(p) == IF p = Master THEN Outstation ELSE Master

Channels == Stations \X {"sol", "uns"}
Sol(p) == <<p, "sol">>
Uns(p) == <<p, "uns">>

Requests == {"READ", "WRITE", "VTO", "UNKNOWN"}   \* UNKNOWN: its objects cannot be parsed

ASSUME AppAssumption ==
  /\ Master # Outstation
  /\ NumRetry \in Nat /\ Capacity \in Nat /\ Functions \subseteq Requests
  /\ MaxHanded \in [Channels -> Nat] /\ MaxDowns \in [Stations -> Nat]

VARIABLES
  up,              \* IsLowerLayerUp
  queue,           \* mSendQueue
  sending,         \* mSending
  confirmSending,  \* mConfirmSending
  state,           \* mpState of a channel
  seq,             \* mSequence of a channel
  timer,           \* mpTimer # NULL of a channel
  retry,           \* mNumRetry of a channel
  apdu,            \* mpSendAPDU of a channel
  wire,            \* wire[p]: fragments sent by p that Other(p) has not read yet
  busy,            \* the user of a channel waits for the outcome of its transaction
  asked,           \* the request the outstation has to answer
  handed,          \* number of fragments handed to a channel by its user
  downs,           \* number of losses of the lower layer of a station
  reported,        \* history: requests the outstation was given as new ones
  handled,         \* history: responses the master's user was given
  unsols,          \* history: unsolicited responses the master's user was given
  confirmed        \* history: fragments the outstation was told are confirmed

sendVars == <<queue, sending, confirmSending>>
chanVars == <<state, seq, timer, retry, apdu>>
history  == <<reported, handled, unsols, confirmed>>
vars == <<up, sendVars, chanVars, wire, busy, asked, handed, downs, history>>

---------------------------------------------------------------------------
(* Fragments. The id counts what a user hands to a channel and req is the  *)
(* request a response answers; neither is on the wire nor looked at.       *)

Executed == {"WRITE", "VTO"}                      \* Slave skips them when they are repeated

Fragment == [fc : Requests \cup {"RESPONSE", "UNSOLICITED", "CONFIRM"}, ch : {"sol", "uns"},
             seq : 0..15, fir : BOOLEAN, fin : BOOLEAN, con : BOOLEAN, id : Nat, req : Nat]

\* Mutant of NextSeq: the sequence does not advance.
SameSeq(s) == IF s < 0 THEN 0 ELSE s

NextSeq(s) == (s + 1) % 16

\* AppLayer::GetRetries: what carries a time object is not repeated.
Retries(fc) == IF fc \in {"RESPONSE", "WRITE"} THEN 0 ELSE NumRetry

SendStates == {"Send", "SendConfirmed", "SendExpectResponse", "SendCanceled"}
WaitStates == {"WaitForConfirm", "WaitForFirstResponse", "WaitForFinalResponse"}
AcceptsResponse(k) == state[k] \in {"WaitForFirstResponse", "WaitForFinalResponse"}

Nothing == [req |-> 0, fc |-> "READ", fir |-> TRUE]

\* What is on the line once p sends f: nothing more if it is full or nobody listens.
Put(p, q, f) == IF up[Other(p)] /\ Len(q) < Capacity THEN Append(q, f) ELSE q

\* AppLayer::QueueFrame and CheckForSend; unread is what p still has to read.
QueueFrame(p, f, unread) ==
  /\ queue' = [queue EXCEPT ![p] = Append(@, f)]
  /\ sending' = [sending EXCEPT ![p] = TRUE]
  /\ wire' = [wire EXCEPT ![Other(p)] = unread,
                          ![p] = IF sending[p] THEN @ ELSE Put(p, @, Head(Append(queue[p], f)))]

\* The rest of OnSendResult: the front is dequeued, its channel appends what it
\* repeats, and CheckForSend sends the new front.
Dequeue(p, repeated) ==
  LET q == Tail(queue[p]) \o repeated
  IN  /\ queue' = [queue EXCEPT ![p] = q]
      /\ sending' = [sending EXCEPT ![p] = q # <<>>]
      /\ wire' = IF q = <<>> THEN wire ELSE [wire EXCEPT ![p] = Put(p, @, Head(q))]

Incoming(p) == Head(wire[Other(p)])
Unread(p)   == Tail(wire[Other(p)])
Receives(p, fcs) == up[p] /\ wire[Other(p)] # <<>> /\ Incoming(p).fc \in fcs
Consume(p)  == wire' = [wire EXCEPT ![Other(p)] = Tail(@)]

---------------------------------------------------------------------------
TypeOK ==
  /\ up \in [Stations -> BOOLEAN]
  /\ queue \in [Stations -> Seq(Fragment)]
  /\ sending \in [Stations -> BOOLEAN]
  /\ confirmSending \in [Stations -> BOOLEAN]
  /\ state \in [Channels -> {"Idle"} \cup SendStates \cup WaitStates]
  /\ seq \in [Channels -> -1..15]
  /\ timer \in [Channels -> BOOLEAN]
  /\ retry \in [Channels -> 0..NumRetry]
  /\ apdu \in [Channels -> Fragment]
  /\ wire \in [Stations -> Seq(Fragment)]
  /\ busy \in [Channels -> BOOLEAN]
  /\ asked \in [req : Nat, fc : Requests, fir : BOOLEAN]
  /\ handed \in [Channels -> Nat]
  /\ downs \in [Stations -> Nat]
  /\ reported \in Seq(Nat)
  /\ handled \in SUBSET Fragment
  /\ unsols \in Seq(Nat)
  /\ confirmed \in SUBSET Fragment

Init ==
  /\ up = [p \in Stations |-> FALSE]
  /\ queue = [p \in Stations |-> <<>>]
  /\ sending = [p \in Stations |-> FALSE]
  /\ confirmSending = [p \in Stations |-> FALSE]
  /\ state = [k \in Channels |-> "Idle"]
  /\ seq = [k \in Channels |-> -1]
  /\ timer = [k \in Channels |-> FALSE]
  /\ retry = [k \in Channels |-> 0]
  /\ apdu = [k \in Channels |-> [fc |-> "READ", ch |-> "sol", seq |-> 0, fir |-> TRUE,
                                 fin |-> TRUE, con |-> FALSE, id |-> 0, req |-> 0]]
  /\ wire = [p \in Stations |-> <<>>]
  /\ busy = [k \in Channels |-> FALSE]
  /\ asked = Nothing
  /\ handed = [k \in Channels |-> 0]
  /\ downs = [p \in Stations |-> 0]
  /\ reported = <<>>
  /\ handled = {}
  /\ unsols = <<>>
  /\ confirmed = {}

---------------------------------------------------------------------------
(* The lower layer *)

OnLowerLayerUp(p) ==
  /\ ~up[p]
  /\ up' = [up EXCEPT ![p] = TRUE]
  /\ UNCHANGED <<sendVars, chanVars, wire, busy, asked, handed, downs, history>>

\* AppLayer::_OnLowerLayerDown, AppLayerChannel::Reset of both channels. What p has
\* not read is gone; what it sent may still arrive.
OnLowerLayerDown(p) ==
  /\ up[p]
  /\ downs[p] < MaxDowns[p]
  /\ up' = [up EXCEPT ![p] = FALSE]
  /\ downs' = [downs EXCEPT ![p] = @ + 1]
  /\ state' = [k \in Channels |-> IF k[1] = p THEN "Idle" ELSE state[k]]
  /\ seq'   = [k \in Channels |-> IF k[1] = p THEN -1 ELSE seq[k]]
  /\ timer' = [k \in Channels |-> IF k[1] = p THEN FALSE ELSE timer[k]]
  /\ queue' = [queue EXCEPT ![p] = <<>>]
  /\ sending' = [sending EXCEPT ![p] = FALSE]
  /\ wire' = [wire EXCEPT ![Other(p)] = <<>>]
  /\ busy' = [k \in Channels |-> IF k[1] = p THEN FALSE ELSE busy[k]]
  /\ asked' = IF p = Outstation THEN Nothing ELSE asked
  /\ UNCHANGED <<confirmSending, retry, apdu, handed, history>>

LoseFragment(p) ==
  /\ wire[p] # <<>>
  /\ wire' = [wire EXCEPT ![p] = Tail(@)]
  /\ UNCHANGED <<up, sendVars, chanVars, busy, asked, handed, downs, history>>

---------------------------------------------------------------------------
(* What the users start *)

CanSend(k) == up[k[1]] /\ state[k] = "Idle" /\ handed[k] < MaxHanded[k]

\* AppLayerChannel::Send and ACS_Idle::Send
Send(k, next, f) ==
  /\ state' = [state EXCEPT ![k] = next]
  /\ seq' = [seq EXCEPT ![k] = f.seq]
  /\ retry' = [retry EXCEPT ![k] = Retries(f.fc)]
  /\ apdu' = [apdu EXCEPT ![k] = f]
  /\ busy' = [busy EXCEPT ![k] = TRUE]
  /\ handed' = [handed EXCEPT ![k] = @ + 1]
  /\ QueueFrame(k[1], f, wire[Other(k[1])])
  /\ UNCHANGED <<up, confirmSending, timer, downs, history>>

SendRequest ==
  LET k == Sol(Master) IN
  /\ CanSend(k)
  /\ \E fc \in Functions :
       Send(k, "SendExpectResponse",
            [fc |-> fc, ch |-> "sol", seq |-> NextSeq(seq[k]), fir |-> TRUE, fin |-> TRUE,
             con |-> FALSE, id |-> handed[k] + 1, req |-> handed[k] + 1])
  /\ UNCHANGED asked

\* The next fragment of the answer. Only a READ takes more than one fragment or asks for
\* confirmation, and every fragment but the last one does (FinalizeResponse).
SendResponse ==
  LET k == Sol(Outstation) IN
  /\ CanSend(k)
  /\ asked # Nothing
  /\ asked.fir => seq[k] >= 0
  /\ \E fin, con \in BOOLEAN :
       /\ fin \/ con
       /\ asked.fc # "READ" => fin /\ ~con
       /\ asked' = IF fin THEN Nothing ELSE [asked EXCEPT !.fir = FALSE]
       /\ Send(k, IF con THEN "SendConfirmed" ELSE "Send",
               [fc |-> "RESPONSE", ch |-> "sol",
                seq |-> IF asked.fir THEN seq[k] ELSE NextSeq(seq[k]),
                fir |-> asked.fir, fin |-> fin, con |-> con,
                id |-> handed[k] + 1, req |-> asked.req])

SendUnsolicited ==
  LET k == Uns(Outstation) IN
  /\ CanSend(k)
  /\ Send(k, "SendConfirmed",
          [fc |-> "UNSOLICITED", ch |-> "uns", seq |-> NextSeq(seq[k]), fir |-> TRUE,
           fin |-> TRUE, con |-> TRUE, id |-> handed[k] + 1, req |-> 0])
  /\ UNCHANGED asked

\* The user of k is told that its transaction failed; Slave drops what is left of a response.
Failure(k) ==
  /\ state' = [state EXCEPT ![k] = "Idle"]
  /\ busy' = [busy EXCEPT ![k] = FALSE]
  /\ asked' = IF k = Sol(Outstation) /\ ~asked.fir THEN Nothing ELSE asked

\* Mutant of CancelResponse: the channel is idle before its fragment was sent.
CancelAtOnce ==
  LET k == Sol(Outstation) IN
  /\ state[k] \in SendStates \cup {"WaitForConfirm"}
  /\ timer' = [timer EXCEPT ![k] = FALSE]
  /\ Failure(k)
  /\ UNCHANGED <<up, sendVars, seq, retry, apdu, wire, handed, downs, history>>

\* Slave no longer waits for its response when it is given another request.
CancelResponse ==
  LET k == Sol(Outstation) IN
  /\ \/ /\ state[k] \in SendStates \ {"SendCanceled"}
        /\ state' = [state EXCEPT ![k] = "SendCanceled"]
        /\ UNCHANGED <<timer, busy, asked>>
     \/ /\ state[k] = "WaitForConfirm"
        /\ timer' = [timer EXCEPT ![k] = FALSE]
        /\ Failure(k)
  /\ UNCHANGED <<up, sendVars, seq, retry, apdu, wire, handed, downs, history>>

CancelUnsolicitedRetries ==
  /\ busy[Uns(Outstation)]
  /\ retry' = [retry EXCEPT ![Uns(Outstation)] = 0]
  /\ UNCHANGED <<up, sendVars, state, seq, timer, apdu, wire, busy, asked, handed, downs, history>>

---------------------------------------------------------------------------
(* The outcome of a Send of the lower layer, and the response timer *)

\* Mutants of Retry: the count has no end, or the end is not looked at.
RetryForEver(k) == retry' = [retry EXCEPT ![k] = @]
RetryAlways(k)  == retry' = [retry EXCEPT ![k] = @ - 1]

\* AppLayerChannel::Retry, as far as the count of retries
Retry(k) == retry[k] > 0 /\ retry' = [retry EXCEPT ![k] = @ - 1]

\* OnSendResult for a confirmation, whatever the result
ConfirmSent(p) ==
  /\ sending[p]
  /\ Head(queue[p]).fc = "CONFIRM"
  /\ confirmSending' = [confirmSending EXCEPT ![p] = FALSE]
  /\ Dequeue(p, <<>>)
  /\ UNCHANGED <<up, chanVars, busy, asked, handed, downs, history>>

\* The channel of the fragment whose result p is waiting for
SentBy(p, k) == sending[p] /\ Head(queue[p]).fc # "CONFIRM" /\ k = <<p, Head(queue[p]).ch>>

\* ACS_Send, ACS_SendConfirmed, ACS_SendExpectResponse and ACS_SendCanceled, OnSendSuccess
OnSendSuccess(p) ==
  /\ \E k \in Channels :
       /\ SentBy(p, k)
       /\ \/ /\ state[k] = "Send"
             /\ state' = [state EXCEPT ![k] = "Idle"]
             /\ busy' = [busy EXCEPT ![k] = FALSE]
             /\ UNCHANGED <<timer, asked>>
          \/ /\ state[k] \in {"SendConfirmed", "SendExpectResponse"}
             /\ state' = [state EXCEPT ![k] = IF @ = "SendConfirmed" THEN "WaitForConfirm"
                                                ELSE "WaitForFirstResponse"]
             /\ timer' = [timer EXCEPT ![k] = TRUE]
             /\ UNCHANGED <<busy, asked>>
          \/ /\ state[k] = "SendCanceled"
             /\ Failure(k)
             /\ UNCHANGED timer
  /\ Dequeue(p, <<>>)
  /\ UNCHANGED <<up, confirmSending, seq, retry, apdu, handed, downs, history>>

\* ACS_SendBase and ACS_SendCanceled, OnSendFailure
OnSendFailure(p) ==
  /\ \E k \in Channels :
       /\ SentBy(p, k)
       /\ \/ /\ state[k] # "SendCanceled"
             /\ Retry(k)
             /\ Dequeue(p, <<apdu[k]>>)
             /\ UNCHANGED <<state, busy, asked>>
          \/ /\ state[k] = "SendCanceled" \/ retry[k] = 0
             /\ Failure(k)
             /\ Dequeue(p, <<>>)
             /\ UNCHANGED retry
  /\ UNCHANGED <<up, confirmSending, seq, timer, apdu, handed, downs, history>>

\* AppLayerChannel::Timeout. The fragment is repeated as it was sent, sequence included.
OnTimeout(k) ==
  /\ timer[k]
  /\ timer' = [timer EXCEPT ![k] = FALSE]
  /\ \/ /\ Retry(k)
        /\ state' = [state EXCEPT ![k] = IF @ = "WaitForConfirm" THEN "SendConfirmed"
                                           ELSE "SendExpectResponse"]
        /\ QueueFrame(k[1], apdu[k], wire[Other(k[1])])
        /\ UNCHANGED <<confirmSending, busy, asked>>
     \/ /\ retry[k] = 0
        /\ Failure(k)
        /\ UNCHANGED <<sendVars, retry, wire>>
  /\ UNCHANGED <<up, seq, apdu, handed, downs, history>>

---------------------------------------------------------------------------
(* What the master reads *)

\* AppLayer::QueueConfirm of f, by the master
QueueConfirm(f) ==
  /\ confirmSending' = [confirmSending EXCEPT ![Master] = TRUE]
  /\ QueueFrame(Master, [f EXCEPT !.fc = "CONFIRM", !.con = FALSE], Unread(Master))

\* Nothing to confirm: the fragment is only read.
NoConfirm == Consume(Master) /\ UNCHANGED sendVars

\* Mutant of IsExpected: the sequence is not compared.
IsExpectedAnySeq(f) == f.fir = (state[Sol(Master)] = "WaitForFirstResponse")

\* ACS_Base::ProcessResponse: f is the fragment that the channel waits for.
IsExpected(f) ==
  LET k == Sol(Master)
  IN  f.seq = seq[k] /\ f.fir = (state[k] = "WaitForFirstResponse")

\* ACS_Base::ProcessResponse: a fragment that is expected
ProcessResponse(f) ==
  LET k == Sol(Master) IN
  /\ handled' = handled \cup {f}
  /\ \/ /\ f.fin
        /\ timer' = [timer EXCEPT ![k] = FALSE]
        /\ state' = [state EXCEPT ![k] = "Idle"]
        /\ busy' = [busy EXCEPT ![k] = FALSE]
        /\ UNCHANGED seq
     \/ /\ ~f.fin
        /\ seq' = [seq EXCEPT ![k] = NextSeq(@)]
        /\ state' = [state EXCEPT ![k] = "WaitForFinalResponse"]
        /\ UNCHANGED <<timer, busy>>

\* AppLayer::OnResponse. The confirmation is queued before the response is looked at.
OnResponse ==
  /\ Receives(Master, {"RESPONSE"})
  /\ LET f == Incoming(Master)
         confirm == f.con /\ AcceptsResponse(Sol(Master))
     IN  /\ ~(confirm /\ confirmSending[Master])
         /\ IF confirm THEN QueueConfirm(f) ELSE NoConfirm /\ UNCHANGED confirmSending
         /\ IF AcceptsResponse(Sol(Master)) /\ IsExpected(f)
              THEN ProcessResponse(f)
              ELSE UNCHANGED <<state, seq, timer, busy, handled>>
  /\ UNCHANGED <<up, retry, apdu, asked, handed, downs, reported, unsols, confirmed>>

\* Mutant of IsNewUnsol: repetitions are not looked for.
AlwaysNewUnsol(f) == TRUE

\* UnsolicitedChannel::OnUnsol: f does not repeat the unsolicited response before it.
IsNewUnsol(f) == f.seq # seq[Uns(Master)]

\* AppLayer::OnUnsolResponse
OnUnsolResponse ==
  /\ Receives(Master, {"UNSOLICITED"})
  /\ ~confirmSending[Master]
  /\ LET f == Incoming(Master)
     IN  /\ QueueConfirm(f)
         /\ seq' = [seq EXCEPT ![Uns(Master)] = f.seq]
         /\ unsols' = IF IsNewUnsol(f) THEN Append(unsols, f.id) ELSE unsols
  /\ UNCHANGED <<up, state, timer, retry, apdu, busy, asked, handed, downs, reported, handled,
                 confirmed>>

\* QueueConfirm throws while the confirmation before is not sent: the fragment is dropped.
Flood ==
  /\ \/ Receives(Master, {"UNSOLICITED"})
     \/ Receives(Master, {"RESPONSE"}) /\ Incoming(Master).con /\ AcceptsResponse(Sol(Master))
  /\ confirmSending[Master]
  /\ Consume(Master)
  /\ UNCHANGED <<up, sendVars, chanVars, busy, asked, handed, downs, history>>

---------------------------------------------------------------------------
(* What the outstation reads *)

\* Mutant of IsRepeated: repetitions are not looked for.
NeverRepeated(f) == FALSE

\* SolicitedChannel::OnRequest: the user is told when the request repeats the one before.
IsRepeated(f) == f.seq = seq[Sol(Outstation)]

\* AppLayer::OnRequest, and OnUnknownObject when the objects cannot be parsed
OnRequest ==
  /\ Receives(Outstation, Requests)
  /\ LET f == Incoming(Outstation)
     IN  /\ seq' = [seq EXCEPT ![Sol(Outstation)] = f.seq]
         /\ asked' = [req |-> f.id, fc |-> f.fc, fir |-> TRUE]
         /\ reported' = IF f.fc \in Executed /\ ~IsRepeated(f)
                          THEN Append(reported, f.id) ELSE reported
  /\ Consume(Outstation)
  /\ UNCHANGED <<up, sendVars, state, timer, retry, apdu, busy, handed, downs, handled, unsols,
                 confirmed>>

\* Mutant of IsMyConfirm: the sequence is not compared.
AnyConfirm(k, f) == state[k] = "WaitForConfirm"

\* ACS_WaitForConfirm::OnConfirm: f confirms what channel k sent.
IsMyConfirm(k, f) == state[k] = "WaitForConfirm" /\ f.seq = seq[k]

\* AppLayer::OnConfirm; any other confirmation is unexpected and dropped.
OnConfirm ==
  /\ Receives(Outstation, {"CONFIRM"})
  /\ LET f == Incoming(Outstation)
         k == <<Outstation, f.ch>>
     IN  IF IsMyConfirm(k, f)
           THEN /\ timer' = [timer EXCEPT ![k] = FALSE]
                /\ state' = [state EXCEPT ![k] = "Idle"]
                /\ busy' = [busy EXCEPT ![k] = FALSE]
                /\ confirmed' = confirmed \cup {apdu[k]}
           ELSE UNCHANGED <<timer, state, busy, confirmed>>
  /\ Consume(Outstation)
  /\ UNCHANGED <<up, sendVars, seq, retry, apdu, asked, handed, downs, reported, handled, unsols>>

---------------------------------------------------------------------------
Line(p) == OnLowerLayerUp(p) \/ OnLowerLayerDown(p) \/ LoseFragment(p)
SendResult(p) == ConfirmSent(p) \/ OnSendSuccess(p) \/ OnSendFailure(p)
Users ==
  \/ SendRequest \/ SendResponse \/ SendUnsolicited
  \/ CancelResponse \/ CancelUnsolicitedRetries
Receive == OnResponse \/ OnUnsolResponse \/ Flood \/ OnRequest \/ OnConfirm

Next ==
  \/ \E p \in Stations : Line(p) \/ SendResult(p)
  \/ \E k \in Channels : OnTimeout(k)
  \/ Users
  \/ Receive

Spec == Init /\ [][Next]_vars

\* The layer below ends every Send (SendCompletes of LinkLayer) and timers expire.
FairSpec ==
  /\ Spec
  /\ \A p \in Stations : WF_vars(SendResult(p))
  /\ \A k \in Channels : WF_vars(OnTimeout(k))

---------------------------------------------------------------------------
(* Properties *)

Range(s) == {s[i] : i \in DOMAIN s}
Queued(k) == {i \in DOMAIN queue[k[1]] : queue[k[1]][i].fc # "CONFIRM" /\ queue[k[1]][i].ch = k[2]}
Increasing(s) == \A i, j \in DOMAIN s : i < j => s[i] < s[j]

\* The transmitter and the channels agree: a Send is outstanding exactly when something
\* is queued, a channel has its fragment queued exactly once while it is sending and not
\* at all otherwise, and the one confirmation in the queue is accounted for. OnSendResult
\* asserts and throws when any of this fails.
QueueMatchesChannels ==
  /\ \A p \in Stations :
       /\ sending[p] <=> queue[p] # <<>>
       /\ \A i, j \in DOMAIN queue[p] :
            queue[p][i].fc = "CONFIRM" /\ queue[p][j].fc = "CONFIRM" => i = j /\ confirmSending[p]
  /\ \A k \in Channels :
       IF state[k] \in SendStates THEN \E i \in Queued(k) : Queued(k) = {i}
                                  ELSE Queued(k) = {}

\* The response timer runs exactly in the waiting states, so that StartTimer and
\* CancelTimer never throw, and the user waits for an outcome exactly while its channel
\* is not idle, so that ACS_Base::Send never throws.
ChannelMatchesUser ==
  \A k \in Channels :
    /\ timer[k] <=> state[k] \in WaitStates
    /\ busy[k] <=> state[k] # "Idle"
    /\ busy[k] => up[k[1]]

\* Every response given to the master's user answers the request it waits for: no late
\* answer to an earlier request gets through, while the master kept its lower layer.
ResponseAnswersRequest ==
  [][ \A f \in handled' \ handled :
        f.req = handed[Sol(Master)] \/ downs[Master] > 0 ]_vars

\* Retries and lost confirmations do not repeat an unsolicited response to the master's
\* user, nor reorder two of them, while the master kept its lower layer.
UnsolAtMostOnceInOrder == downs[Master] > 0 \/ Increasing(unsols)

\* An unsolicited response reported as sent, whose events are then erased, was given to
\* the master's user, while the outstation kept its lower layer.
UnsolConfirmedMeansHandled ==
  downs[Outstation] > 0 \/ \A f \in confirmed : f.fc = "UNSOLICITED" => f.id \in Range(unsols)

\* Whatever unsolicited responses are lost, repeated or cross a poll, both ends agree on
\* what was handled (UnsolicitedChannel).
UnsolHandledOnce == UnsolAtMostOnceInOrder /\ UnsolConfirmedMeansHandled

\* The comment in AppLayer::OnResponse: "we shouldn't confirm if we're not going to
\* handle the data". A response confirmed to the outstation was handled by the master.
ConfirmedMeansHandled == \A f \in confirmed : f.fc = "RESPONSE" => f \in handled

\* A repeated request is told from a new one: none is executed twice, while the
\* outstation kept its lower layer.
ReportedAtMostOnce == downs[Outstation] > 0 \/ Increasing(reported)

\* A new request is not taken for a repeated one: whatever was answered was given to the
\* outstation's user as new, while the master kept its lower layer and confirmed no
\* response that it dropped.
AnsweredMeansReported ==
  [][ \A f \in handled' \ handled :
        \/ apdu[Sol(Master)].fc \notin Executed
        \/ f.req \in Range(reported)
        \/ downs[Master] > 0
        \/ ~ConfirmedMeansHandled ]_vars

\* The master's user gets an answer to its request, from an outstation that handled it
\* (SolicitedChannel).
AnswersRequest == ResponseAnswersRequest /\ AnsweredMeansReported

\* A user always learns the outcome of its transaction, or its lower layer goes down.
SendCompletes == \A k \in Channels : busy[k] ~> ~busy[k]
=============================================================================
