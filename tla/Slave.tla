-------------------------------- MODULE Slave --------------------------------
(***************************************************************************)
(* The outstation: Slave with its states (SlaveStates), the work that a    *)
(* state defers, the timer of unsolicited responses, and ResponseContext,  *)
(* which selects events, loads them into fragments and erases them once    *)
(* they are confirmed.                                                     *)
(*                                                                         *)
(* Everything runs on the thread of the stack except the updates of the    *)
(* data points, which are posted to it. Callbacks nest: an event ends with *)
(* FlushDeferredEvents, which may handle further ones, and CancelResponse  *)
(* may call OnSolFailure before it returns. The outstation is therefore    *)
(* one record, and a handler is an operator from records to records.       *)
(*                                                                         *)
(* Around it: the two channels of AppLayer, as far as Slave can tell their *)
(* states apart, and events of one type and one class, each newer than the *)
(* one before (EventBuffer has the rest). Events and static objects take   *)
(* one unit of a fragment each.                                            *)
(* Controls has the objects of SELECT and OPERATE, Updates the change      *)
(* buffer and the database.                                                *)
(***************************************************************************)
EXTENDS Integers, Sequences, FiniteSets, SequencesExt

CONSTANTS
  FragSize,      \* SlaveConfig::mMaxFragSize, in objects
  Reads,         \* the READ requests: how many events and static objects they ask for
  Everything,    \* the count of a READ or an unsolicited response that has none
  MaxUpdates,    \* bound: updates of data points
  MaxRequests,   \* bound: requests
  MaxRepeats,    \* bound: requests repeated by the master
  MaxDowns       \* bound: losses of the lower layer

ReadRequest == [events : Nat, static : Nat]
NoObjects == [events |-> 0, static |-> 0]

ASSUME SlaveAssumption ==
  /\ FragSize \in Nat \ {0}
  /\ Reads \subseteq ReadRequest
  /\ MaxUpdates \in Nat /\ MaxRequests \in Nat /\ MaxRepeats \in Nat /\ MaxDowns \in Nat
  /\ Everything \in Nat /\ Everything >= MaxUpdates

\* The kinds of request that Slave treats differently. WRITE stands for those that are
\* executed and answered, NO_ACK for DIRECT_OPERATE_NO_ACK; the objects of UNKNOWN cannot
\* be parsed.
Functions == {"READ", "WRITE", "NO_ACK", "ENABLE", "DISABLE", "UNKNOWN"}

Request == [id : Nat, fc : Functions, read : ReadRequest, prev : BOOLEAN]
NoRequest == [id |-> 0, fc |-> "READ", read |-> NoObjects, prev |-> FALSE]

VARIABLES
  config,    \* SlaveConfig: is mDisableUnsol set, are mUnsolPackDelay and mUnsolRetryDelay zero
  s,         \* the outstation
  posted,    \* calls of OnDataUpdate that are posted and have not run
  updates,   \* number of updates
  last,      \* the last request of the master
  requests,  \* number of requests
  repeats,   \* number of repetitions
  downs      \* number of losses of the lower layer

vars == <<config, s, posted, updates, last, requests, repeats, downs>>

States == {"Closed", "Idle", "WaitForRspSuccess", "WaitForUnsolSuccess", "WaitForSolUnsolSuccess"}

\* Sequences of events, of counts and of requests
Numbers == Seq(Nat)

\* The request that was answered last, and the one that was heard last then
Answer == Nat \X Nat

Outstation == [
  \* Slave
  state           : States,          \* mpState
  deferredUpdate  : BOOLEAN,         \* mDeferredUpdate
  deferredRequest : BOOLEAN,         \* mDeferredRequest
  deferredUnsol   : BOOLEAN,         \* mDeferredUnsol
  deferredUnknown : BOOLEAN,         \* mDeferredUnknown
  request         : Request,         \* mRequest and mSeqInfo
  nullUnsol       : BOOLEAN,         \* mStartupNullUnsol
  mask            : BOOLEAN,         \* mConfig.mUnsolMask has the class of the events
  timer           : BOOLEAN,         \* mpUnsolTimer # NULL
  armed           : Nat,             \* timers that will call OnUnsolTimerExpiration
  \* mChangeBuffer, ResponseContext and SlaveEventBuffer
  changes         : SUBSET Nat,      \* updates that are not flushed
  events          : SUBSET Nat,      \* mEventSet
  selected        : Numbers,         \* mSelectedEvents
  written         : Nat,             \* how many of them, from the front, have mWritten
  queue           : Numbers,         \* counts of the event requests (mBinaryEvents)
  static          : Nat,             \* static objects left in mStaticWriteMap
  fir             : BOOLEAN,         \* mFIR
  loaded          : BOOLEAN,         \* mLoadedEventData
  \* AppLayer
  sol             : {"Idle", "Send", "SendConfirmed", "WaitForConfirm", "SendCanceled"},
  uns             : {"Idle", "Busy"},
  heard           : Nat,             \* the request mSequence belongs to, 0 if it is -1
  solEvents       : SUBSET Nat,      \* the events in the response being sent
  unsEvents       : SUBSET Nat,      \* the events in the unsolicited response being sent
  \* the assertion or exception that ends the program, and history
  error           : {"none", "timer", "busy", "state", "sequence"},
  erased          : SUBSET Nat,      \* events erased as reported
  confirmed       : SUBSET Nat,      \* events in fragments that the master confirmed
  executed        : Numbers,         \* requests executed
  acknowledged    : SUBSET Nat,      \* requests of that kind answered
  overwritten     : SUBSET Nat,      \* requests that waited and gave way to their repetition
  answered        : Answer]

TypeOK ==
  /\ config \in [disableUnsol : BOOLEAN, packDelayZero : BOOLEAN, retryDelayZero : BOOLEAN]
  /\ s \in Outstation /\ s.written <= Len(s.selected)
  /\ last \in Request
  /\ {posted, updates, requests, repeats, downs} \subseteq Nat

Init ==
  /\ config \in [disableUnsol : BOOLEAN, packDelayZero : BOOLEAN, retryDelayZero : BOOLEAN]
  /\ \E mask \in BOOLEAN :
     s = [state |-> "Closed", deferredUpdate |-> FALSE, deferredRequest |-> FALSE,
          deferredUnsol |-> ~config.disableUnsol, deferredUnknown |-> FALSE,
          request |-> NoRequest, nullUnsol |-> FALSE, mask |-> mask, timer |-> FALSE, armed |-> 0,
          changes |-> {}, events |-> {}, selected |-> <<>>, written |-> 0, queue |-> <<>>,
          static |-> 0, fir |-> TRUE, loaded |-> FALSE,
          sol |-> "Idle", uns |-> "Idle", heard |-> 0, solEvents |-> {}, unsEvents |-> {},
          error |-> "none", erased |-> {}, confirmed |-> {}, executed |-> <<>>,
          acknowledged |-> {}, overwritten |-> {}, answered |-> <<0, 0>>]
  /\ last = NoRequest
  /\ posted = 0 /\ updates = 0 /\ requests = 0 /\ repeats = 0 /\ downs = 0

---------------------------------------------------------------------------
(* ResponseContext and its event buffer. Each operator takes the outstation *)
(* and returns what it is afterwards.                                       *)

\* What ends the program: the first assertion or uncaught exception
Fail(x, what) == [x EXCEPT !.error = IF @ = "none" THEN what ELSE @]

\* Mutant of Deselect: the selection is dropped.
DeselectLoses(x) == [x EXCEPT !.selected = <<>>, !.written = 0]

\* EventBufferBase::Deselect
Deselect(x) == [x EXCEPT !.events = @ \cup ToSet(x.selected), !.selected = <<>>, !.written = 0]

\* Mutant of Reset: the selection is kept.
ResetKeeps(x) == [x EXCEPT !.fir = TRUE, !.loaded = FALSE, !.static = 0, !.queue = <<>>]

Reset(x) == Deselect([x EXCEPT !.fir = TRUE, !.loaded = FALSE, !.static = 0, !.queue = <<>>])

\* ResponseContext::ClearWritten: what was written is erased, the rest returned.
ClearWritten(x) ==
  Deselect([x EXCEPT !.erased = @ \cup ToSet(SubSeq(x.selected, 1, x.written)),
                     !.selected = SubSeq(@, x.written + 1, Len(@))])

IsComplete(x) == x.static = 0 /\ x.selected = <<>>

\* The n oldest of events, the oldest first
Oldest(events, n) ==
  CHOOSE chosen \in [1 .. n -> events] :
    \A i \in 1 .. n :
      /\ \A j \in 1 .. i - 1 : chosen[j] < chosen[i]
      /\ \A e \in events : e < chosen[i] => \E j \in 1 .. i - 1 : chosen[j] = e

\* SelectEvents: up to n events
SelectEvents(x, n) ==
  LET chosen == Oldest(x.events, Min({n, Cardinality(x.events)})) IN
  [x EXCEPT !.events = @ \ ToSet(chosen),
            !.selected = @ \o chosen,
            !.queue = IF chosen = <<>> THEN @ ELSE Append(@, n)]

\* Configure: read is what the headers of a READ ask for.
Configure(x, read) == [SelectEvents(Reset(x), read.events) EXCEPT !.static = read.static]

\* One turn of the loop of LoadEvents, for a request of count events
LoadRequest(load, count) ==
  LET wanted  == Min({count, load.remain})
      written == Min({wanted, load.room})
  IN  IF load.full \/ load.remain = 0
        THEN [load EXCEPT !.queue = Append(@, count)]
        ELSE [load EXCEPT !.remain = @ - written, !.room = @ - written,
                          !.written = @ + written, !.full = written # wanted,
                          !.queue = IF written = wanted THEN @ ELSE Append(@, wanted - written)]

\* LoadEvents: how much of the selection fits into an empty fragment, and what stays queued
LoadEvents(x) ==
  LET after[i \in 0 .. Len(x.queue)] ==
        IF i = 0
          THEN [queue |-> <<>>, remain |-> Len(x.selected), room |-> FragSize, written |-> 0,
                full |-> FALSE]
          ELSE LoadRequest(after[i - 1], x.queue[i])
  IN  after[Len(x.queue)]

Load(x, load) ==
  [x EXCEPT !.queue = load.queue, !.written = Max({@, load.written}),
            !.loaded = @ \/ load.written > 0]

LoadedEvents(x, load) == ToSet(SubSeq(x.selected, 1, load.written))

HasEvents(x) == x.mask /\ x.events # {}

---------------------------------------------------------------------------
(* What Slave asks of the application layer and of its timer *)

\* AppLayer::SendResponse. Only the first fragment carries the sequence of the request.
SendResponse(x, fir, confirm, events) ==
  IF x.sol # "Idle" THEN Fail(x, "busy")
  ELSE IF fir /\ x.heard = 0 THEN Fail(x, "sequence")
  ELSE [x EXCEPT !.sol = IF confirm THEN "SendConfirmed" ELSE "Send", !.solEvents = events]

\* ConfigureAndSendSimpleResponse, and Send of a response that Slave builds itself
Respond(x) == SendResponse(x, TRUE, FALSE, {})

\* ResponseContext::LoadResponse and Send
SendFragment(x) ==
  LET load    == LoadEvents(x)
      y       == Load(x, load)
      objects == IF load.full THEN 0 ELSE Min({x.static, load.room})
      fin     == ~load.full /\ objects = x.static
  IN  SendResponse([y EXCEPT !.static = @ - objects, !.fir = FALSE, !.loaded = FALSE],
                   x.fir, ~fin \/ y.loaded, LoadedEvents(x, load))

\* ResponseContext::LoadUnsol and SendUnsolicited; what does not fit stays selected.
SendUnsolicited(x, n) ==
  LET y    == SelectEvents([x EXCEPT !.state = "WaitForUnsolSuccess"], n)
      load == LoadEvents(y)
  IN  IF x.uns # "Idle" THEN Fail(x, "busy")
      ELSE [Load(y, load) EXCEPT !.uns = "Busy", !.unsEvents = LoadedEvents(y, load)]

\* Slave::StartUnsolTimer
StartUnsolTimer(x) ==
  IF x.timer THEN Fail(x, "timer") ELSE [x EXCEPT !.timer = TRUE, !.armed = @ + 1]

---------------------------------------------------------------------------
(* The handlers of AS_Idle, and the deferred work they are given *)

\* FlushUpdates
FlushUpdates(x) == [x EXCEPT !.events = @ \cup x.changes, !.changes = {}]

\* AS_Idle::OnDataUpdate
IdleOnDataUpdate(x) ==
  LET y == FlushUpdates(x) IN
  IF config.disableUnsol \/ ~y.nullUnsol \/ ~HasEvents(y) THEN y
  ELSE IF config.packDelayZero THEN SendUnsolicited(y, Everything)
  ELSE IF y.timer THEN y ELSE StartUnsolTimer(y)

\* AS_Idle::OnUnsolExpiration. Until it was confirmed, an empty unsolicited response.
IdleOnUnsolExpiration(x) ==
  IF ~x.nullUnsol THEN SendUnsolicited(x, 0)
  ELSE IF HasEvents(x) THEN SendUnsolicited(x, Everything)
  ELSE x

\* AS_Base::DoRequest in a state that is followed by next
DoRequest(x, next, r) ==
  LET y == [x EXCEPT !.state = next, !.answered = <<r.id, x.heard>>] IN
  CASE r.fc = "READ"    -> SendFragment(Configure(y, r.read))
    [] r.fc = "WRITE"   -> Respond([y EXCEPT !.executed = IF r.prev THEN @ ELSE Append(@, r.id),
                                             !.acknowledged = @ \cup {r.id}])
    [] r.fc = "NO_ACK"  -> x
    [] r.fc = "ENABLE"  -> Respond(IF config.disableUnsol THEN y
                                   ELSE [y EXCEPT !.deferredUnsol = TRUE, !.mask = TRUE])
    [] r.fc = "DISABLE" -> Respond([y EXCEPT !.mask = @ /\ config.disableUnsol])

IdleOnRequest(x, r) == DoRequest(x, "WaitForRspSuccess", r)

\* Mutants of FlushRequest: no state accepts a deferred request, or it stays deferred.
FlushRequestNever(x) == x
FlushRequestKeeps(x) ==
  IF x.state = "Idle" /\ x.deferredRequest THEN IdleOnRequest(x, x.request) ELSE x

FlushUpdate(x) ==
  IF x.state = "Idle" /\ x.deferredUpdate
    THEN IdleOnDataUpdate([x EXCEPT !.deferredUpdate = FALSE]) ELSE x
FlushRequest(x) ==
  IF x.state = "Idle" /\ x.deferredRequest
    THEN IdleOnRequest([x EXCEPT !.deferredRequest = FALSE], x.request) ELSE x
FlushUnsol(x) ==
  IF x.state = "Idle" /\ x.deferredUnsol
    THEN IdleOnUnsolExpiration([x EXCEPT !.deferredUnsol = FALSE]) ELSE x

\* Slave::FlushDeferredEvents. No state but AS_Idle accepts any of it, and none accepts an
\* unknown object.
FlushDeferredEvents(x) == FlushUnsol(FlushRequest(FlushUpdate(x)))

---------------------------------------------------------------------------
(* The callbacks of the application layer, each with its own Flush *)

\* OnSolSendSuccess of the states that wait for a response
OnSolSendSuccess(x) ==
  LET y == ClearWritten(x) IN
  FlushDeferredEvents(
    CASE x.state = "WaitForRspSuccess" ->
           IF IsComplete(y) THEN [y EXCEPT !.state = "Idle"] ELSE SendFragment(y)
      [] x.state = "WaitForSolUnsolSuccess" -> [x EXCEPT !.state = "WaitForUnsolSuccess"]
      [] OTHER -> Fail(x, "state"))

OnSolFailure(x) ==
  FlushDeferredEvents(
    CASE x.state = "WaitForRspSuccess" -> Reset([x EXCEPT !.state = "Idle"])
      [] x.state = "WaitForSolUnsolSuccess" -> [x EXCEPT !.state = "WaitForUnsolSuccess"]
      [] OTHER -> Fail(x, "state"))

\* AS_Base::DoUnsolSuccess
DoUnsolSuccess(x) == Reset(ClearWritten([x EXCEPT !.nullUnsol = TRUE, !.deferredUnsol = TRUE]))

OnUnsolSendSuccess(x) ==
  FlushDeferredEvents(
    CASE x.state = "WaitForUnsolSuccess" -> DoUnsolSuccess([x EXCEPT !.state = "Idle"])
      [] x.state = "WaitForSolUnsolSuccess" -> DoUnsolSuccess([x EXCEPT !.state = "WaitForRspSuccess"])
      [] OTHER -> Fail(x, "state"))

\* The retry timer is started; without a delay the expiration is handled at once, by
\* AS_WaitForRspSuccess, which defers it.
OnUnsolFailure(x) ==
  FlushDeferredEvents(
    CASE x.state = "WaitForUnsolSuccess" -> StartUnsolTimer(Reset([x EXCEPT !.state = "Idle"]))
      [] x.state = "WaitForSolUnsolSuccess" ->
           LET y == Reset([x EXCEPT !.state = "WaitForRspSuccess"]) IN
           IF config.retryDelayZero THEN [y EXCEPT !.timer = FALSE, !.deferredUnsol = TRUE]
                                    ELSE StartUnsolTimer(y)
      [] OTHER -> Fail(x, "state"))

\* Mutant of CancelResponse: Slave is not told that the response failed.
CancelSilently(x) == [x EXCEPT !.sol = IF @ = "WaitForConfirm" THEN "Idle" ELSE "SendCanceled"]

\* AppLayerChannel::Cancel: a confirmation that is waited for fails before Cancel returns.
CancelResponse(x) ==
  IF x.sol = "WaitForConfirm"
    THEN OnSolFailure([x EXCEPT !.sol = "Idle", !.solEvents = {}])
    ELSE [x EXCEPT !.sol = "SendCanceled"]

\* History: a request that waits gives way to its own repetition, which mSeqInfo marks SI_PREV.
Overwrite(x, r) ==
  [x EXCEPT !.overwritten =
     IF r.fc = "WRITE" /\ r.prev /\ x.deferredRequest /\ ~x.request.prev /\ x.request.id = r.id
       THEN @ \cup {r.id} ELSE @]

Defer(x, r) == [Overwrite(x, r) EXCEPT !.request = r, !.deferredRequest = TRUE]

\* Mutant of RequestWhileUnsol: a READ that waits already is kept.
RequestWhileUnsolKeeps(x, r) ==
  IF r.fc = "READ" THEN Defer(x, r) ELSE DoRequest(x, "WaitForSolUnsolSuccess", r)

\* AS_WaitForUnsolSuccess::OnRequest
RequestWhileUnsol(x, r) ==
  IF r.fc = "READ"
    THEN Defer(x, r)
    ELSE DoRequest([Overwrite(x, r) EXCEPT !.deferredRequest = FALSE], "WaitForSolUnsolSuccess", r)

OnRequest(x, r) ==
  FlushDeferredEvents(
    CASE x.state = "Idle" -> IdleOnRequest(x, r)
      [] x.state = "WaitForRspSuccess" -> Defer(CancelResponse(x), r)
      [] x.state = "WaitForUnsolSuccess" -> RequestWhileUnsol(x, r)
      [] x.state = "WaitForSolUnsolSuccess" -> Defer(x, r)
      [] OTHER -> Fail(x, "state"))

OnUnknownObject(x) ==
  FlushDeferredEvents(IF x.state = "Idle" THEN Respond([x EXCEPT !.state = "WaitForRspSuccess"])
                                          ELSE [x EXCEPT !.deferredUnknown = TRUE])

OnDataUpdate(x) ==
  FlushDeferredEvents(
    CASE x.state = "Idle"   -> IdleOnDataUpdate(x)
      [] x.state = "Closed" -> FlushUpdates(x)
      [] OTHER              -> [x EXCEPT !.deferredUpdate = TRUE])

OnUnsolTimerExpiration(x) ==
  LET y == [x EXCEPT !.timer = FALSE] IN
  FlushDeferredEvents(IF x.state = "Idle" THEN IdleOnUnsolExpiration(y)
                                          ELSE [y EXCEPT !.deferredUnsol = TRUE])

---------------------------------------------------------------------------
(* The events that reach the outstation *)

Running == s.error = "none"
Environment == <<config, posted, updates, last, requests, repeats, downs>>

OnLowerLayerUp ==
  /\ Running /\ s.state = "Closed"
  /\ s' = FlushDeferredEvents([s EXCEPT !.state = "Idle"])
  /\ UNCHANGED Environment

\* AppLayer::_OnLowerLayerDown resets the channels, AS_OpenBase::OnLowerLayerDown nothing
\* but the state: ResponseContext, the timer and what is deferred stay as they are.
OnLowerLayerDown ==
  /\ Running /\ s.state # "Closed" /\ downs < MaxDowns
  /\ s' = [s EXCEPT !.state = "Closed", !.sol = "Idle", !.uns = "Idle", !.heard = 0,
                    !.solEvents = {}, !.unsEvents = {}]
  /\ last' = NoRequest
  /\ downs' = downs + 1
  /\ UNCHANGED <<config, posted, updates, requests, repeats>>

\* The user updates a data point; ChangeBuffer notifies, which posts OnDataUpdate.
UpdatePoint ==
  /\ Running /\ updates < MaxUpdates
  /\ updates' = updates + 1
  /\ posted' = posted + 1
  /\ s' = [s EXCEPT !.changes = @ \cup {updates + 1}]
  /\ UNCHANGED <<config, last, requests, repeats, downs>>

RunDataUpdate ==
  /\ Running /\ posted > 0
  /\ posted' = posted - 1
  /\ s' = OnDataUpdate(s)
  /\ UNCHANGED <<config, updates, last, requests, repeats, downs>>

\* SolicitedChannel::OnRequest takes the sequence of a request before its user sees it.
NewRequest ==
  /\ Running /\ s.state # "Closed" /\ requests < MaxRequests
  /\ requests' = requests + 1
  /\ \E fc \in Functions : \E read \in IF fc = "READ" THEN Reads ELSE {NoObjects} :
       /\ last' = [id |-> requests + 1, fc |-> fc, read |-> read, prev |-> FALSE]
       /\ LET x == [s EXCEPT !.heard = requests + 1]
          IN  s' = IF fc = "UNKNOWN" THEN OnUnknownObject(x) ELSE OnRequest(x, last')
  /\ UNCHANGED <<config, posted, updates, repeats, downs>>

\* The master repeats its request with the same sequence: SI_PREV.
RepeatRequest ==
  /\ Running /\ s.state # "Closed" /\ repeats < MaxRepeats
  /\ last.id > 0
  /\ repeats' = repeats + 1
  /\ s' = IF last.fc = "UNKNOWN" THEN OnUnknownObject(s)
                                 ELSE OnRequest(s, [last EXCEPT !.prev = TRUE])
  /\ UNCHANGED <<config, posted, updates, last, requests, downs>>

\* The response was sent, and confirmed if it asked for it.
ResponseSent ==
  /\ Running
  /\ \/ /\ s.sol = "SendConfirmed"
        /\ s' = [s EXCEPT !.sol = "WaitForConfirm"]
     \/ /\ s.sol \in {"Send", "WaitForConfirm"}
        /\ s' = OnSolSendSuccess([s EXCEPT !.sol = "Idle", !.solEvents = {},
                                           !.confirmed = @ \cup s.solEvents])
     \/ /\ s.sol = "SendCanceled"
        /\ s' = OnSolFailure([s EXCEPT !.sol = "Idle", !.solEvents = {}])
  /\ UNCHANGED Environment

\* It could not be sent, or was not confirmed in time. Responses are not retried.
ResponseFailed ==
  /\ Running /\ s.sol # "Idle"
  /\ s' = OnSolFailure([s EXCEPT !.sol = "Idle", !.solEvents = {}])
  /\ UNCHANGED Environment

UnsolConfirmed ==
  /\ Running /\ s.uns = "Busy"
  /\ s' = OnUnsolSendSuccess([s EXCEPT !.uns = "Idle", !.unsEvents = {},
                                       !.confirmed = @ \cup s.unsEvents])
  /\ UNCHANGED Environment

UnsolFailed ==
  /\ Running /\ s.uns = "Busy"
  /\ s' = OnUnsolFailure([s EXCEPT !.uns = "Idle", !.unsEvents = {}])
  /\ UNCHANGED Environment

TimerExpires ==
  /\ Running /\ s.armed > 0
  /\ s' = OnUnsolTimerExpiration([s EXCEPT !.armed = @ - 1])
  /\ UNCHANGED Environment

---------------------------------------------------------------------------
Outcome == ResponseSent \/ ResponseFailed
UnsolOutcome == UnsolConfirmed \/ UnsolFailed

Next ==
  \/ OnLowerLayerUp \/ OnLowerLayerDown
  \/ UpdatePoint \/ RunDataUpdate
  \/ NewRequest \/ RepeatRequest
  \/ Outcome \/ UnsolOutcome
  \/ TimerExpires

Spec == Init /\ [][Next]_vars

\* The application layer ends every transaction (SendCompletes of AppLayer): weak fairness
\* of Outcome and of UnsolOutcome, with the conditions that enable them spelled out.
FairSpec ==
  /\ Spec
  /\ []<>(~Running \/ s.sol = "Idle") \/ []<><<Outcome>>_vars
  /\ []<>(~Running \/ s.uns = "Idle") \/ []<><<UnsolOutcome>>_vars

---------------------------------------------------------------------------
(* Properties *)

\* The state of Slave follows the channels of the application layer through nested
\* callbacks, deferred work and cancels: it waits for exactly what is being sent, never
\* sends on a busy channel, and no callback finds a state that throws at it.
StateMatchesChannels ==
  /\ s.error \notin {"busy", "state"}
  /\ Running =>
       /\ s.sol # "Idle" <=> s.state \in {"WaitForRspSuccess", "WaitForSolUnsolSuccess"}
       /\ s.uns # "Idle" <=> s.state \in {"WaitForUnsolSuccess", "WaitForSolUnsolSuccess"}

\* An event is in exactly one place, whatever is selected, cleared or returned by the two
\* kinds of responses that share one ResponseContext.
EveryEventAccounted ==
  LET places == <<s.changes, s.events, ToSet(s.selected), s.erased>> IN
  /\ 1..updates = UNION ToSet(places)
  /\ \A i, j \in DOMAIN places : i # j => places[i] \cap places[j] = {}

\* "failed deliveries put events back into the buffer" (SlaveEventBuffer.h): an event is
\* erased only if a fragment with it was confirmed.
ErasedMeansConfirmed == s.erased \subseteq s.confirmed

\* ... which holds as long as the lower layer stays up.
ErasedMeansConfirmedWhileUp == downs = 0 => ErasedMeansConfirmed

\* Events that may be reported unsolicited never lie idle: when nothing is being sent
\* there is a timer that will look at them again.
EventsHaveTrigger ==
  Running /\ downs = 0 /\ s.state = "Idle" /\ s.nullUnsol /\ ~config.disableUnsol /\ HasEvents(s)
    => s.armed > 0

\* The outstation's record has its type and fits the channels of the application layer.
Consistent == TypeOK /\ StateMatchesChannels

\* No event is lost, counted twice, or left lying where nothing will report it.
NoEventLost == EveryEventAccounted /\ EventsHaveTrigger

\* A request that was deferred, repeated or overtaken is executed once at most.
ExecutedAtMostOnce == \A i, j \in DOMAIN s.executed : s.executed[i] = s.executed[j] => i = j

\* A response carries the sequence of the last request: a request that was deferred and
\* overtaken is not answered in its place, nor one that nothing was heard of since the
\* start. An unknown object takes the sequence and leaves the deferred request, so it is
\* excepted.
AnswersLastRequest ==
  IF Running THEN s.deferredUnknown \/ s.answered[1] = s.answered[2]
             ELSE s.error = "sequence" => downs > 0

\* "We should immediately handle the new request" (SlaveStates.cpp:300): what is answered as
\* done was done.
AnsweredMeansExecuted == s.acknowledged \subseteq ToSet(s.executed)

\* ... which holds but for a request that was repeated while it was deferred: mRequest and
\* mSeqInfo are overwritten by the repetition, which is answered and not executed.
AnsweredMeansExecutedUnlessOverwritten ==
  s.acknowledged \subseteq ToSet(s.executed) \cup s.overwritten

\* Requests deferred, repeated or overtaken are executed once at most, once at least before they
\* are answered unless their repetition took their place while they waited, and answered in
\* their turn (AS_Base::DoRequest, FlushDeferredEvents).
RequestsHandledOnce ==
  ExecutedAtMostOnce /\ AnsweredMeansExecutedUnlessOverwritten /\ AnswersLastRequest

\* What starts an unsolicited response while a request is deferred. FlushDeferredEvents looks at
\* a deferred update first, and without a pack delay AS_Idle reports it at once; nothing else
\* passes a deferred request.
PassesRequest ==
  /\ s.deferredRequest /\ s'.deferredRequest
  /\ s'.uns = "Busy"
  /\ s.uns = "Idle" \/ UnsolOutcome

OnlyUpdatesPassRequest == [][PassesRequest => s.deferredUpdate /\ config.packDelayZero]_vars

\* A deferred request is handled in the end once there are no more updates, unless the lower
\* layer goes down or the program ends, and until then it waits only for updates that were
\* deferred too, and only without a pack delay. An update in every unsolicited exchange then
\* defers it for ever.
DeferredRequestServed ==
  /\ s.deferredRequest ~> (~s.deferredRequest \/ s.state = "Closed" \/ ~Running)
  /\ OnlyUpdatesPassRequest
=============================================================================
