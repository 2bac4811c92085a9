----------------------------- MODULE MasterProofs -----------------------------
(***************************************************************************)
(* Theorems of Master: the scheduler and the master agree on the task in   *)
(* progress, each command is answered once at most and operated only after *)
(* its own selection, and the startup tasks are dispatched in their order. *)
(*                                                                         *)
(* The inductive invariant has eleven parts, each about a few variables.   *)
(* The proof has a lemma for each part, and the lemma one step per action. *)
(***************************************************************************)
EXTENDS Master, FiniteSetTheorems, TLAPS

---------------------------------------------------------------------------
(* The inductive invariant *)

Steps == {"CheckState", "ProcessIIN", "OnResponse"}

\* The call in progress. While the link is closed nothing of the application layer is under
\* way: no request waits for its answer, and no response is being processed.
Calls ==
  /\ todo \in Seq(Steps) /\ escaped \in BOOLEAN
  /\ response \in {None, "unsolicited", "partial", "final"}
  /\ state = "Closed" => todo \in Seq({"CheckState"}) /\ channel = None

\* The master. It waits for a task of the group, and has written no more of the VTO data
\* than is buffered.
Masters ==
  /\ state \in {"Closed", "Idle", "Waiting"}
  /\ scheduled \in Tasks \cup {None} /\ step \in 1..2
  /\ channel \in Tasks \cup {None}
  /\ state = "Waiting" => scheduled \in Tasks

\* The variables that need nothing but their types.
Plain ==
  /\ iinTime \in BOOLEAN /\ iinRestart \in BOOLEAN /\ commsUp \in BOOLEAN
  /\ selected \in BOOLEAN /\ cutOff \in BOOLEAN /\ incidents \in Nat
  /\ posted \in [{"command", "vto"} -> Nat]

\* As much VTO data is buffered as has been written.
Buffers == vto \in [buffered : Nat, written : Nat] /\ vto.written <= vto.buffered

\* The tasks of the group.
Groups ==
  /\ enabled \in [Tasks -> BOOLEAN] /\ complete \in [Tasks -> BOOLEAN]
  /\ running \in [Tasks -> BOOLEAN] /\ nextRun \in [Tasks -> 0..Never]
  /\ groupRuns \in BOOLEAN /\ timer \in 0..Never
  /\ done \in SUBSET StartUp

\* The commands. A command is in the queue at one place only; one that is in the queue or
\* being executed has not been answered; one in the queue is not being executed.
Commands ==
  /\ queue \in Seq(Cmds) /\ command \in Cmds \cup {None}
  /\ answers \in [Cmds -> Seq({"SUCCESS", "FAILED", "HARDWARE_ERROR"})]
  /\ \A c \in Cmds : Len(answers[c]) <= 1
  /\ \A i, j \in 1..Len(queue) : queue[i] = queue[j] => i = j
  /\ \A i \in 1..Len(queue) : answers[queue[i]] = <<>> /\ ~Executing(queue[i])
  /\ state = "Waiting" /\ scheduled = "command" => command \in Cmds /\ answers[command] = <<>>

\* A command in its second step has been selected.
Operates == state = "Waiting" /\ scheduled = "command" /\ step = 2 => selected

\* The handler of a response is the last step of a call.
HandlerLast == \A i \in 1..Len(todo) : todo[i] = "OnResponse" => i = Len(todo)

\* The state's handler of the response is still to come.
HandlerDue == \E i \in 1..Len(todo) : todo[i] = "OnResponse"

\* While no task was cut off, a request that waits for its answer is one of the task in
\* progress, and the response being processed was the answer to it.
Owns ==
  /\ HandlerLast
  /\ OwnAnswers
  /\ ~cutOff /\ HandlerDue /\ response \in {"partial", "final"} =>
       /\ state = "Waiting"
       /\ response = "final" => channel = None
       /\ response = "partial" => scheduled \notin SingleFragment

\* A master that waits has a request outstanding, or is to be handed the answer, or waits for
\* the end of a poll.
Awaits ==
  state = "Waiting" =>
    channel # None \/ scheduled \in DataPolls \/ (HandlerDue /\ response = "final")

\* The tasks of the startup sequence. What is complete has been done; a change of unsolicited
\* mode that is complete is not to be repeated; a task that runs is not complete, nor is any
\* while the link is closed. They are enabled and disabled with the scan, together.
Sequenced == StartUp \cup {"scan"}
StartsUp ==
  /\ \A t \in StartUp : complete[t] => t \in done /\ state # "Closed" /\ ~running[t]
  /\ \A t \in {"disable", "enable"} \cap Tasks : complete[t] => nextRun[t] = Never
  /\ \A t \in Sequenced : enabled[t] <=> state # "Closed"

IInv ==
  /\ Calls /\ Masters /\ Plain /\ Buffers /\ Groups /\ OneTaskAtATime /\ Commands /\ Operates
  /\ Owns /\ Awaits /\ StartsUp

---------------------------------------------------------------------------
(* The tasks, the sequences and the periods *)

LEMMA TasksAre ==
  /\ {"integrity", "scan", "command", "time", "clear", "vto"} \subseteq Tasks
  /\ Tasks \subseteq {"integrity", "scan", "command", "time", "clear", "vto", "disable", "enable"}
  /\ None \notin Tasks
<1>1. CASE DoUnsol
  <2>1. TaskVec = <<"integrity", "disable", "enable", "scan", "command", "time", "clear", "vto">>
    BY <1>1 DEF TaskVec
  <2>2. QED
    BY <2>1 DEF Tasks, None
<1>2. CASE ~DoUnsol
  <2>1. TaskVec = <<"integrity", "scan", "command", "time", "clear", "vto">>
    BY <1>2 DEF TaskVec
  <2>2. QED
    BY <2>1 DEF Tasks, None
<1>3. QED
  BY <1>1, <1>2

LEMMA Rates ==
  /\ Never \in Nat \ {0} /\ Horizon \in Nat /\ Never = Horizon + 1
  /\ Never \in 0..Never /\ RetryRate \in 0..Never /\ IntegrityRate \in 0..Never /\ ScanRate \in 0..Never
BY MasterAssumption DEF Never, Horizon

LEMMA SequenceTypes ==
  ASSUME NEW S, NEW s \in Seq(S)
  PROVE  /\ s # <<>> => Head(s) \in S /\ Tail(s) \in Seq(S)
         /\ \A x \in S : Append(s, x) \in Seq(S)
         /\ \A r \in Seq(S) : r \o s \in Seq(S)
OBVIOUS

LEMMA ShortSequence ==
  ASSUME NEW S, NEW s \in Seq(S), Len(s) <= 1
  PROVE  Len(s) \in 0..1 /\ (s = <<>> => Len(s) = 0)
<1> DEFINE n == Len(s)
<1>1. n \in 0..1
  <2>1. n \in Nat /\ n <= 1
    OBVIOUS
  <2> HIDE DEF n
  <2>2. QED
    BY <2>1
<1>2. ASSUME s = <<>> PROVE Len(s) = 0
  BY <1>2
<1>3. QED
  BY <1>1, <1>2, Zenon

\* What Then leaves of the call, for any set of steps that holds all of it.
LEMMA ThenLeaves ==
  ASSUME NEW S, NEW first \in Seq(S), todo \in Seq(S), todo # <<>>, Then(first)
  PROVE  todo' \in Seq(S)
<1>1. Tail(todo) \in Seq(S)
  BY SequenceTypes
<1>2. first \o Tail(todo) \in Seq(S)
  BY <1>1, SequenceTypes
<1>3. QED
  BY <1>2 DEF Then

Responses == {None, "unsolicited", "partial", "final"}

LEMMA CallSequences ==
  /\ <<>> \in Seq({"CheckState"}) /\ <<"CheckState">> \in Seq({"CheckState"})
  /\ <<>> \in Seq(Steps) /\ <<"CheckState">> \in Seq(Steps)
  /\ <<"ProcessIIN", "OnResponse">> \in Seq(Steps)
  /\ <<"CheckState", "ProcessIIN", "OnResponse">> \in Seq(Steps)
BY DEF Steps

\* However the first thing left of a call ends, the rest of the call is of the same kind.
LEMMA CallSteps ==
  ASSUME Calls, todo # <<>>, Then(<<>>) \/ Then(<<"CheckState">>) \/ Throw
  PROVE  /\ todo' \in Seq(Steps) /\ response' \in Responses
         /\ state = "Closed" => todo' \in Seq({"CheckState"})
<1>1. CASE Throw
  BY <1>1, CallSequences DEF Throw, Responses
<1>2. ASSUME NEW first \in {<<>>, <<"CheckState">>}, Then(first)
      PROVE  /\ todo' \in Seq(Steps) /\ response' \in Responses
             /\ state = "Closed" => todo' \in Seq({"CheckState"})
  <2>1. todo' \in Seq(Steps)
    <3>1. first \in Seq(Steps) /\ todo \in Seq(Steps)
      BY CallSequences DEF Calls
    <3>2. QED
      BY <3>1, <1>2, ThenLeaves
  <2>2. ASSUME state = "Closed" PROVE todo' \in Seq({"CheckState"})
    <3>1. first \in Seq({"CheckState"}) /\ todo \in Seq({"CheckState"})
      BY <2>2, CallSequences DEF Calls
    <3>2. QED
      BY <3>1, <1>2, ThenLeaves
  <2>3. response' \in Responses
    BY <1>2 DEF Then, Calls, Responses
  <2>4. QED
    BY <2>1, <2>2, <2>3
<1>3. QED
  BY <1>1, <1>2

---------------------------------------------------------------------------
(* What CheckState can do *)

\* A task starts; the command task takes the command at the head of the queue.
Begins(t) ==
  /\ Starts(t)
  /\ UNCHANGED <<posted, answers>>
  /\ vto' = vto \/ \E n \in 1..vto.buffered : vto' = [vto EXCEPT !.written = n]
  /\ IF t = "command" THEN queue # <<>> /\ command' = Head(queue) /\ queue' = Tail(queue)
                      ELSE UNCHANGED <<command, queue>>

\* The command at the head of the queue is answered, for the link is closed.
Refuses(t) ==
  /\ t = "command" /\ state = "Closed"
  /\ Dispatches(t)
  /\ RespondToCommand
  /\ running' = [running EXCEPT ![t] = TRUE] /\ complete' = [complete EXCEPT ![t] = FALSE]
  /\ Then(<<>>)
  /\ UNCHANGED <<master, enabled, nextRun, vto, posted, channel, escaped, selected>>

LEMMA CheckStateDoes ==
  ASSUME CheckState
  PROVE  /\ todo # <<>>
         /\ \E t \in Tasks : \/ NothingDue(t) \/ DueLater(t) \/ Begins(t) \/ Refuses(t)
                             \/ Disables(t) /\ t \in Continuous
<1>1. todo # <<>>
  BY DEF CheckState, Proceed
<1>2. PICK t \in Tasks : \/ NothingDue(t) \/ DueLater(t)
                         \/ Poll(t) \/ AnswerIIN(t) \/ TransmitVtoData(t)
                         \/ ProcessCommandClosed(t) \/ ProcessCommandOpen(t)
  BY DEF CheckState
<1>3. CASE Poll(t)
  BY <1>1, <1>3 DEF Poll, Begins, users, Continuous
<1>4. CASE AnswerIIN(t)
  BY <1>1, <1>4 DEF Continuous, AnswerIIN, Begins, users
<1>5. CASE TransmitVtoData(t)
  BY <1>1, <1>5 DEF Continuous, TransmitVtoData, Begins
<1>6. CASE ProcessCommandClosed(t)
  BY <1>1, <1>6 DEF Continuous, ProcessCommandClosed, Refuses
<1>7. CASE ProcessCommandOpen(t)
  BY <1>1, <1>7 DEF Continuous, ProcessCommandOpen, Begins
<1>8. QED
  BY <1>1, <1>2, <1>3, <1>4, <1>5, <1>6, <1>7

---------------------------------------------------------------------------
(* The call in progress *)

LEMMA CallsHold ==
  ASSUME Calls, Next
  PROVE  Calls'
<1> USE CallSequences DEF Responses
<1>1. CASE CheckState
  <2>1. PICK t \in Tasks :
          NothingDue(t) \/ DueLater(t) \/ Begins(t) \/ Disables(t) \/ Refuses(t)
    BY <1>1, CheckStateDoes
  <2>2. todo # <<>>
    BY <1>1, CheckStateDoes
  <2>3. CASE NothingDue(t) \/ DueLater(t)
    BY <2>2, <2>3, CallSteps DEF NothingDue, DueLater, Calls, master
  <2>4. CASE Begins(t)
    BY <2>2, <2>4, CallSteps DEF Begins, Starts, SendRequest, Throw, Calls
  <2>5. CASE Disables(t) \/ Refuses(t)
    BY <2>2, <2>5, CallSteps DEF Disables, Refuses, Calls, master
  <2>6. QED
    BY <2>1, <2>3, <2>4, <2>5
<1>2. CASE ProcessIIN
  <2>1. todo # <<>> /\ (Then(<<>>) \/ Then(<<"CheckState">>))
    BY <1>2 DEF ProcessIIN, Proceed
  <2>2. QED
    BY <1>2, <2>1, CallSteps DEF ProcessIIN, Calls, master
<1>3. CASE OnResponse
  <2>1. todo # <<>> /\ Head(todo) = "OnResponse"
    BY <1>3 DEF OnResponse, UnsolicitedData, NotWaiting, PollThrows, PartialResponse, FinalResponse,
       TimeResponse, CommandResponse, InOnResponse, Proceed
  <2>2. CASE UnsolicitedData \/ NotWaiting \/ PollThrows
    BY <2>1, <2>2, CallSteps DEF UnsolicitedData, NotWaiting, PollThrows, Throw, Calls
  <2>3. CASE PartialResponse \/ FinalResponse
    BY <2>1, <2>3, CallSteps DEF PartialResponse, FinalResponse, Finish, Calls
  <2>4. CASE TimeResponse
    BY <2>1, <2>4, CallSteps DEF TimeResponse, SecondRequest, SendRequest, Finish, Throw, Calls
  <2>5. CASE CommandResponse
    BY <2>1, <2>5, CallSteps DEF CommandResponse, SecondRequest, SendRequest, Finish, Throw, Calls
  <2>6. QED
    BY <1>3, <2>2, <2>3, <2>4, <2>5 DEF OnResponse
<1>4. CASE Users
  BY <1>4 DEF Users, WriteVto, AcceptCommand, Calls, master
<1>5. CASE \E t \in {"command", "vto"} : Notified(t)
  BY <1>5 DEF Notified, Begin, Calls, master
<1>6. CASE Tick \/ OnTimerExpiration
  BY <1>6 DEF Tick, OnTimerExpiration, Begin, Calls, master
<1>7. CASE OnLowerLayerUp \/ OnLowerLayerDown \/ OnSolFailure
  BY <1>7 DEF OnLowerLayerUp, OnLowerLayerDown, OnSolFailure, OnFailure, Begin, Calls
<1>8. CASE OnUnsolResponse \/ OnPartialResponse \/ OnFinalResponse
  <2>1. state # "Closed" /\ state' = state /\ escaped' = escaped
    BY <1>8 DEF OnUnsolResponse, OnPartialResponse, OnFinalResponse, Receive, master, Calls
  <2>2. todo' \in Seq(Steps) /\ response' \in Responses
    BY <1>8 DEF OnUnsolResponse, OnPartialResponse, OnFinalResponse, Receive, Begin
  <2>3. QED
    BY <2>1, <2>2 DEF Calls
<1>9. QED
  BY <1>1, <1>2, <1>3, <1>4, <1>5, <1>6, <1>7, <1>8 DEF Next, Callbacks

---------------------------------------------------------------------------
(* The master and the variables that need nothing but their types *)

LEMMA MastersHold ==
  ASSUME Masters, Next
  PROVE  Masters'
<1> USE TasksAre
<1>1. CASE CheckState
  <2>1. PICK t \in Tasks :
          NothingDue(t) \/ DueLater(t) \/ Begins(t) \/ Disables(t) \/ Refuses(t)
    BY <1>1, CheckStateDoes
  <2>2. CASE Begins(t)
    BY <2>2 DEF Begins, Starts, SendRequest, Masters
  <2>3. CASE NothingDue(t) \/ DueLater(t) \/ Disables(t) \/ Refuses(t)
    BY <2>3 DEF NothingDue, DueLater, Disables, Refuses, Masters, master
  <2>4. QED
    BY <2>1, <2>2, <2>3
<1>2. CASE ProcessIIN
  BY <1>2 DEF ProcessIIN, Masters, master
<1>3. CASE OnResponse
  <2>1. CASE UnsolicitedData \/ NotWaiting \/ PollThrows \/ PartialResponse \/ FinalResponse
    BY <2>1 DEF UnsolicitedData, NotWaiting, PollThrows, PartialResponse, FinalResponse, Finish, Masters
  <2>2. CASE TimeResponse \/ CommandResponse
    <3>1. state = "Waiting" /\ (SecondRequest \/ Finish(TRUE) \/ Finish(FALSE))
      BY <2>2 DEF TimeResponse, CommandResponse
    <3>2. CASE SecondRequest
      BY <3>1, <3>2 DEF SecondRequest, SendRequest, Masters
    <3>3. CASE Finish(TRUE) \/ Finish(FALSE)
      BY <3>3 DEF Finish, Masters
    <3>4. QED
      BY <3>1, <3>2, <3>3
  <2>3. QED
    BY <1>3, <2>1, <2>2 DEF OnResponse
<1>4. CASE Users
  BY <1>4 DEF Users, WriteVto, AcceptCommand, Masters, master
<1>5. CASE (\E t \in {"command", "vto"} : Notified(t)) \/ Tick \/ OnTimerExpiration
  BY <1>5 DEF Notified, Tick, OnTimerExpiration, Masters, master
<1>6. CASE OnLowerLayerUp \/ OnLowerLayerDown \/ OnSolFailure
  BY <1>6 DEF OnLowerLayerUp, OnLowerLayerDown, OnSolFailure, OnFailure, Masters
<1>7. CASE OnUnsolResponse \/ OnPartialResponse \/ OnFinalResponse
  BY <1>7 DEF OnUnsolResponse, OnPartialResponse, OnFinalResponse, Receive, Masters, master
<1>8. QED
  BY <1>1, <1>2, <1>3, <1>4, <1>5, <1>6, <1>7 DEF Next, Callbacks

LEMMA PlainHold ==
  ASSUME Plain, Next
  PROVE  Plain'
<1>1. CASE CheckState
  <2>1. PICK t \in Tasks :
          NothingDue(t) \/ DueLater(t) \/ Begins(t) \/ Disables(t) \/ Refuses(t)
    BY <1>1, CheckStateDoes
  <2>2. CASE Begins(t)
    BY <2>2 DEF Begins, Starts, Dispatches, Plain, iin, counts
  <2>3. CASE NothingDue(t) \/ DueLater(t)
    BY <2>3 DEF NothingDue, DueLater, Plain, iin, counts, users, history
  <2>4. CASE Disables(t) \/ Refuses(t)
    BY <2>4 DEF Disables, Refuses, Dispatches, Plain, iin, counts, users
  <2>5. QED
    BY <2>1, <2>2, <2>3, <2>4
<1>2. CASE ProcessIIN
  BY <1>2 DEF ProcessIIN, Plain, iin, users, counts
<1>3. CASE OnResponse
  <2>1. CASE UnsolicitedData \/ NotWaiting \/ PollThrows \/ PartialResponse \/ FinalResponse
    BY <2>1 DEF UnsolicitedData, NotWaiting, PollThrows, PartialResponse, FinalResponse, InOnResponse,
       Plain, iin, counts, history
  <2>2. CASE TimeResponse \/ CommandResponse
    BY <2>2 DEF TimeResponse, CommandResponse, InOnResponse, Plain, iin, counts
  <2>3. QED
    BY <1>3, <2>1, <2>2 DEF OnResponse
<1>4. CASE Users
  BY <1>4 DEF Users, WriteVto, AcceptCommand, Happen, Plain, iin, history
<1>5. CASE \E t \in {"command", "vto"} : Notified(t)
  BY <1>5 DEF Notified, Plain, iin, history, counts
<1>6. CASE Tick \/ OnTimerExpiration
  BY <1>6 DEF Tick, OnTimerExpiration, Plain, iin, users, history, counts
<1>7. CASE OnLowerLayerUp \/ OnLowerLayerDown \/ OnSolFailure
  <2>1. CASE OnLowerLayerUp
    BY <2>1 DEF OnLowerLayerUp, Plain, iin, users, counts
  <2>2. CASE OnLowerLayerDown
    <3>1. /\ incidents' = incidents + 1 /\ commsUp' = FALSE
          /\ UNCHANGED <<iinTime, iinRestart, selected, cutOff, posted>>
      BY <2>2 DEF OnLowerLayerDown, Happen, iin, users
    <3>2. incidents' \in Nat
      BY <3>1 DEF Plain
    <3>3. commsUp' \in BOOLEAN /\ posted' = posted
      BY <3>1, Zenon
    <3>4. QED
      BY <3>1, <3>2, <3>3, Zenon DEF Plain
  <2>3. CASE OnSolFailure
    BY <2>3 DEF OnSolFailure, Plain, iin, users, counts
  <2>4. QED
    BY <1>7, <2>1, <2>2, <2>3
<1>8. CASE OnUnsolResponse \/ OnPartialResponse \/ OnFinalResponse
  <2>1. PICK cuts \in BOOLEAN : \E kind : Receive(kind, cuts)
    BY <1>8 DEF OnUnsolResponse, OnPartialResponse, OnFinalResponse
  <2>2. QED
    BY <2>1 DEF Receive, Happen, Plain, users, history
<1>9. QED
  BY <1>1, <1>2, <1>3, <1>4, <1>5, <1>6, <1>7, <1>8 DEF Next, Callbacks

LEMMA BuffersHold ==
  ASSUME Buffers, Next
  PROVE  Buffers'
<1>1. CASE CheckState
  <2>1. PICK t \in Tasks :
          NothingDue(t) \/ DueLater(t) \/ Begins(t) \/ Disables(t) \/ Refuses(t)
    BY <1>1, CheckStateDoes
  <2>2. CASE Begins(t)
    BY <2>2 DEF Begins, Buffers
  <2>3. CASE NothingDue(t) \/ DueLater(t) \/ Disables(t) \/ Refuses(t)
    BY <2>3 DEF NothingDue, DueLater, Disables, Refuses, Buffers, users
  <2>4. QED
    BY <2>1, <2>2, <2>3
<1>2. CASE ProcessIIN
  BY <1>2 DEF ProcessIIN, Buffers, users
<1>3. CASE OnResponse
  <2>1. CASE FinalResponse
    BY <2>1 DEF FinalResponse, Buffers
  <2>2. CASE UnsolicitedData \/ NotWaiting \/ PollThrows \/ PartialResponse
             \/ TimeResponse \/ CommandResponse
    BY <2>2 DEF UnsolicitedData, NotWaiting, PollThrows, PartialResponse, TimeResponse,
       CommandResponse, Buffers
  <2>3. QED
    BY <1>3, <2>1, <2>2 DEF OnResponse
<1>4. CASE Users
  BY <1>4 DEF Users, WriteVto, AcceptCommand, Buffers
<1>5. CASE (\E t \in {"command", "vto"} : Notified(t)) \/ Tick \/ OnTimerExpiration
  BY <1>5 DEF Notified, Tick, OnTimerExpiration, Buffers, users
<1>6. CASE Callbacks
  BY <1>6 DEF Callbacks, OnLowerLayerUp, OnLowerLayerDown, OnSolFailure, OnUnsolResponse,
     OnPartialResponse, OnFinalResponse, Receive, Buffers, users
<1>7. QED
  BY <1>1, <1>2, <1>3, <1>4, <1>5, <1>6 DEF Next

---------------------------------------------------------------------------
(* The tasks of the group *)

\* What OnComplete makes of the tasks.
LEMMA CompletesInGroup ==
  ASSUME Groups, NEW t \in Tasks, NEW success \in BOOLEAN, OnComplete(t, success), timer' = timer
  PROVE  Groups'
<1>1. running' \in [Tasks -> BOOLEAN] /\ complete' \in [Tasks -> BOOLEAN]
  BY DEF OnComplete, Groups
<1>2. nextRun' \in [Tasks -> 0..Never]
  <2>1. ASSUME NEW n, nextRun' = [nextRun EXCEPT ![t] = n], n \in 0..Never
        PROVE  nextRun' \in [Tasks -> 0..Never]
    BY <2>1 DEF Groups
  <2>2. CASE t \in Continuous
    <3>1. nextRun' = [nextRun EXCEPT ![t] = nextRun[t]]
      BY <2>2 DEF OnComplete, Continuous
    <3>2. QED
      BY <2>1, <3>1 DEF Groups
  <2>3. CASE t \notin Continuous /\ ~success
    <3>1. nextRun' = [nextRun EXCEPT ![t] = RetryRate]
      BY <2>3 DEF OnComplete
    <3>2. QED
      BY <2>1, <3>1, Rates
  <2>4. CASE t = "integrity" /\ success
    <3>1. nextRun' = [nextRun EXCEPT ![t] = IntegrityRate]
      BY <2>4 DEF OnComplete, Continuous
    <3>2. QED
      BY <2>1, <3>1, Rates
  <2>5. CASE t = "scan" /\ success
    <3>1. nextRun' = [nextRun EXCEPT ![t] = ScanRate]
      BY <2>5 DEF OnComplete, Continuous
    <3>2. QED
      BY <2>1, <3>1, Rates
  <2>6. CASE t \in {"disable", "enable"} /\ success
    <3>1. nextRun' = [nextRun EXCEPT ![t] = Never]
      BY <2>6 DEF OnComplete, Continuous
    <3>2. QED
      BY <2>1, <3>1, Rates
  <2>7. QED
    BY <2>2, <2>3, <2>4, <2>5, <2>6, TasksAre DEF Continuous
<1>3. done' \in SUBSET StartUp /\ groupRuns' \in BOOLEAN
  BY DEF OnComplete, Groups
<1>4. QED
  BY <1>1, <1>2, <1>3, Zenon DEF OnComplete, Groups

\* What Reset, SilentEnable and SilentDisable make of them.
LEMMA ResetsInGroup ==
  ASSUME Groups, NEW S, Reset(S)
  PROVE  /\ complete' \in [Tasks -> BOOLEAN] /\ running' \in [Tasks -> BOOLEAN]
         /\ nextRun' \in [Tasks -> 0..Never]
<1>1. complete' \in [Tasks -> BOOLEAN]
  BY DEF Reset, Groups
<1>2. running' \in [Tasks -> BOOLEAN]
  BY DEF Reset, Groups
<1>3. nextRun' \in [Tasks -> 0..Never]
  BY Rates DEF Reset, Groups
<1>4. QED
  BY <1>1, <1>2, <1>3

LEMMA EnablesInGroup ==
  ASSUME Groups, NEW S, SilentEnable(S) \/ SilentDisable(S)
  PROVE  enabled' \in [Tasks -> BOOLEAN]
<1>1. CASE SilentEnable(S)
  BY <1>1 DEF SilentEnable, Groups
<1>2. CASE SilentDisable(S)
  BY <1>2 DEF SilentDisable, Groups
<1>3. QED
  BY <1>1, <1>2

LEMMA GroupsHold ==
  ASSUME Masters, Groups, Next
  PROVE  Groups'
<1>1. CASE CheckState
  <2>1. PICK t \in Tasks :
          NothingDue(t) \/ DueLater(t) \/ Begins(t) \/ Disables(t) \/ Refuses(t)
    BY <1>1, CheckStateDoes
  <2>2. CASE NothingDue(t)
    BY <2>2, Zenon DEF NothingDue, Groups, taskVars, history
  <2>3. CASE DueLater(t)
    <3>1. timer' \in 0..Never
      BY <2>3 DEF DueLater, Groups
    <3>2. QED
      BY <2>3, <3>1, Zenon DEF DueLater, Groups, taskVars, history
  <2>4. CASE Begins(t)
    <3>1. running' \in [Tasks -> BOOLEAN] /\ complete' \in [Tasks -> BOOLEAN]
      BY <2>4 DEF Begins, Starts, Groups
    <3>2. groupRuns' \in BOOLEAN
      BY <2>4 DEF Begins, Starts, Dispatches
    <3>3. QED
      BY <2>4, <3>1, <3>2, Zenon DEF Begins, Starts, Dispatches, Groups
  <2>5. CASE Disables(t)
    <3>1. groupRuns' \in BOOLEAN /\ SilentDisable({t}) /\ Reset({t})
      BY <2>5 DEF Disables, Dispatches, SilentDisable
    <3>2. QED
      BY <2>5, <3>1, ResetsInGroup, EnablesInGroup, Zenon DEF Disables, Dispatches, Groups
  <2>6. CASE Refuses(t)
    <3>1. running' \in [Tasks -> BOOLEAN] /\ complete' \in [Tasks -> BOOLEAN]
      BY <2>6 DEF Refuses, Groups
    <3>2. groupRuns' \in BOOLEAN
      BY <2>6 DEF Refuses, Dispatches
    <3>3. QED
      BY <2>6, <3>1, <3>2, Zenon DEF Refuses, Dispatches, Groups
  <2>7. QED
    BY <2>1, <2>2, <2>3, <2>4, <2>5, <2>6
<1>2. CASE ProcessIIN
  <2>1. PICK S : SilentEnable(S)
    BY <1>2, Zenon DEF ProcessIIN
  <2>2. PICK R : Reset(R) /\ done' = done \ R
    BY <1>2, Zenon DEF ProcessIIN
  <2>3. done' \in SUBSET StartUp
    BY <2>2 DEF Groups
  <2>4. QED
    BY <1>2, <2>1, <2>2, <2>3, ResetsInGroup, EnablesInGroup, Zenon DEF ProcessIIN, Groups
<1>3. CASE OnResponse
  <2>1. ASSUME timer' = timer, state = "Waiting", NEW success \in BOOLEAN, Finish(success)
        PROVE  Groups'
    BY <2>1, CompletesInGroup DEF Finish, Masters
  <2>2. ASSUME timer' = timer, UNCHANGED <<taskVars, done>>
        PROVE  Groups'
    BY <2>2, Zenon DEF Groups, taskVars
  <2>3. timer' = timer
    BY <1>3 DEF OnResponse, UnsolicitedData, NotWaiting, PollThrows, PartialResponse, FinalResponse,
       TimeResponse, CommandResponse, InOnResponse
  <2>4. CASE UnsolicitedData \/ NotWaiting \/ PollThrows
    BY <2>2, <2>3, <2>4 DEF UnsolicitedData, NotWaiting, PollThrows, history
  <2>5. CASE PartialResponse
    <3>1. Finish(FALSE) \/ UNCHANGED <<taskVars, done>>
      BY <2>5 DEF PartialResponse
    <3>2. QED
      BY <2>1, <2>2, <2>3, <2>5, <3>1 DEF PartialResponse
  <2>6. CASE FinalResponse
    BY <2>1, <2>3, <2>6 DEF FinalResponse
  <2>7. CASE TimeResponse \/ CommandResponse
    <3>1. state = "Waiting" /\ (SecondRequest \/ Finish(TRUE) \/ Finish(FALSE))
      BY <2>7 DEF TimeResponse, CommandResponse
    <3>2. CASE SecondRequest
      BY <2>2, <2>3, <3>2 DEF SecondRequest
    <3>3. QED
      BY <2>1, <2>3, <3>1, <3>2
  <2>8. QED
    BY <1>3, <2>4, <2>5, <2>6, <2>7 DEF OnResponse
<1>4. CASE Users
  BY <1>4, Zenon DEF Users, WriteVto, AcceptCommand, Groups, taskVars, history
<1>5. ASSUME NEW t \in {"command", "vto"}, Notified(t)
      PROVE  Groups'
  BY <1>5, EnablesInGroup, Zenon DEF Notified, Groups, history
<1>6. CASE Tick
  <2>1. nextRun' \in [Tasks -> 0..Never]
    BY <1>6, Rates DEF Tick, Groups
  <2>2. timer' \in 0..Never
    BY <1>6, Rates DEF Tick, Groups
  <2>3. QED
    BY <1>6, <2>1, <2>2, Zenon DEF Tick, Groups, history
<1>7. CASE OnTimerExpiration
  <2>1. timer' \in 0..Never
    BY <1>7, Rates DEF OnTimerExpiration
  <2>2. QED
    BY <1>7, <2>1, Zenon DEF OnTimerExpiration, Groups, taskVars, history
<1>8. CASE OnLowerLayerUp
  <2>1. done' \in SUBSET StartUp
    BY <1>8 DEF OnLowerLayerUp
  <2>2. QED
    BY <1>8, <2>1, EnablesInGroup, Zenon DEF OnLowerLayerUp, Groups
<1>9. CASE OnLowerLayerDown
  <2>1. SilentDisable(OnlineOnly) /\ Reset(OnlineOnly)
    BY <1>9 DEF OnLowerLayerDown, SilentDisable
  <2>2. QED
    BY <1>9, <2>1, ResetsInGroup, EnablesInGroup, Zenon DEF OnLowerLayerDown, Groups
<1>10. CASE OnSolFailure
  <2>1. timer' = timer
    BY <1>10 DEF OnSolFailure
  <2>2. CASE state = "Waiting"
    BY <1>10, <2>1, <2>2, CompletesInGroup DEF OnSolFailure, OnFailure, Masters
  <2>3. CASE state # "Waiting"
    BY <1>10, <2>1, <2>3, Zenon DEF OnSolFailure, Groups, taskVars
  <2>4. QED
    BY <2>2, <2>3
<1>11. CASE OnUnsolResponse \/ OnPartialResponse \/ OnFinalResponse
  <2>1. PICK kind, cuts : Receive(kind, cuts)
    BY <1>11 DEF OnUnsolResponse, OnPartialResponse, OnFinalResponse
  <2>2. enabled' \in [Tasks -> BOOLEAN]
    <3>1. SilentEnable({"vto"}) \/ UNCHANGED enabled
      BY <2>1 DEF Receive
    <3>2. QED
      BY <3>1, EnablesInGroup DEF Groups
  <2>3. QED
    BY <2>1, <2>2, Zenon DEF Receive, Groups, history
<1>12. QED
  BY <1>1, <1>2, <1>3, <1>4, <1>5, <1>6, <1>7, <1>8, <1>9, <1>10, <1>11 DEF Next, Callbacks

---------------------------------------------------------------------------
(* The scheduler and the master agree *)

\* A step that starts no task, touches neither the running tasks nor the state of the
\* master, and enables nothing that needs the link.
LEMMA AgreementKept ==
  ASSUME Groups, OneTaskAtATime, UNCHANGED <<state, scheduled, running, groupRuns>>,
         \/ UNCHANGED enabled
         \/ SilentEnable({"command"}) \/ SilentEnable({"vto"})
         \/ state # "Closed"
  PROVE  OneTaskAtATime'
<1>1. ASSUME state = "Closed", NEW u \in OnlineOnly \ {"vto"}
      PROVE  ~enabled'[u]
  <2>1. ~enabled[u] /\ u \in Tasks /\ u \notin {"command", "vto"}
    BY <1>1 DEF OneTaskAtATime, OnlineOnly
  <2>2. QED
    BY <1>1, <2>1 DEF SilentEnable
<1>2. QED
  BY <1>1 DEF OneTaskAtATime

\* The end of the task in progress.
LEMMA AgreementAtEnd ==
  ASSUME Groups, Masters, OneTaskAtATime, state = "Waiting", NEW success \in BOOLEAN,
         OnComplete(scheduled, success), state' = "Idle"
  PROVE  OneTaskAtATime'
<1>1. running' = [running EXCEPT ![scheduled] = FALSE]
  BY DEF OnComplete
<1>2. ASSUME NEW u \in Tasks, running'[u], u # "command" PROVE FALSE
  BY <1>1, <1>2 DEF OneTaskAtATime, Groups, Masters
<1>3. QED
  BY <1>2 DEF OneTaskAtATime

\* The reset of tasks that do not run.
LEMMA AgreementAtReset ==
  ASSUME Groups, Masters, OneTaskAtATime, NEW S, Reset(S),
         \A t \in S \cap Tasks : ~running[t],
         UNCHANGED <<state, scheduled>>, groupRuns' = groupRuns \/ groupRuns' = TRUE,
         state = "Closed" => \A t \in OnlineOnly \ {"vto"} : enabled'[t] => enabled[t]
  PROVE  OneTaskAtATime'
<1>1. \A t \in Tasks : running'[t] <=> running[t]
  BY DEF Reset, Groups
<1>2. state = "Waiting" => running'[scheduled] /\ groupRuns'
  BY <1>1 DEF OneTaskAtATime, Masters
<1>3. QED
  BY <1>1, <1>2 DEF OneTaskAtATime

LEMMA AgreementHolds ==
  ASSUME Calls, Masters, Groups, OneTaskAtATime, Next
  PROVE  OneTaskAtATime'
<1>1. CASE CheckState
  <2>1. PICK t \in Tasks :
          NothingDue(t) \/ DueLater(t) \/ Begins(t) \/ Disables(t) \/ Refuses(t)
    BY <1>1, CheckStateDoes
  <2>2. CASE NothingDue(t) \/ DueLater(t)
    BY <2>2, AgreementKept DEF NothingDue, DueLater, taskVars, master
  <2>3. CASE Begins(t)
    <3>1. state = "Idle" /\ state' = "Waiting" /\ scheduled' = t /\ groupRuns' = TRUE
      BY <2>3 DEF Begins, Starts, Dispatches
    <3>2. running' = [running EXCEPT ![t] = TRUE]
      BY <2>3 DEF Begins, Starts
    <3>3. \A u \in Tasks : running'[u] => u = t \/ u = "command"
      BY <3>1, <3>2 DEF OneTaskAtATime, Groups
    <3>4. running'[t]
      BY <3>2 DEF Groups
    <3>5. QED
      BY <3>1, <3>3, <3>4 DEF OneTaskAtATime
  <2>4. CASE Disables(t)
    <3>1. /\ ~running[t] /\ SilentDisable({t}) /\ Reset({t}) /\ groupRuns' = TRUE
          /\ UNCHANGED <<state, scheduled>>
      BY <2>4 DEF Disables, Dispatches, NothingToRun, SilentDisable, master
    <3>2. \A u \in Tasks : enabled'[u] => enabled[u]
      BY <3>1 DEF SilentDisable
    <3>3. \A u \in {t} \cap Tasks : ~running[u]
      BY <3>1
    <3>4. QED
      BY <3>1, <3>2, <3>3, AgreementAtReset DEF OnlineOnly
  <2>5. CASE Refuses(t)
    <3>1. /\ t = "command" /\ running' = [running EXCEPT ![t] = TRUE]
          /\ UNCHANGED <<state, scheduled, enabled>> /\ state = "Closed"
      BY <2>5 DEF Refuses, master
    <3>2. \A u \in Tasks : running'[u] => u = "command"
      BY <3>1 DEF OneTaskAtATime, Groups
    <3>3. QED
      BY <3>1, <3>2 DEF OneTaskAtATime
  <2>6. QED
    BY <2>1, <2>2, <2>3, <2>4, <2>5
<1>2. CASE ProcessIIN
  <2>1. state # "Closed"
    <3>1. todo # <<>> /\ Head(todo) = "ProcessIIN"
      BY <1>2 DEF ProcessIIN, Proceed
    <3>2. ASSUME todo \in Seq({"CheckState"}) PROVE FALSE
      BY <3>1, <3>2, SequenceTypes
    <3>3. QED
      BY <3>2 DEF Calls
  <2>2. PICK R : Reset(R) /\ \A t \in R : ~running[t]
    <3> DEFINE S == IF iinRestart THEN {t \in StartUp : ~running[t]} ELSE {}
    <3>1. Reset(S)
      BY <1>2 DEF ProcessIIN
    <3>2. \A t \in S : ~running[t]
      OBVIOUS
    <3> HIDE DEF S
    <3>3. QED
      BY <3>1, <3>2
  <2>3. UNCHANGED <<state, scheduled, groupRuns>>
    BY <1>2 DEF ProcessIIN, master
  <2>4. QED
    BY <2>1, <2>2, <2>3, AgreementAtReset
<1>3. CASE OnResponse
  <2>1. ASSUME state = "Waiting", NEW success \in BOOLEAN, Finish(success)
        PROVE  OneTaskAtATime'
    BY <2>1, AgreementAtEnd DEF Finish
  <2>2. ASSUME UNCHANGED <<state, scheduled, taskVars>>
        PROVE  OneTaskAtATime'
    BY <2>2, AgreementKept DEF taskVars
  <2>3. CASE UnsolicitedData \/ NotWaiting \/ PollThrows
    BY <2>2, <2>3 DEF UnsolicitedData, NotWaiting, PollThrows
  <2>4. CASE PartialResponse
    BY <2>1, <2>2, <2>4 DEF PartialResponse
  <2>5. CASE FinalResponse
    BY <2>1, <2>5 DEF FinalResponse
  <2>6. CASE TimeResponse \/ CommandResponse
    <3>1. state = "Waiting" /\ (SecondRequest \/ Finish(TRUE) \/ Finish(FALSE))
      BY <2>6 DEF TimeResponse, CommandResponse
    <3>2. CASE SecondRequest
      BY <2>2, <3>2 DEF SecondRequest
    <3>3. QED
      BY <2>1, <3>1, <3>2
  <2>7. QED
    BY <1>3, <2>3, <2>4, <2>5, <2>6 DEF OnResponse
<1>4. CASE Users
  BY <1>4, AgreementKept DEF Users, WriteVto, AcceptCommand, taskVars, master
<1>5. ASSUME NEW t \in {"command", "vto"}, Notified(t)
      PROVE  OneTaskAtATime'
  BY <1>5, AgreementKept DEF Notified, master
<1>6. CASE Tick \/ OnTimerExpiration
  BY <1>6, AgreementKept DEF Tick, OnTimerExpiration, taskVars, master
<1>7. CASE OnLowerLayerUp
  BY <1>7 DEF OnLowerLayerUp, OneTaskAtATime
<1>8. CASE OnLowerLayerDown
  <2>1. /\ state' = "Closed"
        /\ enabled' = [t \in Tasks |-> enabled[t] /\ t \notin OnlineOnly]
        /\ running' = [t \in Tasks |-> running[t] /\ t \notin OnlineOnly]
    BY <1>8 DEF OnLowerLayerDown, SilentDisable, Reset
  <2>2. QED
    BY <2>1 DEF OneTaskAtATime, OnlineOnly
<1>9. CASE OnSolFailure
  <2>1. CASE state = "Waiting"
    BY <1>9, <2>1, AgreementAtEnd DEF OnSolFailure, OnFailure
  <2>2. CASE state # "Waiting"
    BY <1>9, <2>2, AgreementKept DEF OnSolFailure, taskVars
  <2>3. QED
    BY <2>1, <2>2
<1>10. CASE OnUnsolResponse \/ OnPartialResponse \/ OnFinalResponse
  <2>1. PICK kind, cuts : Receive(kind, cuts)
    BY <1>10 DEF OnUnsolResponse, OnPartialResponse, OnFinalResponse
  <2>2. UNCHANGED enabled \/ SilentEnable({"vto"})
    BY <2>1 DEF Receive
  <2>3. QED
    BY <2>1, <2>2, AgreementKept DEF Receive, master
<1>11. QED
  BY <1>1, <1>2, <1>3, <1>4, <1>5, <1>6, <1>7, <1>8, <1>9, <1>10 DEF Next, Callbacks

---------------------------------------------------------------------------
(* The commands *)

Statuses == {"SUCCESS", "FAILED", "HARDWARE_ERROR"}

\* A step that neither takes nor answers a command.
LEMMA CommandsKept ==
  ASSUME Commands, UNCHANGED <<queue, command, answers>>,
         state' = "Waiting" /\ scheduled' = "command" => state = "Waiting" /\ scheduled = "command"
  PROVE  Commands'
<1>1. \A c \in Cmds : Executing(c)' => Executing(c)
  BY DEF Executing
<1>2. \A i \in 1..Len(queue) : queue[i] \in Cmds
  BY DEF Commands
<1>3. QED
  BY <1>1, <1>2 DEF Commands

\* The answer of one command.
LEMMA Answered ==
  ASSUME Commands, NEW c \in Cmds, NEW status \in Statuses, answers[c] = <<>>, Respond(c, status)
  PROVE  /\ answers' \in [Cmds -> Seq(Statuses)]
         /\ \A d \in Cmds : Len(answers'[d]) <= 1
         /\ \A d \in Cmds : d # c => answers'[d] = answers[d]
<1>1. Append(<<>>, status) \in Seq(Statuses) /\ Len(Append(<<>>, status)) = 1
  OBVIOUS
<1>2. answers' = [answers EXCEPT ![c] = Append(<<>>, status)]
  BY DEF Respond
<1>3. QED
  BY <1>1, <1>2 DEF Commands, Statuses

\* The command being executed is answered.
LEMMA CommandsEnd ==
  ASSUME Commands, state = "Waiting", scheduled = "command", state' # "Waiting",
         NEW status \in Statuses, Respond(command, status), UNCHANGED <<queue, command>>
  PROVE  Commands'
<1>1. command \in Cmds /\ answers[command] = <<>>
  BY DEF Commands
<1>2. /\ answers' \in [Cmds -> Seq(Statuses)]
      /\ \A d \in Cmds : Len(answers'[d]) <= 1
      /\ \A d \in Cmds : d # command => answers'[d] = answers[d]
  BY <1>1, Answered
<1>3. \A i \in 1..Len(queue) : queue[i] \in Cmds /\ queue[i] # command /\ answers[queue[i]] = <<>>
  BY DEF Commands, Executing
<1>4. \A i \in 1..Len(queue) : answers'[queue[i]] = <<>>
  BY <1>2, <1>3
<1>5. QED
  BY <1>1, <1>2, <1>4 DEF Commands, Executing, Statuses

\* The queue without its first command.
LEMMA CommandTaken ==
  ASSUME Commands, queue # <<>>
  PROVE  /\ Head(queue) \in Cmds /\ answers[Head(queue)] = <<>>
         /\ Tail(queue) \in Seq(Cmds)
         /\ LET rest == Tail(queue)
            IN  /\ \A i, j \in 1..Len(rest) : rest[i] = rest[j] => i = j
                /\ \A i \in 1..Len(rest) :
                     rest[i] \in Cmds /\ rest[i] # Head(queue) /\ answers[rest[i]] = <<>>
<1> DEFINE rest == Tail(queue)
<1>1. queue \in Seq(Cmds) /\ Len(queue) >= 1
  BY DEF Commands
<1>2. Head(queue) = queue[1] /\ Head(queue) \in Cmds /\ answers[Head(queue)] = <<>>
  BY <1>1 DEF Commands
<1>3. rest \in Seq(Cmds) /\ Len(rest) = Len(queue) - 1
  BY <1>1
<1>4. ASSUME NEW i \in 1..Len(rest)
      PROVE  rest[i] = queue[i + 1] /\ i + 1 \in 2..Len(queue)
  BY <1>1, <1>3
<1> HIDE DEF rest
<1>5. ASSUME NEW i \in 1..Len(rest), NEW j \in 1..Len(rest), rest[i] = rest[j]
      PROVE  i = j
  <2>1. i + 1 = j + 1
    BY <1>4, <1>5, <1>1 DEF Commands
  <2>2. QED
    BY <2>1, <1>3
<1>6. ASSUME NEW i \in 1..Len(rest)
      PROVE  rest[i] \in Cmds /\ rest[i] # Head(queue) /\ answers[rest[i]] = <<>>
  BY <1>1, <1>2, <1>4, <1>6 DEF Commands
<1>7. QED
  BY <1>2, <1>3, <1>5, <1>6 DEF rest

LEMMA CommandsHold ==
  ASSUME Calls, Masters, Commands, Next
  PROVE  Commands'
<1>1. CASE CheckState
  <2>1. PICK t \in Tasks :
          NothingDue(t) \/ DueLater(t) \/ Begins(t) \/ Disables(t) \/ Refuses(t)
    BY <1>1, CheckStateDoes
  <2>2. CASE NothingDue(t) \/ DueLater(t) \/ Disables(t)
    BY <2>2, CommandsKept DEF NothingDue, DueLater, Disables, master, users, history
  <2>3. CASE Begins(t)
    <3>1. state = "Idle" /\ state' = "Waiting" /\ scheduled' = t /\ answers' = answers
      BY <2>3 DEF Begins, Starts
    <3>2. CASE t # "command"
      BY <2>3, <3>1, <3>2, CommandsKept DEF Begins
    <3>3. CASE t = "command"
      <4>1. queue # <<>> /\ command' = Head(queue) /\ queue' = Tail(queue)
        BY <2>3, <3>3 DEF Begins
      <4>2. QED
        BY <3>1, <4>1, CommandTaken DEF Commands, Executing
    <3>4. QED
      BY <3>2, <3>3
  <2>4. CASE Refuses(t)
    <3>1. /\ queue # <<>> /\ Respond(Head(queue), "HARDWARE_ERROR") /\ queue' = Tail(queue)
          /\ state = "Closed" /\ state' = "Closed" /\ command' = command
      BY <2>4 DEF Refuses, RespondToCommand, master
    <3>2. /\ answers' \in [Cmds -> Seq(Statuses)]
          /\ \A d \in Cmds : Len(answers'[d]) <= 1
          /\ \A d \in Cmds : d # Head(queue) => answers'[d] = answers[d]
      <4>1. "HARDWARE_ERROR" \in Statuses
        BY DEF Statuses
      <4>2. QED
        BY <3>1, <4>1, CommandTaken, Answered
    <3>3. \A i \in 1..Len(queue') : answers'[queue'[i]] = <<>>
      BY <3>1, <3>2, CommandTaken
    <3>4. /\ queue' \in Seq(Cmds)
          /\ \A i, j \in 1..Len(queue') : queue'[i] = queue'[j] => i = j
      BY <3>1, CommandTaken
    <3>5. QED
      BY <3>1, <3>2, <3>3, <3>4 DEF Commands, Executing, Statuses
  <2>5. QED
    BY <2>1, <2>2, <2>3, <2>4
<1>2. CASE ProcessIIN
  BY <1>2, CommandsKept DEF ProcessIIN, master, users
<1>3. CASE OnResponse
  <2>1. UNCHANGED <<queue, command>>
    BY <1>3 DEF OnResponse, UnsolicitedData, NotWaiting, PollThrows, PartialResponse, FinalResponse,
       TimeResponse, CommandResponse, InOnResponse
  <2>2. CASE UnsolicitedData \/ NotWaiting \/ PollThrows
    BY <2>1, <2>2, CommandsKept DEF UnsolicitedData, NotWaiting, PollThrows, history
  <2>3. CASE PartialResponse \/ FinalResponse
    BY <2>1, <2>3, CommandsKept DEF PartialResponse, FinalResponse, Finish
  <2>4. CASE TimeResponse
    BY <2>1, <2>4, CommandsKept DEF TimeResponse, SecondRequest, Finish
  <2>5. CASE CommandResponse
    <3>1. state = "Waiting" /\ scheduled = "command"
      BY <2>5 DEF CommandResponse
    <3>2. CASE SecondRequest /\ UNCHANGED answers
      BY <2>1, <3>2, CommandsKept DEF SecondRequest
    <3>3. ASSUME NEW status \in Statuses, Respond(command, status), Finish(TRUE)
          PROVE  Commands'
      <4>1. state' # "Waiting"
        BY <3>3 DEF Finish
      <4>2. QED
        BY <2>1, <3>1, <3>3, <4>1, CommandsEnd
    <3>4. "SUCCESS" \in Statuses /\ "FAILED" \in Statuses
      BY DEF Statuses
    <3>5. QED
      BY <2>5, <3>2, <3>3, <3>4 DEF CommandResponse
  <2>6. QED
    BY <1>3, <2>2, <2>3, <2>4, <2>5 DEF OnResponse
<1>4. CASE WriteVto
  BY <1>4, CommandsKept DEF WriteVto, master, history
<1>5. ASSUME NEW c \in Cmds, AcceptCommand(c)
      PROVE  Commands'
  <2>1. /\ answers[c] = <<>> /\ c # command /\ \A i \in 1..Len(queue) : queue[i] # c
        /\ queue' = Append(queue, c)
        /\ UNCHANGED <<state, scheduled, command, answers>>
    BY <1>5 DEF AcceptCommand, master, history, Commands
  <2>2. /\ queue' \in Seq(Cmds) /\ Len(queue') = Len(queue) + 1 /\ queue'[Len(queue) + 1] = c
        /\ \A i \in 1..Len(queue) : queue'[i] = queue[i]
    BY <2>1 DEF Commands
  <2>3. \A i \in 1..Len(queue') : i \in 1..Len(queue) \/ i = Len(queue) + 1
    BY <2>2 DEF Commands
  <2>4. \A i, j \in 1..Len(queue') : queue'[i] = queue'[j] => i = j
    BY <2>1, <2>2, <2>3 DEF Commands
  <2>5. \A i \in 1..Len(queue') : answers[queue'[i]] = <<>> /\ ~Executing(queue'[i])
    BY <2>1, <2>2, <2>3 DEF Commands, Executing
  <2>6. QED
    BY <2>1, <2>2, <2>4, <2>5 DEF Commands, Executing
<1>6. CASE (\E t \in {"command", "vto"} : Notified(t)) \/ Tick \/ OnTimerExpiration
  BY <1>6, CommandsKept DEF Notified, Tick, OnTimerExpiration, master, users, history
<1>7. CASE OnLowerLayerUp
  BY <1>7, CommandsKept DEF OnLowerLayerUp, users
<1>8. ASSUME OnLowerLayerDown \/ OnSolFailure
      PROVE  Commands'
  <2>1. UNCHANGED <<queue, command>>
    BY <1>8 DEF OnLowerLayerDown, OnSolFailure, users
  <2>2. CASE state = "Waiting" /\ scheduled = "command"
    <3>1. Respond(command, "HARDWARE_ERROR") /\ state' # "Waiting"
      BY <1>8, <2>2 DEF OnLowerLayerDown, OnSolFailure, OnFailure, TaskFails
    <3>2. "HARDWARE_ERROR" \in Statuses
      BY DEF Statuses
    <3>3. QED
      BY <2>1, <2>2, <3>1, <3>2, CommandsEnd
  <2>3. CASE ~(state = "Waiting" /\ scheduled = "command")
    <3>1. answers' = answers /\ state' # "Waiting"
      BY <1>8, <2>3 DEF OnLowerLayerDown, OnSolFailure, OnFailure, TaskFails
    <3>2. QED
      BY <2>1, <3>1, CommandsKept
  <2>4. QED
    BY <2>2, <2>3
<1>9. CASE OnUnsolResponse \/ OnPartialResponse \/ OnFinalResponse
  BY <1>9, CommandsKept DEF OnUnsolResponse, OnPartialResponse, OnFinalResponse, Receive, master,
     users, history
<1>10. QED
  BY <1>1, <1>2, <1>3, <1>4, <1>5, <1>6, <1>7, <1>8, <1>9 DEF Next, Users, Callbacks

---------------------------------------------------------------------------
(* The second step of a command *)

LEMMA OperatesKept ==
  ASSUME Operates, UNCHANGED selected,
         state' # "Waiting" \/ UNCHANGED <<state, scheduled, step>> \/ scheduled' # "command"
           \/ step' # 2
  PROVE  Operates'
BY DEF Operates

LEMMA OperatesHold ==
  ASSUME Operates, Next
  PROVE  Operates'
<1>1. CASE CheckState
  <2>1. PICK t \in Tasks :
          NothingDue(t) \/ DueLater(t) \/ Begins(t) \/ Disables(t) \/ Refuses(t)
    BY <1>1, CheckStateDoes
  <2>2. CASE Begins(t)
    BY <2>2 DEF Begins, Starts, Operates
  <2>3. CASE NothingDue(t) \/ DueLater(t) \/ Disables(t) \/ Refuses(t)
    BY <2>3, OperatesKept DEF NothingDue, DueLater, Disables, Refuses, master, history
  <2>4. QED
    BY <2>1, <2>2, <2>3
<1>2. CASE ProcessIIN
  BY <1>2, OperatesKept DEF ProcessIIN, master
<1>3. CASE OnResponse
  <2>1. CASE UnsolicitedData \/ NotWaiting \/ PollThrows
    BY <2>1, OperatesKept DEF UnsolicitedData, NotWaiting, PollThrows, history
  <2>2. CASE PartialResponse \/ FinalResponse
    BY <2>2, OperatesKept DEF PartialResponse, FinalResponse, Finish
  <2>3. CASE TimeResponse
    BY <2>3, OperatesKept DEF TimeResponse, SecondRequest, Finish
  <2>4. CASE CommandResponse
    <3>1. (selected' = TRUE) \/ (Finish(TRUE) /\ UNCHANGED selected)
      BY <2>4 DEF CommandResponse
    <3>2. QED
      BY <3>1, OperatesKept DEF Finish, Operates
  <2>5. QED
    BY <1>3, <2>1, <2>2, <2>3, <2>4 DEF OnResponse
<1>4. CASE Users
  BY <1>4, OperatesKept DEF Users, WriteVto, AcceptCommand, master, history
<1>5. CASE (\E t \in {"command", "vto"} : Notified(t)) \/ Tick \/ OnTimerExpiration
  BY <1>5, OperatesKept DEF Notified, Tick, OnTimerExpiration, master, history
<1>6. CASE OnLowerLayerUp \/ OnLowerLayerDown
  BY <1>6, OperatesKept DEF OnLowerLayerUp, OnLowerLayerDown
<1>7. CASE OnSolFailure
  BY <1>7, OperatesKept DEF OnSolFailure, OnFailure
<1>8. CASE OnUnsolResponse \/ OnPartialResponse \/ OnFinalResponse
  BY <1>8, OperatesKept DEF OnUnsolResponse, OnPartialResponse, OnFinalResponse, Receive, master, history
<1>9. QED
  BY <1>1, <1>2, <1>3, <1>4, <1>5, <1>6, <1>7, <1>8 DEF Next, Callbacks

---------------------------------------------------------------------------
(* Answers to their own requests *)

\* What the end of the first thing left of a call leaves.
LEMMA HandlerKept ==
  ASSUME Calls, todo # <<>>, HandlerLast,
         \/ Then(<<>>) /\ Head(todo) # "OnResponse"
         \/ Then(<<"CheckState">>) /\ Head(todo) # "OnResponse"
  PROVE  HandlerLast' /\ (HandlerDue' => HandlerDue) /\ (response' = response \/ response' = None)
<1> DEFINE n == Len(todo)
<1>1. todo \in Seq(Steps) /\ n \in Nat \ {0}
  BY DEF Calls
<1>2. response' = response \/ response' = None
  BY DEF Then
<1>3. CASE Then(<<>>)
  <2>1. todo' = Tail(todo)
    BY <1>1, <1>3 DEF Then
  <2>2. Len(todo') = n - 1 /\ \A i \in 1..n - 1 : todo'[i] = todo[i + 1]
    BY <1>1, <2>1
  <2>3. ASSUME NEW i \in 1..Len(todo'), todo'[i] = "OnResponse"
        PROVE  i = Len(todo') /\ HandlerDue
    BY <1>1, <2>2, <2>3 DEF HandlerLast, HandlerDue
  <2>4. QED
    BY <1>2, <2>3 DEF HandlerLast, HandlerDue
<1>4. CASE Then(<<"CheckState">>)
  <2>1. todo' = <<"CheckState">> \o Tail(todo)
    BY <1>1, <1>4 DEF Then
  <2>2. /\ Len(todo') = n
        /\ \A i \in 1..n : todo'[i] = IF i = 1 THEN "CheckState" ELSE todo[i]
    BY <1>1, <2>1
  <2>3. ASSUME NEW i \in 1..Len(todo'), todo'[i] = "OnResponse"
        PROVE  i = Len(todo') /\ HandlerDue
    BY <1>1, <2>2, <2>3 DEF HandlerLast, HandlerDue
  <2>4. QED
    BY <1>2, <2>3 DEF HandlerLast, HandlerDue
<1>5. QED
  BY <1>3, <1>4

\* After the handler of a response no other is left.
LEMMA HandlerEnds ==
  ASSUME Calls, todo # <<>>, HandlerLast, Head(todo) = "OnResponse",
         Then(<<>>) \/ Then(<<"CheckState">>) \/ Throw
  PROVE  HandlerLast' /\ ~HandlerDue'
<1>1. todo \in Seq(Steps) /\ Len(todo) \in Nat \ {0} /\ todo[1] = "OnResponse"
  BY DEF Calls
<1>2. Len(todo) = 1
  BY <1>1 DEF HandlerLast
<1>3. Tail(todo) = <<>>
  <2> DEFINE s == Tail(todo)
  <2>1. s \in Seq(Steps) /\ Len(s) = 0
    BY <1>1, <1>2
  <2> HIDE DEF s
  <2>2. s = <<>>
    BY <2>1
  <2>3. QED
    BY <2>2 DEF s
<1>4. todo' = <<>> \/ todo' = <<"CheckState">>
  BY <1>3 DEF Then, Throw
<1>5. QED
  BY <1>4 DEF HandlerLast, HandlerDue

LEMMA OwnsKept ==
  ASSUME Owns, UNCHANGED <<state, scheduled, channel>>, cutOff' \in BOOLEAN, cutOff => cutOff',
         HandlerLast', HandlerDue' => HandlerDue, response' = response \/ response' = None
  PROVE  Owns'
<1>1. OwnAnswers'
  BY DEF Owns, OwnAnswers
<1>2. None \notin {"partial", "final"}
  BY DEF None
<1>3. QED
  BY <1>1, <1>2 DEF Owns

LEMMA OwnsHold ==
  ASSUME Calls, Masters, Plain, OneTaskAtATime, Owns, Next
  PROVE  Owns'
<1> USE TasksAre
<1>1. CASE CheckState
  <2>1. PICK t \in Tasks :
          NothingDue(t) \/ DueLater(t) \/ Begins(t) \/ Disables(t) \/ Refuses(t)
    BY <1>1, CheckStateDoes
  <2>2. todo # <<>> /\ Head(todo) = "CheckState"
    BY <1>1 DEF CheckState, Proceed
  <2>3. CASE NothingDue(t) \/ DueLater(t) \/ Disables(t) \/ Refuses(t)
    <3>1. /\ Then(<<>>) \/ Then(<<"CheckState">>)
          /\ UNCHANGED <<state, scheduled, channel, cutOff>>
      BY <2>3 DEF NothingDue, DueLater, Disables, Refuses, Dispatches, master, counts
    <3>2. QED
      BY <2>2, <3>1, HandlerKept, OwnsKept DEF Owns, Plain
  <2>4. CASE Begins(t)
    <3>1. /\ state = "Idle" /\ state' = "Waiting" /\ scheduled' = t /\ cutOff' = cutOff
          /\ SendRequest(t)
      BY <2>4 DEF Begins, Starts, Dispatches, counts
    <3>2. CASE cutOff
      <4>1. HandlerLast'
        <5>1. CASE Then(<<>>)
          BY <2>2, <5>1, HandlerKept DEF Owns
        <5>2. CASE Throw
          BY <5>2 DEF Throw, HandlerLast
        <5>3. QED
          BY <3>1, <5>1, <5>2 DEF SendRequest
      <4>2. QED
        BY <3>1, <3>2, <4>1 DEF Owns, OwnAnswers
    <3>3. CASE ~cutOff
      <4>1. channel = None /\ channel' = t /\ Then(<<>>)
        BY <3>1, <3>3 DEF Owns, OwnAnswers, SendRequest
      <4>2. HandlerLast' /\ (HandlerDue' => HandlerDue) /\ (response' = response \/ response' = None)
        BY <2>2, <4>1, HandlerKept DEF Owns
      <4>3. ~(HandlerDue /\ response \in {"partial", "final"})
        BY <3>1, <3>3 DEF Owns
      <4>4. QED
        BY <3>1, <4>1, <4>2, <4>3 DEF Owns, OwnAnswers, None
    <3>4. QED
      BY <3>2, <3>3 DEF Plain
  <2>5. QED
    BY <2>1, <2>3, <2>4
<1>2. CASE ProcessIIN
  <2>1. /\ todo # <<>> /\ Head(todo) = "ProcessIIN"
        /\ Then(<<>>) \/ Then(<<"CheckState">>)
        /\ UNCHANGED <<state, scheduled, channel, cutOff>>
    BY <1>2 DEF ProcessIIN, Proceed, master, counts
  <2>2. QED
    BY <2>1, HandlerKept, OwnsKept DEF Owns, Plain
<1>3. CASE OnResponse
  <2>1. /\ todo # <<>> /\ Head(todo) = "OnResponse" /\ cutOff' = cutOff
        /\ HandlerDue
    <3>1. todo # <<>> /\ Head(todo) = "OnResponse" /\ cutOff' = cutOff
      BY <1>3 DEF OnResponse, UnsolicitedData, NotWaiting, PollThrows, PartialResponse, FinalResponse,
         TimeResponse, CommandResponse, InOnResponse, Proceed, counts
    <3>2. todo \in Seq(Steps)
      BY DEF Calls
    <3>3. 1 \in 1..Len(todo) /\ todo[1] = "OnResponse"
      BY <3>1, <3>2
    <3>4. QED
      BY <3>1, <3>3 DEF HandlerDue
  <2>2. CASE UnsolicitedData \/ NotWaiting \/ PollThrows
    <3>1. (Then(<<>>) \/ Throw) /\ UNCHANGED <<state, scheduled, channel>>
      BY <2>2 DEF UnsolicitedData, NotWaiting, PollThrows
    <3>2. QED
      BY <2>1, <3>1, HandlerEnds DEF Owns, OwnAnswers
  <2>3. CASE PartialResponse
    <3>1. state = "Waiting" /\ response = "partial"
      BY <2>3 DEF PartialResponse, InOnResponse
    <3>2. CASE cutOff
      <4>1. Then(<<>>) \/ Then(<<"CheckState">>)
        BY <2>3 DEF PartialResponse, Finish
      <4>2. QED
        BY <2>1, <3>2, <4>1, HandlerEnds DEF Owns, OwnAnswers
    <3>3. CASE ~cutOff
      <4>1. scheduled \notin SingleFragment
        BY <2>1, <3>1, <3>3 DEF Owns
      <4>2. Then(<<>>) /\ UNCHANGED <<state, scheduled, channel>>
        BY <2>3, <4>1 DEF PartialResponse
      <4>3. QED
        BY <2>1, <4>2, HandlerEnds DEF Owns, OwnAnswers
    <3>4. QED
      BY <3>2, <3>3 DEF Plain
  <2>4. CASE FinalResponse \/ TimeResponse \/ CommandResponse
    <3>1. /\ state = "Waiting" /\ response = "final"
          /\ SecondRequest \/ Finish(TRUE) \/ Finish(FALSE)
      BY <2>4 DEF FinalResponse, TimeResponse, CommandResponse, InOnResponse
    <3>2. Then(<<>>) \/ Then(<<"CheckState">>) \/ Throw
      BY <3>1 DEF SecondRequest, SendRequest, Finish
    <3>3. HandlerLast' /\ ~HandlerDue'
      BY <2>1, <3>2, HandlerEnds DEF Owns
    <3>4. ASSUME ~cutOff PROVE OwnAnswers'
      <4>1. channel = None
        BY <2>1, <3>1, <3>4 DEF Owns
      <4>2. CASE SecondRequest
        <5>1. channel' = scheduled /\ UNCHANGED <<state, scheduled>>
          BY <4>1, <4>2 DEF SecondRequest, SendRequest
        <5>2. QED
          BY <3>1, <5>1 DEF OwnAnswers
      <4>3. CASE Finish(TRUE) \/ Finish(FALSE)
        BY <4>1, <4>3 DEF Finish, OwnAnswers
      <4>4. QED
        BY <3>1, <4>2, <4>3
    <3>5. QED
      BY <2>1, <3>3, <3>4 DEF Owns, OwnAnswers
  <2>5. QED
    BY <1>3, <2>2, <2>3, <2>4 DEF OnResponse
<1>4. CASE Users
  BY <1>4, OwnsKept DEF Users, WriteVto, AcceptCommand, master, Plain, Owns, HandlerLast, HandlerDue
<1>5. CASE (\E t \in {"command", "vto"} : Notified(t)) \/ Tick \/ OnTimerExpiration
  <2>1. /\ todo' = todo \/ todo' = <<"CheckState">>
        /\ UNCHANGED <<state, scheduled, channel, cutOff, response>>
    BY <1>5 DEF Notified, Tick, OnTimerExpiration, Begin, master, counts
  <2>2. HandlerLast' /\ (HandlerDue' => HandlerDue)
    BY <2>1 DEF HandlerLast, HandlerDue, Owns
  <2>3. QED
    BY <2>1, <2>2, OwnsKept DEF Plain
<1>6. CASE OnLowerLayerUp \/ OnLowerLayerDown \/ OnSolFailure
  <2>1. /\ todo' = <<"CheckState">> \/ todo' = <<>>
        /\ channel' = None \/ (state = "Closed" /\ channel' = channel)
    BY <1>6 DEF OnLowerLayerUp, OnLowerLayerDown, OnSolFailure, Begin
  <2>2. channel' = None
    BY <2>1 DEF Calls
  <2>3. HandlerLast' /\ ~HandlerDue'
    BY <2>1 DEF HandlerLast, HandlerDue
  <2>4. QED
    BY <2>2, <2>3 DEF Owns, OwnAnswers
<1>7. CASE OnUnsolResponse \/ OnPartialResponse \/ OnFinalResponse
  <2>1. /\ HandlerLast'
        /\ UNCHANGED <<state, scheduled>>
        /\ cutOff => cutOff' /\ cutOff' \in BOOLEAN
    <3>1. todo' \in {<<"ProcessIIN", "OnResponse">>, <<"CheckState", "ProcessIIN", "OnResponse">>}
      BY <1>7 DEF OnUnsolResponse, OnPartialResponse, OnFinalResponse, Receive, Begin
    <3>2. HandlerLast'
      <4>1. CASE todo' = <<"ProcessIIN", "OnResponse">>
        <5>1. Len(todo') = 2 /\ todo'[1] = "ProcessIIN"
          BY <4>1
        <5>2. QED
          BY <5>1 DEF HandlerLast
      <4>2. CASE todo' = <<"CheckState", "ProcessIIN", "OnResponse">>
        <5>1. Len(todo') = 3 /\ todo'[1] = "CheckState" /\ todo'[2] = "ProcessIIN"
          BY <4>2
        <5>2. QED
          BY <5>1 DEF HandlerLast
      <4>3. QED
        BY <3>1, <4>1, <4>2
    <3>3. QED
      BY <1>7, <3>2 DEF OnUnsolResponse, OnPartialResponse, OnFinalResponse, Receive, master, Plain
  <2>2. CASE OnUnsolResponse
    <3>1. response' = "unsolicited" /\ channel' = channel
      BY <2>2 DEF OnUnsolResponse, Receive
    <3>2. QED
      BY <2>1, <3>1 DEF Owns, OwnAnswers, Plain
  <2>3. CASE OnPartialResponse
    <3>1. /\ response' = "partial" /\ channel' = channel /\ channel # None
          /\ cutOff' = (cutOff \/ (state = "Waiting" /\ scheduled \in SingleFragment))
      BY <2>3 DEF OnPartialResponse, Receive
    <3>2. QED
      BY <2>1, <3>1 DEF Owns, OwnAnswers, Plain
  <2>4. CASE OnFinalResponse
    <3>1. response' = "final" /\ channel' = None /\ channel # None
      BY <2>4 DEF OnFinalResponse, Receive
    <3>2. QED
      BY <2>1, <3>1 DEF Owns, OwnAnswers, Plain
  <2>5. QED
    BY <1>7, <2>2, <2>3, <2>4
<1>8. QED
  BY <1>1, <1>2, <1>3, <1>4, <1>5, <1>6, <1>7 DEF Next, Callbacks

---------------------------------------------------------------------------
(* What a master waits for *)

\* A call that has not come to the handler of the response comes to it later.
LEMMA HandlerStays ==
  ASSUME Calls, todo # <<>>, Head(todo) # "OnResponse", Then(<<>>) \/ Then(<<"CheckState">>),
         HandlerDue
  PROVE  HandlerDue' /\ response' = response
<1> DEFINE n == Len(todo)
<1>1. todo \in Seq(Steps) /\ n \in Nat \ {0}
  BY DEF Calls
<1>2. PICK i \in 1..n : todo[i] = "OnResponse"
  BY DEF HandlerDue
<1>3. i \in 2..n
  BY <1>1, <1>2
<1>4. HandlerDue' /\ todo' # <<>>
  <2>1. CASE Then(<<>>)
    <3>1. todo' = Tail(todo)
      BY <1>1, <2>1 DEF Then
    <3>2. Len(todo') = n - 1 /\ \A k \in 1..n - 1 : todo'[k] = todo[k + 1]
      BY <1>1, <3>1
    <3>3. i - 1 \in 1..Len(todo') /\ todo'[i - 1] = "OnResponse"
      BY <1>1, <1>2, <1>3, <3>2
    <3>4. QED
      BY <3>3 DEF HandlerDue
  <2>2. CASE Then(<<"CheckState">>)
    <3>1. todo' = <<"CheckState">> \o Tail(todo)
      BY <2>2 DEF Then
    <3>2. Len(todo') = n /\ \A k \in 1..n : todo'[k] = IF k = 1 THEN "CheckState" ELSE todo[k]
      BY <1>1, <3>1
    <3>3. i \in 1..Len(todo') /\ todo'[i] = "OnResponse"
      BY <1>2, <1>3, <3>2
    <3>4. QED
      BY <3>3 DEF HandlerDue
  <2>3. QED
    BY <2>1, <2>2
<1>5. QED
  BY <1>4 DEF Then

LEMMA NoHandlerDue ==
  ASSUME todo = <<>>
  PROVE  ~HandlerDue
BY DEF HandlerDue

LEMMA AwaitsHold ==
  ASSUME Calls, Masters, Awaits, Next
  PROVE  Awaits'
<1> USE TasksAre
<1>1. CASE CheckState
  <2>1. PICK t \in Tasks :
          NothingDue(t) \/ DueLater(t) \/ Begins(t) \/ Disables(t) \/ Refuses(t)
    BY <1>1, CheckStateDoes
  <2>2. todo # <<>> /\ Head(todo) # "OnResponse"
    BY <1>1 DEF CheckState, Proceed
  <2>3. CASE NothingDue(t) \/ DueLater(t) \/ Disables(t) \/ Refuses(t)
    <3>1. /\ Then(<<>>) \/ Then(<<"CheckState">>)
          /\ UNCHANGED <<state, scheduled, channel>>
      BY <2>3 DEF NothingDue, DueLater, Disables, Refuses, master
    <3>2. QED
      BY <2>2, <3>1, HandlerStays DEF Awaits
  <2>4. CASE Begins(t)
    BY <2>4 DEF Begins, Starts, SendRequest, Awaits, None
  <2>5. QED
    BY <2>1, <2>3, <2>4
<1>2. CASE ProcessIIN
  <2>1. /\ todo # <<>> /\ Head(todo) # "OnResponse"
        /\ Then(<<>>) \/ Then(<<"CheckState">>)
        /\ UNCHANGED <<state, scheduled, channel>>
    BY <1>2 DEF ProcessIIN, Proceed, master
  <2>2. QED
    BY <2>1, HandlerStays DEF Awaits
<1>3. CASE OnResponse
  <2>1. CASE UnsolicitedData \/ NotWaiting \/ PollThrows
    BY <2>1 DEF UnsolicitedData, NotWaiting, PollThrows, InOnResponse, Awaits
  <2>2. CASE PartialResponse
    BY <2>2 DEF PartialResponse, Finish, InOnResponse, Awaits
  <2>3. CASE FinalResponse \/ TimeResponse \/ CommandResponse
    <3>1. state = "Waiting" /\ (SecondRequest \/ Finish(TRUE) \/ Finish(FALSE))
      BY <2>3 DEF FinalResponse, TimeResponse, CommandResponse
    <3>2. CASE SecondRequest
      <4>1. channel' # None
        BY <3>1, <3>2 DEF SecondRequest, SendRequest, Masters
      <4>2. QED
        BY <4>1 DEF Awaits
    <3>3. CASE Finish(TRUE) \/ Finish(FALSE)
      BY <3>3 DEF Finish, Awaits
    <3>4. QED
      BY <3>1, <3>2, <3>3
  <2>4. QED
    BY <1>3, <2>1, <2>2, <2>3 DEF OnResponse
<1>4. CASE Users
  BY <1>4 DEF Users, WriteVto, AcceptCommand, master, Awaits, HandlerDue
<1>5. CASE Tick
  BY <1>5 DEF Tick, master, Awaits, HandlerDue
<1>6. CASE (\E t \in {"command", "vto"} : Notified(t)) \/ OnTimerExpiration
  BY <1>6, NoHandlerDue DEF Notified, OnTimerExpiration, Begin, master, Awaits
<1>7. CASE OnLowerLayerUp \/ OnLowerLayerDown \/ OnSolFailure
  <2>1. state' # "Waiting"
    BY <1>7 DEF OnLowerLayerUp, OnLowerLayerDown, OnSolFailure, OnFailure
  <2>2. QED
    BY <2>1 DEF Awaits
<1>8. CASE OnUnsolResponse \/ OnPartialResponse
  <2>1. todo = <<>> /\ UNCHANGED <<state, scheduled, channel>>
    BY <1>8 DEF OnUnsolResponse, OnPartialResponse, Receive, Begin, master
  <2>2. QED
    BY <2>1, NoHandlerDue DEF Awaits
<1>9. CASE OnFinalResponse
  <2>1. /\ response' = "final"
        /\ todo' \in {<<"ProcessIIN", "OnResponse">>, <<"CheckState", "ProcessIIN", "OnResponse">>}
    BY <1>9 DEF OnFinalResponse, Receive, Begin
  <2>2. HandlerDue'
    <3>1. CASE todo' = <<"ProcessIIN", "OnResponse">>
      <4>1. Len(todo') = 2 /\ todo'[2] = "OnResponse"
        BY <3>1
      <4>2. QED
        BY <4>1 DEF HandlerDue
    <3>2. CASE todo' = <<"CheckState", "ProcessIIN", "OnResponse">>
      <4>1. Len(todo') = 3 /\ todo'[3] = "OnResponse"
        BY <3>2
      <4>2. QED
        BY <4>1 DEF HandlerDue
    <3>3. QED
      BY <2>1, <3>1, <3>2
  <2>3. QED
    BY <2>1, <2>2 DEF Awaits
<1>10. QED
  BY <1>1, <1>2, <1>3, <1>4, <1>5, <1>6, <1>7, <1>8, <1>9 DEF Next, Callbacks

---------------------------------------------------------------------------
(* The startup sequence *)

LEMMA StartUpIs ==
  /\ StartUp \subseteq Tasks /\ Sequenced \subseteq Tasks /\ Sequenced \subseteq OnlineOnly
  /\ "integrity" \in StartUp /\ "scan" \in Sequenced
  /\ Sequenced \cap Continuous = {} /\ StartUp \subseteq Sequenced
  /\ {"disable", "enable"} \cap Tasks \subseteq StartUp
BY TasksAre DEF StartUp, Sequenced, OnlineOnly, Continuous

\* Nothing is changed of the tasks of the sequence.
LEMMA StartsUpKept ==
  ASSUME Groups, StartsUp, UNCHANGED <<complete, running, nextRun, done>>,
         state' = "Closed" <=> state = "Closed",
         \A t \in Sequenced : enabled'[t] = enabled[t]
  PROVE  StartsUp'
BY DEF StartsUp

LEMMA StartsUpAtEnd ==
  ASSUME Groups, Masters, OneTaskAtATime, StartsUp, state = "Waiting", NEW success \in BOOLEAN,
         OnComplete(scheduled, success), state' = "Idle"
  PROVE  StartsUp'
<1>1. /\ scheduled \in Tasks /\ running[scheduled]
      /\ running' = [running EXCEPT ![scheduled] = FALSE]
      /\ enabled' = enabled
      /\ complete' = [complete EXCEPT ![scheduled] = (success /\ scheduled \notin Continuous) \/ @]
      /\ done' = IF success /\ scheduled \in StartUp THEN done \cup {scheduled} ELSE done
  BY DEF Masters, OneTaskAtATime, OnComplete
<1>2. /\ \A t \in Tasks : t # scheduled => nextRun'[t] = nextRun[t]
      /\ scheduled \in {"disable", "enable"} /\ success => nextRun'[scheduled] = Never
  <2>1. scheduled \in {"disable", "enable"} => scheduled \notin Continuous
    BY DEF Continuous
  <2>2. QED
    BY <1>1, <2>1 DEF Groups, OnComplete
<1>3. ASSUME NEW t \in StartUp, complete'[t]
      PROVE  /\ t \in done' /\ state' # "Closed" /\ ~running'[t]
             /\ t \in {"disable", "enable"} => nextRun'[t] = Never
  <2>1. t \in Tasks
    BY StartUpIs
  <2>2. CASE t # scheduled
    <3>1. complete[t] /\ running'[t] = running[t]
      BY <1>1, <1>3, <2>1, <2>2 DEF Groups
    <3>2. QED
      BY <1>1, <1>2, <2>1, <2>2, <3>1 DEF StartsUp
  <2>3. CASE t = scheduled
    <3>1. ~complete[t]
      BY <1>1, <2>3 DEF StartsUp
    <3>2. success
      BY <1>1, <1>3, <2>1, <2>3, <3>1 DEF Groups
    <3>3. ~running'[t]
      BY <1>1, <2>1, <2>3 DEF Groups
    <3>4. QED
      BY <1>1, <1>2, <2>3, <3>2, <3>3
  <2>4. QED
    BY <2>2, <2>3
<1>4. QED
  BY <1>1, <1>3, StartUpIs DEF StartsUp

LEMMA StartsUpHold ==
  ASSUME Calls, Masters, Groups, OneTaskAtATime, StartsUp, Next
  PROVE  StartsUp'
<1>1. CASE CheckState
  <2>1. PICK t \in Tasks : \/ NothingDue(t) \/ DueLater(t) \/ Begins(t) \/ Refuses(t)
                           \/ Disables(t) /\ t \in Continuous
    BY <1>1, CheckStateDoes
  <2>2. CASE NothingDue(t) \/ DueLater(t)
    BY <2>2, StartsUpKept DEF NothingDue, DueLater, master, taskVars, history
  <2>3. CASE Begins(t)
    <3>1. /\ state = "Idle" /\ state' = "Waiting" /\ UNCHANGED <<enabled, nextRun, done>>
          /\ running' = [running EXCEPT ![t] = TRUE] /\ complete' = [complete EXCEPT ![t] = FALSE]
      BY <2>3 DEF Begins, Starts, Dispatches
    <3>2. \A u \in Tasks : complete'[u] => complete[u] /\ (running'[u] = running[u])
      BY <3>1 DEF Groups
    <3>3. QED
      BY <3>1, <3>2, StartUpIs DEF StartsUp
  <2>4. CASE Disables(t) /\ t \in Continuous
    <3>2. /\ UNCHANGED <<state, done>>
          /\ \A u \in Tasks : u # t => /\ complete'[u] = complete[u] /\ running'[u] = running[u]
                                       /\ nextRun'[u] = nextRun[u] /\ enabled'[u] = enabled[u]
      BY <2>4 DEF Disables, SilentDisable, Reset, Dispatches, master, Groups
    <3>3. QED
      BY <2>4, <3>2, StartUpIs DEF StartsUp
  <2>5. CASE Refuses(t)
    <3>1. /\ t = "command" /\ UNCHANGED <<state, enabled, nextRun, done>>
          /\ running' = [running EXCEPT ![t] = TRUE] /\ complete' = [complete EXCEPT ![t] = FALSE]
      BY <2>5 DEF Refuses, Dispatches, master
    <3>2. \A u \in Tasks : complete'[u] => complete[u] /\ (running'[u] = running[u])
      BY <3>1 DEF Groups
    <3>3. QED
      BY <3>1, <3>2, StartUpIs DEF StartsUp
  <2>6. QED
    BY <2>1, <2>2, <2>3, <2>4, <2>5
<1>2. CASE ProcessIIN
  <2> DEFINE S == IF iinRestart THEN {t \in StartUp : ~running[t]} ELSE {}
             E == (IF iinTime THEN {"time"} ELSE {}) \cup (IF iinRestart THEN {"clear"} ELSE {})
  <2>1. UNCHANGED state /\ SilentEnable(E) /\ Reset(S) /\ done' = done \ S
    BY <1>2, Zenon DEF ProcessIIN, master
  <2>2. E \subseteq Continuous
    BY DEF Continuous
  <2> HIDE DEF S, E
  <2>3. \A u \in Tasks : /\ complete'[u] => complete[u] /\ u \notin S
                         /\ running'[u] => running[u]
                         /\ u \notin S => nextRun'[u] = nextRun[u]
                         /\ u \notin E => enabled'[u] = enabled[u]
    BY <2>1 DEF Reset, SilentEnable, Groups
  <2>4. QED
    BY <2>1, <2>2, <2>3, StartUpIs DEF StartsUp
<1>3. CASE OnResponse
  <2>1. \/ UNCHANGED <<state, taskVars, done>>
        \/ state = "Waiting" /\ (Finish(TRUE) \/ Finish(FALSE))
    BY <1>3 DEF OnResponse, UnsolicitedData, NotWaiting, PollThrows, PartialResponse, FinalResponse,
       TimeResponse, CommandResponse, SecondRequest, history
  <2>2. CASE UNCHANGED <<state, taskVars, done>>
    BY <2>2, StartsUpKept DEF taskVars
  <2>3. CASE state = "Waiting" /\ (Finish(TRUE) \/ Finish(FALSE))
    BY <2>3, StartsUpAtEnd DEF Finish
  <2>4. QED
    BY <2>1, <2>2, <2>3
<1>4. CASE Users
  BY <1>4, StartsUpKept DEF Users, WriteVto, AcceptCommand, master, taskVars, history
<1>5. CASE \E t \in {"command", "vto"} : Notified(t)
  <2>1. PICK t \in {"command", "vto"} : Notified(t)
    BY <1>5
  <2>2. UNCHANGED <<state, complete, running, nextRun, done>> /\ SilentEnable({t}) /\ t \in Continuous
    BY <2>1 DEF Notified, master, history, Continuous
  <2>3. \A u \in Sequenced : enabled'[u] = enabled[u]
    BY <2>2, StartUpIs DEF SilentEnable, Groups
  <2>4. QED
    BY <2>2, <2>3, StartsUpKept
<1>6. CASE Tick
  <2>1. /\ UNCHANGED <<state, complete, running, enabled, done>>
        /\ nextRun' = [t \in Tasks |-> IF nextRun[t] \in 1..Horizon THEN nextRun[t] - 1 ELSE nextRun[t]]
    BY <1>6 DEF Tick, master, history
  <2>2. \A t \in Tasks : nextRun[t] = Never => nextRun'[t] = Never
    <3>1. Never \notin 1..Horizon
      BY Rates
    <3>2. QED
      BY <2>1, <3>1
  <2>3. QED
    BY <2>1, <2>2, StartUpIs DEF StartsUp
<1>7. CASE OnTimerExpiration
  BY <1>7, StartsUpKept DEF OnTimerExpiration, master, taskVars, history
<1>8. CASE OnLowerLayerUp
  <2>1. /\ state = "Closed" /\ state' = "Idle" /\ SilentEnable(OnlineOnly)
        /\ UNCHANGED <<complete, running, nextRun>>
    BY <1>8 DEF OnLowerLayerUp
  <2>2. \A t \in Sequenced : enabled'[t]
    BY <2>1, StartUpIs DEF SilentEnable, OnlineOnly
  <2>3. QED
    BY <2>1, <2>2, StartUpIs DEF StartsUp
<1>9. CASE OnLowerLayerDown
  <2>1. state' = "Closed" /\ SilentDisable(OnlineOnly)
    BY <1>9 DEF OnLowerLayerDown
  <2>2. \A t \in Sequenced : ~enabled'[t] /\ ~complete'[t]
    BY <2>1, StartUpIs DEF SilentDisable, Reset
  <2>3. QED
    BY <2>1, <2>2, StartUpIs DEF StartsUp
<1>10. CASE OnSolFailure
  <2>1. CASE state = "Waiting"
    <3>1. OnComplete(scheduled, FALSE) /\ state' = "Idle"
      BY <1>10, <2>1 DEF OnSolFailure, OnFailure
    <3>2. QED
      BY <2>1, <3>1, StartsUpAtEnd
  <2>2. CASE state # "Waiting"
    BY <1>10, <2>2, StartsUpKept DEF OnSolFailure, taskVars
  <2>3. QED
    BY <2>1, <2>2
<1>11. CASE OnUnsolResponse \/ OnPartialResponse \/ OnFinalResponse
  <2>1. /\ UNCHANGED <<state, complete, running, nextRun, done>>
        /\ UNCHANGED enabled \/ SilentEnable({"vto"})
    BY <1>11 DEF OnUnsolResponse, OnPartialResponse, OnFinalResponse, Receive, master, history
  <2>2. \A u \in Sequenced : enabled'[u] = enabled[u]
    BY <2>1, StartUpIs DEF SilentEnable, Groups, Continuous
  <2>3. QED
    BY <2>1, <2>2, StartsUpKept
<1>12. QED
  BY <1>1, <1>2, <1>3, <1>4, <1>5, <1>6, <1>7, <1>8, <1>9, <1>10, <1>11 DEF Next, Callbacks

---------------------------------------------------------------------------
(* The order of the startup sequence *)

\* The best task of the first i, and the recursion it satisfies.
Best(f) ==
  f = [i \in DOMAIN TaskVec |->
         IF i = 1 THEN TaskVec[1]
         ELSE CHOOSE t \in {Greater(b, TaskVec[i]) : b \in {f[i - 1]}} : TRUE]

LEMMA TaskVecIs ==
  /\ DOMAIN TaskVec = 1..Len(TaskVec)
  /\ \/ /\ DoUnsol /\ Len(TaskVec) = 8
        /\ TaskVec[1] = "integrity" /\ TaskVec[2] = "disable" /\ TaskVec[3] = "enable"
        /\ TaskVec[4] = "scan" /\ TaskVec[5] = "command" /\ TaskVec[6] = "time"
        /\ TaskVec[7] = "clear" /\ TaskVec[8] = "vto"
     \/ /\ ~DoUnsol /\ Len(TaskVec) = 6
        /\ TaskVec[1] = "integrity" /\ TaskVec[2] = "scan" /\ TaskVec[3] = "command"
        /\ TaskVec[4] = "time" /\ TaskVec[5] = "clear" /\ TaskVec[6] = "vto"
<1>1. CASE DoUnsol
  <2>1. TaskVec = <<"integrity", "disable", "enable", "scan", "command", "time", "clear", "vto">>
    BY <1>1 DEF TaskVec
  <2>2. QED
    BY <1>1, <2>1
<1>2. CASE ~DoUnsol
  <2>1. TaskVec = <<"integrity", "scan", "command", "time", "clear", "vto">>
    BY <1>2 DEF TaskVec
  <2>2. QED
    BY <1>2, <2>1
<1>3. QED
  BY <1>1, <1>2

\* The loop of max_element has a result.
LEMMA BestIs ==
  \E f : /\ f[1] = TaskVec[1]
         /\ \A i \in 2..Len(TaskVec) : f[i] = Greater(f[i - 1], TaskVec[i])
         /\ MaxElement = f[Len(TaskVec)]
<1> DEFINE n == Len(TaskVec)
           b1 == TaskVec[1]
           b2 == Greater(b1, TaskVec[2])
           b3 == Greater(b2, TaskVec[3])
           b4 == Greater(b3, TaskVec[4])
           b5 == Greater(b4, TaskVec[5])
           b6 == Greater(b5, TaskVec[6])
           b7 == Greater(b6, TaskVec[7])
           b8 == Greater(b7, TaskVec[8])
           value(i) == CASE i = 1 -> b1 [] i = 2 -> b2 [] i = 3 -> b3 [] i = 4 -> b4
                         [] i = 5 -> b5 [] i = 6 -> b6 [] i = 7 -> b7 [] i = 8 -> b8
           g == [i \in DOMAIN TaskVec |-> value(i)]
           best == CHOOSE f : Best(f)
<1>1. DOMAIN TaskVec = 1..n /\ n \in {6, 8}
  BY TaskVecIs
<1>2. \A f, i : (CHOOSE t \in {Greater(b, TaskVec[i]) : b \in {f[i - 1]}} : TRUE)
                  = Greater(f[i - 1], TaskVec[i])
  <2>1. ASSUME NEW f, NEW i
        PROVE  (CHOOSE t \in {Greater(b, TaskVec[i]) : b \in {f[i - 1]}} : TRUE)
                 = Greater(f[i - 1], TaskVec[i])
    <3>1. {Greater(b, TaskVec[i]) : b \in {f[i - 1]}} = {Greater(f[i - 1], TaskVec[i])}
      OBVIOUS
    <3>2. QED
      BY <3>1
  <2>2. QED
    BY <2>1
<1>3. \A i \in 1..n : i # 1 => g[i] = Greater(g[i - 1], TaskVec[i])
  <2> HIDE DEF n
  <2>1. \A i \in 1..n : i \in 1..8
    BY <1>1
  <2>2. \A i \in 1..n : i # 1 => i - 1 \in 1..n
    BY <1>1
  <2>3. ASSUME NEW i \in 1..n, i # 1
        PROVE  g[i] = Greater(g[i - 1], TaskVec[i])
    <3>1. i \in {2, 3, 4, 5, 6, 7, 8}
      BY <2>1, <2>3
    <3> HIDE DEF b1, b2, b3, b4, b5, b6, b7, b8
    <3>2. /\ i = 2 => g[i] = b2 /\ g[i - 1] = b1
          /\ i = 3 => g[i] = b3 /\ g[i - 1] = b2
          /\ i = 4 => g[i] = b4 /\ g[i - 1] = b3
          /\ i = 5 => g[i] = b5 /\ g[i - 1] = b4
          /\ i = 6 => g[i] = b6 /\ g[i - 1] = b5
          /\ i = 7 => g[i] = b7 /\ g[i - 1] = b6
          /\ i = 8 => g[i] = b8 /\ g[i - 1] = b7
      BY <1>1, <2>2, <2>3
    <3> HIDE DEF g
    <3>3. QED
      BY <3>1, <3>2 DEF b2, b3, b4, b5, b6, b7, b8
  <2>4. QED
    BY <2>3
<1>4. Best(g)
  <2>1. \A i \in DOMAIN TaskVec : g[i] = IF i = 1 THEN TaskVec[1] ELSE Greater(g[i - 1], TaskVec[i])
    <3>1. 1 \in DOMAIN TaskVec => g[1] = TaskVec[1]
      BY DEF b1
    <3> HIDE DEF g, n
    <3>2. QED
      BY <1>1, <1>3, <3>1
  <2>2. g = [i \in DOMAIN TaskVec |-> g[i]]
    <3> HIDE DEF value
    <3>1. QED
      OBVIOUS
  <2> HIDE DEF g
  <2>3. g = [i \in DOMAIN TaskVec |-> IF i = 1 THEN TaskVec[1] ELSE Greater(g[i - 1], TaskVec[i])]
    BY <2>1, <2>2
  <2>4. QED
    BY <1>2, <2>3 DEF Best
<1> HIDE DEF g
<1>5. Best(best)
  BY <1>4
<1>6. MaxElement = best[n]
  BY DEF MaxElement, Best
<1> HIDE DEF best
<1>7. best[1] = TaskVec[1] /\ \A i \in 2..n : best[i] = Greater(best[i - 1], TaskVec[i])
  <2> HIDE DEF n
  <2>1. \A i \in DOMAIN TaskVec : best[i] = IF i = 1 THEN TaskVec[1] ELSE
          CHOOSE t \in {Greater(b, TaskVec[i]) : b \in {best[i - 1]}} : TRUE
    BY <1>5 DEF Best
  <2>2. \A i \in DOMAIN TaskVec : best[i] = IF i = 1 THEN TaskVec[1] ELSE Greater(best[i - 1], TaskVec[i])
    BY <1>2, <2>1
  <2>3. 1 \in DOMAIN TaskVec /\ \A i \in 2..n : i \in DOMAIN TaskVec /\ i # 1
    BY <1>1
  <2>4. QED
    BY <2>2, <2>3
<1>8. QED
  BY <1>6, <1>7

LEMMA GreaterIs ==
  ASSUME NEW l, NEW r
  PROVE  /\ Greater(l, r) \in {l, r}
         /\ l # r /\ Greater(l, r) = l => ~LessThanGroupLevel(l, r)
         /\ l # r /\ Greater(l, r) = r => LessThanGroupLevel(l, r)
BY DEF Greater

\* Where what is compared is not running, the dependencies decide first.
LEMMA DependencyDecides ==
  ASSUME Groups, NEW l \in Tasks, NEW r \in Tasks
  PROVE  /\ ~running[l] /\ IsDependency(l, r) /\ ~LessThanGroupLevel(l, r) => complete[r]
         /\ /\ ~running[r] /\ IsDependency(r, l) /\ LessThanGroupLevel(l, r)
            /\ ~(IsDependency(l, r) /\ ~IsComplete(r))
            => complete[l] /\ ~Expired(l)
BY DEF LessThanGroupLevel, LessThan, IsComplete, Groups

LEMMA DependenciesAre ==
  /\ IsDependency("scan", "integrity") /\ ~IsDependency("integrity", "scan")
  /\ "disable" \in Tasks => IsDependency("integrity", "disable") /\ ~IsDependency("disable", "integrity")
  /\ "enable" \in Tasks => IsDependency("enable", "integrity") /\ ~IsDependency("integrity", "enable")
  /\ {"disable", "enable"} \subseteq Tasks =>
       IsDependency("enable", "disable") /\ ~IsDependency("disable", "enable")
  /\ "disable" \in Tasks => IsDependency("scan", "disable") /\ ~IsDependency("disable", "scan")
  /\ "enable" \in Tasks => ~IsDependency("scan", "enable") /\ ~IsDependency("enable", "scan")
<1>1. /\ {"integrity", "scan"} \subseteq Tasks
      /\ Dependency["integrity"] = {"disable"} /\ Dependency["scan"] = {"integrity"}
      /\ "disable" \in Tasks => Dependency["disable"] = {}
      /\ "enable" \in Tasks => Dependency["enable"] = {"integrity"}
  BY TasksAre DEF Dependency
<1>2. QED
  BY <1>1 DEF IsDependency

\* Once unsolicited mode was disabled, the disabling comes before the integrity poll no more.
LEMMA DisabledIsNotGreater ==
  ASSUME Groups, StartsUp, "disable" \in Tasks, complete["disable"], ~running["disable"]
  PROVE  ~LessThanGroupLevel("integrity", "disable")
<1>1. nextRun["disable"] = Never /\ ~Expired("disable") /\ IsComplete("disable")
  BY Rates DEF StartsUp, Expired, IsComplete
<1>2. enabled["integrity"] = enabled["disable"]
  <2>1. "integrity" \in Sequenced /\ "disable" \in Sequenced
    BY StartUpIs
  <2>2. {"integrity", "disable"} \subseteq Tasks
    BY TasksAre
  <2>3. QED
    BY <2>1, <2>2 DEF StartsUp, Groups
<1>3. ~(nextRun["integrity"] > nextRun["disable"])
  <2>1. nextRun["integrity"] \in 0..Never
    BY TasksAre DEF Groups
  <2>2. QED
    BY <1>1, <2>1, Rates
<1>4. ~LessThan("integrity", "disable")
  BY <1>1, <1>2, <1>3, DependenciesAre DEF LessThan
<1>5. QED
  BY <1>4 DEF LessThanGroupLevel

\* What is taken of the startup sequence has what it depends on behind it.
LEMMA TakenInOrder ==
  ASSUME Groups, StartsUp, NEW t \in Tasks, t = MaxElement, ~running[t]
  PROVE  /\ t = "integrity" /\ "disable" \in Tasks => complete["disable"]
         /\ t \in {"scan", "enable"} => complete["integrity"]
<1>1. PICK f : /\ f[1] = TaskVec[1]
               /\ \A i \in 2..Len(TaskVec) : f[i] = Greater(f[i - 1], TaskVec[i])
               /\ MaxElement = f[Len(TaskVec)]
  BY BestIs
<1>2. CASE DoUnsol
  <2>1. /\ f[1] = "integrity" /\ f[2] = Greater(f[1], "disable") /\ f[3] = Greater(f[2], "enable")
        /\ f[4] = Greater(f[3], "scan") /\ f[5] = Greater(f[4], "command")
        /\ f[6] = Greater(f[5], "time") /\ f[7] = Greater(f[6], "clear") /\ f[8] = Greater(f[7], "vto")
        /\ MaxElement = f[8]
    <3>1. /\ Len(TaskVec) = 8
          /\ TaskVec[1] = "integrity" /\ TaskVec[2] = "disable" /\ TaskVec[3] = "enable"
          /\ TaskVec[4] = "scan" /\ TaskVec[5] = "command" /\ TaskVec[6] = "time"
          /\ TaskVec[7] = "clear" /\ TaskVec[8] = "vto"
      BY <1>2, TaskVecIs
    <3>2. QED
      BY <1>1, <3>1
  <2>2. {"integrity", "disable", "enable", "scan"} \subseteq Tasks
    <3>1. TaskVec = <<"integrity", "disable", "enable", "scan", "command", "time", "clear", "vto">>
      BY <1>2 DEF TaskVec
    <3>2. QED
      BY <3>1 DEF Tasks
  <2>3. f[8] \in {"integrity", "enable", "scan"} => f[4] = f[8]
    BY <2>1, GreaterIs
  <2>4. f[2] \in {"integrity", "disable"} /\ f[3] \in {f[2], "enable"}
    BY <2>1, GreaterIs
  <2>5. ASSUME t = "integrity"
        PROVE  complete["disable"]
    <3>1. f[2] = "integrity"
      BY <1>1, <2>1, <2>3, <2>4, <2>5, GreaterIs
    <3>2. ~LessThanGroupLevel("integrity", "disable")
      BY <2>1, <3>1, GreaterIs
    <3>3. QED
      BY <2>2, <2>5, <3>2, DependencyDecides, DependenciesAre
  <2>6. ASSUME f[2] = "disable", ~running["disable"]
        PROVE  ~complete["disable"]
    <3>1. LessThanGroupLevel("integrity", "disable")
      BY <2>1, <2>6, GreaterIs
    <3>2. QED
      BY <2>2, <2>6, <3>1, DisabledIsNotGreater
  <2>7. ASSUME f[3] = "enable", ~running["enable"]
        PROVE  complete["integrity"]
    <3>1. LessThanGroupLevel(f[2], "enable") /\ f[2] # "enable"
      BY <2>1, <2>4, <2>7, GreaterIs
    <3>2. ~running[f[2]]
      BY <3>1 DEF LessThanGroupLevel
    <3>3. complete[f[2]]
      BY <2>2, <2>4, <2>7, <3>1, DependencyDecides, DependenciesAre
    <3>4. QED
      BY <2>4, <2>6, <3>2, <3>3
  <2>8. ASSUME t = "enable"
        PROVE  complete["integrity"]
    <3>1. f[3] = "enable"
      BY <1>1, <2>1, <2>3, <2>8, GreaterIs
    <3>2. QED
      BY <2>7, <2>8, <3>1
  <2>9. ASSUME t = "scan"
        PROVE  complete["integrity"]
    <3>1. f[3] # "scan" /\ LessThanGroupLevel(f[3], "scan")
      BY <1>1, <2>1, <2>3, <2>4, <2>9, GreaterIs
    <3>2. ~running[f[3]]
      BY <3>1 DEF LessThanGroupLevel
    <3>3. CASE f[3] = "enable"
      BY <2>7, <3>2, <3>3
    <3>4. CASE f[3] = f[2]
      <4>1. complete[f[2]]
        BY <2>2, <2>4, <2>9, <3>1, <3>4, DependencyDecides, DependenciesAre
      <4>2. QED
        BY <2>4, <2>6, <3>2, <3>4, <4>1
    <3>5. QED
      BY <2>4, <3>3, <3>4
  <2>10. QED
    BY <2>5, <2>8, <2>9
<1>3. CASE ~DoUnsol
  <2>1. /\ f[1] = "integrity" /\ f[2] = Greater(f[1], "scan") /\ f[3] = Greater(f[2], "command")
        /\ f[4] = Greater(f[3], "time") /\ f[5] = Greater(f[4], "clear") /\ f[6] = Greater(f[5], "vto")
        /\ MaxElement = f[6]
    <3>1. /\ Len(TaskVec) = 6
          /\ TaskVec[1] = "integrity" /\ TaskVec[2] = "scan" /\ TaskVec[3] = "command"
          /\ TaskVec[4] = "time" /\ TaskVec[5] = "clear" /\ TaskVec[6] = "vto"
      BY <1>3, TaskVecIs
    <3>2. QED
      BY <1>1, <3>1
  <2>2. "disable" \notin Tasks /\ "enable" \notin Tasks /\ {"integrity", "scan"} \subseteq Tasks
    <3>1. TaskVec = <<"integrity", "scan", "command", "time", "clear", "vto">>
      BY <1>3 DEF TaskVec
    <3>2. QED
      BY <3>1 DEF Tasks
  <2>3. ASSUME t = "scan"
        PROVE  complete["integrity"]
    <3>1. LessThanGroupLevel("integrity", "scan")
      BY <1>1, <2>1, <2>3, GreaterIs
    <3>2. QED
      BY <2>2, <2>3, <3>1, DependencyDecides, DependenciesAre
  <2>4. QED
    BY <2>2, <2>3
<1>4. QED
  BY <1>2, <1>3

\* Only the dispatch of a task and the second request of a task use the channel.
LEMMA ChannelTaken ==
  ASSUME IInv, Next, channel' # channel, channel' \in {"integrity", "scan", "enable"}
  PROVE  \E t \in Tasks : t = MaxElement /\ channel' = t /\ ~running[t] /\ UNCHANGED done
<1>1. channel' # None
  BY DEF None
<1>2. CASE CheckState
  <2>1. PICK t \in Tasks : /\ t = MaxElement
                           /\ \/ NothingDue(t) \/ DueLater(t)
                              \/ Poll(t) \/ AnswerIIN(t) \/ TransmitVtoData(t)
                              \/ ProcessCommandClosed(t) \/ ProcessCommandOpen(t)
    BY <1>2 DEF CheckState
  <2>2. Starts(t)
    BY <2>1 DEF NothingDue, DueLater, Poll, AnswerIIN, TransmitVtoData, ProcessCommandClosed,
       ProcessCommandOpen, Disables
  <2>3. channel' = t /\ ~running[t] /\ UNCHANGED done
    BY <2>2 DEF Starts, SendRequest, Dispatches, NothingToRun
  <2>4. QED
    BY <2>1, <2>3
<1>3. CASE OnResponse
  <2>1. SecondRequest /\ scheduled \in {"time", "command"}
    BY <1>3 DEF OnResponse, UnsolicitedData, NotWaiting, PollThrows, PartialResponse, FinalResponse,
       TimeResponse, CommandResponse, Finish
  <2>2. channel' \in {"time", "command"}
    BY <2>1 DEF SecondRequest, SendRequest
  <2>3. QED
    BY <2>2
<1>4. CASE ProcessIIN \/ Users \/ (\E t \in {"command", "vto"} : Notified(t)) \/ Tick \/ OnTimerExpiration
  BY <1>4 DEF ProcessIIN, Users, WriteVto, AcceptCommand, Notified, Tick, OnTimerExpiration
<1>5. CASE Callbacks
  BY <1>1, <1>5 DEF Callbacks, OnLowerLayerUp, OnLowerLayerDown, OnSolFailure, OnUnsolResponse,
     OnPartialResponse, OnFinalResponse, Receive
<1>6. QED
  BY <1>2, <1>3, <1>4, <1>5 DEF Next

---------------------------------------------------------------------------
(* The theorems *)

LEMMA InitIInv ==
  ASSUME Init
  PROVE  IInv
<1>1. Calls
  BY CallSequences DEF Init, Calls
<1>2. Masters /\ Buffers /\ Operates
  BY DEF Init, Masters, Buffers, Operates
<1>3. Plain
  <2>1. incidents \in Nat /\ posted \in [{"command", "vto"} -> Nat]
    BY DEF Init
  <2>2. QED
    BY <2>1, Zenon DEF Init, Plain
<1>4. Groups
  <2>1. /\ enabled \in [Tasks -> BOOLEAN] /\ complete \in [Tasks -> BOOLEAN]
        /\ running \in [Tasks -> BOOLEAN]
    BY DEF Init
  <2>2. nextRun \in [Tasks -> 0..Never] /\ timer \in 0..Never
    BY Rates DEF Init
  <2>3. groupRuns \in BOOLEAN /\ done \in SUBSET StartUp
    BY DEF Init
  <2>4. QED
    BY <2>1, <2>2, <2>3 DEF Groups
<1>5. OneTaskAtATime
  BY DEF Init, OneTaskAtATime, OnlineOnly
<1>6. Commands
  BY DEF Init, Commands, Executing
<1>7. Owns
  BY DEF Init, Owns, OwnAnswers, HandlerLast, HandlerDue
<1>8. Awaits /\ StartsUp
  BY StartUpIs DEF Init, Awaits, StartsUp
<1>9. QED
  BY <1>1, <1>2, <1>3, <1>4, <1>5, <1>6, <1>7, <1>8 DEF IInv

LEMMA NextIInv ==
  ASSUME IInv, [Next]_vars
  PROVE  IInv'
<1>1. CASE Next
  <2>1. Calls' /\ Masters' /\ Plain' /\ Buffers'
    BY <1>1, CallsHold, MastersHold, PlainHold, BuffersHold DEF IInv
  <2>2. Groups' /\ OneTaskAtATime'
    BY <1>1, GroupsHold, AgreementHolds DEF IInv
  <2>3. Commands' /\ Operates'
    BY <1>1, CommandsHold, OperatesHold DEF IInv
  <2>4. Owns' /\ Awaits' /\ StartsUp'
    BY <1>1, OwnsHold, AwaitsHold, StartsUpHold DEF IInv
  <2>5. QED
    BY <2>1, <2>2, <2>3, <2>4 DEF IInv
<1>2. CASE UNCHANGED vars
  <2> USE <1>2 DEF vars, master, taskVars, iin, users, history, counts
  <2>1. Calls' /\ Masters' /\ Plain' /\ Buffers'
    BY DEF IInv, Calls, Masters, Plain, Buffers
  <2>2. Groups' /\ OneTaskAtATime'
    BY DEF IInv, Groups, OneTaskAtATime
  <2>3. Commands' /\ Operates'
    BY DEF IInv, Commands, Operates, Executing
  <2>4. Owns' /\ Awaits' /\ StartsUp'
    BY DEF IInv, Owns, OwnAnswers, Awaits, HandlerLast, HandlerDue, StartsUp
  <2>5. QED
    BY <2>1, <2>2, <2>3, <2>4 DEF IInv
<1>3. QED
  BY <1>1, <1>2

LEMMA Invariance == Spec => []IInv
<1>1. Init => IInv
  BY InitIInv
<1>2. IInv /\ [Next]_vars => IInv'
  BY NextIInv
<1>3. QED
  BY <1>1, <1>2, PTL DEF Spec

\* The variables of the master and of its scheduler have their types, and the two agree:
\* whatever completes, is reset by the IIN, disabled by the loss of the link or enabled by
\* other threads, a master that waits for an answer waits for the one task the group has
\* running, only a command is ever left running by a master that waits for nothing, and
\* without the link no task is enabled that needs it. Between calls a master that waits has a
\* request outstanding, or its answer was that to a poll and threw an exception.
THEOREM SchedulerAgrees == Spec => []Consistent
<1>1. IInv => Consistent
  <2>1. ASSUME IInv PROVE TypeOK
    <3>1. Calls /\ Masters /\ Plain /\ Buffers /\ Groups /\ Commands
      BY <2>1 DEF IInv
    <3>2. QED
      BY <3>1 DEF Calls, Masters, Plain, Buffers, Groups, Commands, TypeOK, Steps
  <2>2. ASSUME Awaits PROVE WaitsForSomething
    BY <2>2, NoHandlerDue DEF Awaits, WaitsForSomething
  <2>3. QED
    BY <2>1, <2>2 DEF IInv, Consistent, Owns
<1>2. QED
  BY <1>1, Invariance, PTL

\* In the queue of the commands each has one place at most, so its count is one at most.
LEMMA CountAtMostOne ==
  ASSUME Commands, NEW c \in Cmds
  PROVE  /\ Count(c, queue) \in {0, 1}
         /\ Count(c, queue) # 0 => \E i \in 1..Len(queue) : queue[i] = c
<1> DEFINE places == {i \in DOMAIN queue : queue[i] = c}
<1>1. DOMAIN queue = 1..Len(queue)
  BY DEF Commands
<1>2. CASE places = {}
  <2>1. Cardinality(places) = 0
    BY <1>2, FS_EmptySet
  <2>2. QED
    BY <2>1 DEF Count
<1>3. CASE places # {}
  <2>1. PICK i \in 1..Len(queue) : queue[i] = c
    BY <1>1, <1>3
  <2>2. places = {i}
    BY <1>1, <2>1 DEF Commands
  <2>3. Cardinality(places) = 1
    BY <2>2, FS_Singleton
  <2>4. QED
    BY <2>1, <2>3 DEF Count
<1>4. QED
  BY <1>2, <1>3

\* However often commands fail, time out or meet a closed link, each is answered once at
\* most, is at no time both answered and still to be executed, and is operated only after its
\* own selection.
THEOREM CommandsKeepOrder == Spec => []CommandsInOrder
<1>1. IInv => CommandsInOrder
  <2>1. ASSUME Commands, NEW c \in Cmds
        PROVE  Len(answers[c]) + Count(c, queue) + (IF Executing(c) THEN 1 ELSE 0) <= 1
    <3>1. Len(answers[c]) \in 0..1 /\ (answers[c] = <<>> => Len(answers[c]) = 0)
      <4>1. answers[c] \in Seq({"SUCCESS", "FAILED", "HARDWARE_ERROR"}) /\ Len(answers[c]) <= 1
        BY <2>1 DEF Commands
      <4>2. QED
        BY <4>1, ShortSequence
    <3>2. Executing(c) => Len(answers[c]) = 0
      BY <2>1, <3>1 DEF Commands, Executing
    <3>3. Count(c, queue) = 1 => ~Executing(c) /\ Len(answers[c]) = 0
      BY <2>1, <3>1, CountAtMostOne DEF Commands
    <3>4. Count(c, queue) \in {0, 1}
      BY <2>1, CountAtMostOne
    <3> DEFINE n == Len(answers[c])
                q == Count(c, queue)
                e == IF Executing(c) THEN 1 ELSE 0
    <3>5. n \in 0..1 /\ q \in {0, 1} /\ e \in {0, 1}
      BY <3>1, <3>4
    <3>6. (e = 1 => n = 0) /\ (q = 1 => e = 0 /\ n = 0)
      BY <3>2, <3>3
    <3> HIDE DEF n, q, e
    <3>7. n + q + e <= 1
      BY <3>5, <3>6
    <3>8. QED
      BY <3>7 DEF n, q, e
  <2>2. ASSUME Operates PROVE OperateAfterSelect
    BY <2>2 DEF Operates, OperateAfterSelect
  <2>3. QED
    BY <2>1, <2>2 DEF IInv, CommandsInOrder, AnsweredAtMostOnce
<1>2. QED
  BY <1>1, Invariance, PTL

\* Over failures, retries, restarts of the outstation and losses of the link, events are
\* polled and unsolicited mode is enabled only after an integrity poll, and that only after
\* unsolicited mode was disabled, although the comparison of AsyncTaskBase, by which
\* max_element takes the next task, is no order.
THEOREM StartupKeepsOrder == Spec => StartupInOrder
<1>1. ASSUME IInv, [Next]_vars, channel' # channel
      PROVE  /\ channel' = "integrity" => {"disable"} \cap Tasks \subseteq done'
             /\ channel' \in {"scan", "enable"} => "integrity" \in done'
  <2>1. Next
    BY <1>1 DEF vars
  <2>2. SUFFICES ASSUME channel' \in {"integrity", "scan", "enable"}
                 PROVE  /\ channel' = "integrity" => {"disable"} \cap Tasks \subseteq done'
                        /\ channel' \in {"scan", "enable"} => "integrity" \in done'
    OBVIOUS
  <2>3. PICK t \in Tasks : t = MaxElement /\ channel' = t /\ ~running[t] /\ UNCHANGED done
    BY <1>1, <2>1, <2>2, ChannelTaken
  <2>4. Groups /\ StartsUp
    BY <1>1 DEF IInv
  <2>5. QED
    BY <2>3, <2>4, TakenInOrder, StartUpIs DEF StartsUp
<1>2. IInv /\ [Next]_vars =>
        [channel' # channel =>
           /\ channel' = "integrity" => {"disable"} \cap Tasks \subseteq done'
           /\ channel' \in {"scan", "enable"} => "integrity" \in done']_vars
  BY <1>1
<1>3. QED
  BY <1>2, Invariance, PTL DEF Spec, StartupInOrder
=============================================================================
