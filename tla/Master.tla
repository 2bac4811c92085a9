------------------------------- MODULE Master -------------------------------
(***************************************************************************)
(* The DNP3 master and its task scheduler: Master with its states          *)
(* (MasterStates), the tasks MasterSchedule creates, the AsyncTaskGroup    *)
(* that decides which of them runs, and the command queue of the user.     *)
(*                                                                         *)
(* A task of the group is named after what it does; the master task that   *)
(* carries it out (mpTask) is the one of the same name. The application    *)
(* layer below has one request outstanding at a time and answers it with   *)
(* OnPartialResponse, OnFinalResponse or OnSolFailure.                     *)
(*                                                                         *)
(* AsyncTaskGroup::CheckState is called from within handlers, and calls    *)
(* handlers. What remains of the call in progress is the sequence todo:    *)
(* while it is not empty no other call begins. An exception ends the call; *)
(* AppLayer::OnReceive catches it when the call came from there, otherwise *)
(* it escapes the io_service, whose thread ends (AsyncStackManager::Run).  *)
(***************************************************************************)
EXTENDS Integers, Sequences, FiniteSets

CONSTANTS
  Cmds,           \* the commands users may issue
  DoUnsol,        \* MasterConfig::DoUnsolOnStartup
  IntegrityRate, ScanRate, RetryRate,  \* periods in ticks of the clock
  MaxIncidents    \* bound: commands, losses of the lower layer, responses that carry an IIN bit the
                  \* master acts on, chunks of VTO data the user writes, and non-FIN responses
                  \* to tasks that want a single fragment, together

ASSUME MasterAssumption ==
  /\ DoUnsol \in BOOLEAN
  /\ IntegrityRate \in Nat \ {0} /\ ScanRate \in Nat \ {0} /\ RetryRate \in Nat \ {0}
  /\ MaxIncidents \in Nat

\* MasterSchedule::Init: the tasks in the order of mTaskVec, with one event scan.
TaskVec ==
  IF DoUnsol
    THEN <<"integrity", "disable", "enable", "scan", "command", "time", "clear", "vto">>
    ELSE <<"integrity", "scan", "command", "time", "clear", "vto">>
Tasks == {TaskVec[i] : i \in DOMAIN TaskVec}

Continuous == {"command", "time", "clear", "vto"}
StartUp    == {"integrity", "disable", "enable"} \cap Tasks
OnlineOnly == Tasks \ {"command"}
SingleFragment == {"disable", "enable", "clear", "time"}
DataPolls == {"integrity", "scan"}

\* MasterPriority
Priority ==
  [t \in Tasks |-> CASE t = "vto" -> 0 [] t \in {"integrity", "scan"} -> 1 [] t = "time" -> 2
                     [] t = "clear" -> 3 [] t \in {"disable", "enable"} -> 4 [] t = "command" -> 5]

\* The dependencies of MasterSchedule::Init, and AsyncTaskBase::IsDependency over them.
Dependency ==
  [t \in Tasks |-> CASE t = "integrity" -> {"disable"} [] t \in {"enable", "scan"} -> {"integrity"}
                     [] OTHER -> {}]
IsDependency(l, r) ==
  r \in Tasks /\ (r \in Dependency[l] \/ \E d \in Dependency[l] \cap Tasks : r \in Dependency[d])

\* A time as the ticks left until it: 0 for now and before, Never for max_date_time.
Horizon == IntegrityRate + ScanRate + RetryRate
Never == Horizon + 1
None == "none"

VARIABLES
  state,      \* mpState: Closed, Idle or Waiting
  scheduled,  \* mpScheduledTask while it is Waiting
  step,       \* 1 for SELECT and the delay measurement, 2 for OPERATE and the time write
  command,    \* ControlTaskBase::mData, the command being executed or executed last
  enabled, complete, running,  \* AsyncTaskBase: mIsEnabled, mIsComplete, mIsRunning
  nextRun,    \* mNextRunTime
  groupRuns,  \* AsyncTaskGroup::mIsRunning
  timer,      \* AsyncTaskGroup::mpTimer: ticks until it expires, Never when there is none
  iinTime, iinRestart,  \* mLastIIN: NeedTime and DeviceRestart
  commsUp,    \* mState = SS_COMMS_UP
  queue,      \* mCommandQueue
  vto,        \* [buffered, written]: chunks in mVtoWriter and mBuffer, and in the last request
  posted,     \* calls of Enable that the notifiers have posted, for each of the two tasks
  channel,    \* the task whose request the application layer waits for an answer to
  response,   \* the response that AppLayer::OnReceive has called with: unsolicited, partial or final
  todo,       \* what is left of the call in progress
  escaped,    \* an exception has ended the thread of the io_service
  answers,    \* history: for each command the statuses its IResponseAcceptor was given
  selected,   \* history: the SELECT of the command has had a good answer
  done,       \* history: startup tasks completed since the layer came up or they were reset
  cutOff,     \* history: a non-FIN response has ended a task before its answer was complete
  incidents   \* count for the bound

taskVars == <<enabled, complete, running, nextRun, groupRuns>>
users    == <<queue, vto, posted>>
counts   == <<cutOff, incidents>>
history  == <<answers, selected, done>>
master   == <<state, scheduled, step, command>>
iin      == <<iinTime, iinRestart>>
vars == <<master, taskVars, timer, iin, commsUp, users, channel, response, todo, escaped,
          history, counts>>

---------------------------------------------------------------------------
TypeOK ==
  /\ state \in {"Closed", "Idle", "Waiting"}
  /\ scheduled \in Tasks \cup {None} /\ step \in 1..2 /\ command \in Cmds \cup {None}
  /\ enabled \in [Tasks -> BOOLEAN] /\ complete \in [Tasks -> BOOLEAN]
  /\ running \in [Tasks -> BOOLEAN] /\ nextRun \in [Tasks -> 0..Never]
  /\ groupRuns \in BOOLEAN /\ timer \in 0..Never
  /\ iinTime \in BOOLEAN /\ iinRestart \in BOOLEAN /\ commsUp \in BOOLEAN
  /\ queue \in Seq(Cmds) /\ vto \in [buffered : Nat, written : Nat] /\ posted \in [{"command", "vto"} -> Nat]
  /\ channel \in Tasks \cup {None}
  /\ response \in {None, "unsolicited", "partial", "final"}
  /\ todo \in Seq({"CheckState", "ProcessIIN", "OnResponse"})
  /\ escaped \in BOOLEAN
  /\ answers \in [Cmds -> Seq({"SUCCESS", "FAILED", "HARDWARE_ERROR"})]
  /\ selected \in BOOLEAN
  /\ done \in SUBSET StartUp
  /\ cutOff \in BOOLEAN /\ incidents \in Nat

Init ==
  /\ state = "Closed" /\ scheduled = None /\ step = 1 /\ command = None
  /\ enabled = [t \in Tasks |-> FALSE] /\ complete = [t \in Tasks |-> FALSE]
  /\ running = [t \in Tasks |-> FALSE] /\ nextRun = [t \in Tasks |-> 0]
  /\ groupRuns = FALSE /\ timer = Never
  /\ iinTime = FALSE /\ iinRestart = FALSE /\ commsUp = FALSE
  /\ queue = <<>> /\ vto = [buffered |-> 0, written |-> 0] /\ posted = [t \in {"command", "vto"} |-> 0]
  /\ channel = None /\ response = None /\ todo = <<>>
  /\ escaped = FALSE
  /\ answers = [c \in Cmds |-> <<>>] /\ selected = FALSE /\ done = {}
  /\ cutOff = FALSE /\ incidents = 0

---------------------------------------------------------------------------
(* Calls *)

\* A call from outside begins: what it does and what is then left of it.
Begin(rest) ==
  /\ todo = <<>> /\ ~escaped
  /\ todo' = rest

\* The first thing left of the call is op; the call goes on with first and then the rest.
Proceed(op) == todo # <<>> /\ Head(todo) = op /\ ~escaped
Then(first) ==
  /\ todo' = first \o Tail(todo)
  /\ response' = IF todo' = <<>> THEN None ELSE response

\* An exception ends the call, or leaves a callback of the io_service and ends its thread.
Throw ==
  /\ todo' = <<>> /\ response' = None
  /\ escaped' = (response = None)

\* n incidents happen.
Happen(n) == incidents' = incidents + n /\ incidents' <= MaxIncidents

\* The user of a command is told of its status.
Respond(c, status) == answers' = [answers EXCEPT ![c] = Append(@, status)]

---------------------------------------------------------------------------
(* AsyncTaskBase and AsyncTaskGroup *)

\* AsyncTaskBase::Reset of the tasks in S.
Reset(S) ==
  /\ complete' = [t \in Tasks |-> complete[t] /\ t \notin S]
  /\ running' = [t \in Tasks |-> running[t] /\ t \notin S]
  /\ nextRun' = [t \in Tasks |-> IF t \in S THEN 0 ELSE nextRun[t]]

SilentDisable(S) == Reset(S) /\ enabled' = [t \in Tasks |-> enabled[t] /\ t \notin S]
SilentEnable(S) == enabled' = [t \in Tasks |-> enabled[t] \/ t \in S]

\* AsyncTaskBase::UpdateTime: a task whose time has come is expired, and no more complete.
Expired(t) == nextRun[t] = 0
IsComplete(t) == complete[t] /\ ~Expired(t)

\* Mutant of LessThan: dependencies do not block.
LessThanAnyOrder(l, r) ==
  IF enabled[l] # enabled[r] THEN enabled[r]
  ELSE IF Expired(l) /\ Expired(r) THEN Priority[l] < Priority[r]
  ELSE IF Expired(l) # Expired(r) THEN Expired(r)
  ELSE nextRun[l] > nextRun[r]

\* AsyncTaskBase::LessThan
LessThan(l, r) ==
  IF IsDependency(l, r) /\ ~IsComplete(r) THEN TRUE
  ELSE IF IsDependency(r, l) /\ ~IsComplete(l) THEN FALSE
  ELSE IF enabled[l] # enabled[r] THEN enabled[r]
  ELSE IF Expired(l) /\ Expired(r) THEN Priority[l] < Priority[r]
  ELSE IF Expired(l) # Expired(r) THEN Expired(r)
  ELSE nextRun[l] > nextRun[r]

\* AsyncTaskBase::LessThanGroupLevel
LessThanGroupLevel(l, r) == ~running[l] /\ (running[r] \/ LessThan(l, r))

Greater(l, r) == IF LessThanGroupLevel(l, r) THEN r ELSE l

\* std::max_element over mTaskVec. The order is not transitive, so what counts is the task
\* that is left when each is compared in turn with the best so far.
MaxElement ==
  LET best[i \in DOMAIN TaskVec] ==
        IF i = 1 THEN TaskVec[1]
        ELSE CHOOSE t \in {Greater(b, TaskVec[i]) : b \in {best[i - 1]}} : TRUE
  IN  best[Len(TaskVec)]

\* AsyncTaskGroup::GetNext finds nothing to run.
NothingToRun(t) == running[t] \/ ~enabled[t] \/ nextRun[t] = Never

\* AsyncTaskBase::OnComplete of the task scheduled, _OnComplete of its kind, and OnCompletion
\* of the group. The kinds differ in what becomes of a task that succeeded.
OnComplete(t, success) ==
  /\ running' = [running EXCEPT ![t] = FALSE]
  /\ complete' = [complete EXCEPT ![t] = (success /\ t \notin Continuous) \/ @]
  /\ nextRun' =
       [nextRun EXCEPT ![t] =
          CASE t \in Continuous -> @
            [] t \notin Continuous /\ ~success -> RetryRate
            [] t = "integrity" /\ success -> IntegrityRate
            [] t = "scan" /\ success -> ScanRate
            [] t \in {"disable", "enable"} /\ success -> Never]
  /\ groupRuns' = FALSE
  /\ done' = IF success /\ t \in StartUp THEN done \cup {t} ELSE done
  /\ UNCHANGED enabled
---------------------------------------------------------------------------
(* AsyncTaskGroup::CheckState and the handlers of the tasks *)

NothingDue(t) ==
  /\ NothingToRun(t)
  /\ Then(<<>>)
  /\ UNCHANGED <<master, taskVars, timer, iin, commsUp, users, channel, escaped, history, counts>>

\* RestartTimer
DueLater(t) ==
  /\ ~NothingToRun(t) /\ ~Expired(t)
  /\ timer' = nextRun[t]
  /\ Then(<<>>)
  /\ UNCHANGED <<master, taskVars, iin, commsUp, users, channel, escaped, history, counts>>

Dispatches(t) ==
  /\ ~NothingToRun(t) /\ Expired(t)
  /\ groupRuns' = TRUE
  /\ UNCHANGED <<timer, iin, commsUp, done, counts>>

\* Master::StartTask: the application layer takes the request, or throws because the one
\* before is not over.
SendRequest(t) ==
  \/ channel = None /\ channel' = t /\ Then(<<>>) /\ UNCHANGED escaped
  \/ channel # None /\ Throw /\ UNCHANGED channel

\* Dispatch of t, whose handler starts the master task (AMS_Idle::StartTask).
Starts(t) ==
  /\ Dispatches(t)
  /\ state = "Idle"
  /\ state' = "Waiting" /\ scheduled' = t /\ step' = 1
  /\ running' = [running EXCEPT ![t] = TRUE]
  /\ complete' = [complete EXCEPT ![t] = FALSE]
  /\ selected' = (selected /\ t # "command")
  /\ SendRequest(t)
  /\ UNCHANGED <<enabled, nextRun>>

\* Dispatch of t, whose handler disables it again.
Disables(t) ==
  /\ Dispatches(t)
  /\ SilentDisable({t})
  /\ Then(<<"CheckState">>)
  /\ UNCHANGED <<master, users, channel, escaped, answers, selected>>

\* Master::IntegrityPoll, EventPoll, ChangeUnsol
Poll(t) ==
  /\ t \notin Continuous
  /\ Starts(t)
  /\ UNCHANGED <<command, users, answers>>

\* Master::SyncTime and WriteIIN: for as long as the last IIN has the bit set.
Wanted(t) == IF t = "time" THEN iinTime ELSE iinRestart

AnswerIIN(t) ==
  /\ t \in {"time", "clear"}
  /\ \/ Wanted(t) /\ Starts(t) /\ UNCHANGED <<command, users, answers>>
     \/ ~Wanted(t) /\ Disables(t)

\* Master::TransmitVtoData. As many chunks are written as fit in the fragment, at most seven.
TransmitVtoData(t) ==
  /\ t = "vto"
  /\ \/ /\ state # "Closed" /\ vto.buffered > 0
        /\ Starts(t)
        /\ \E n \in 1..vto.buffered : vto' = [vto EXCEPT !.written = n]
        /\ UNCHANGED <<command, queue, posted, answers>>
     \/ /\ state = "Closed" \/ vto.buffered = 0
        /\ Disables(t)

\* Mutant of RespondToCommand: the command is answered and stays in the queue.
RespondToCommandKeeps ==
  /\ queue # <<>>
  /\ Respond(Head(queue), "HARDWARE_ERROR")
  /\ UNCHANGED queue

\* CommandQueue::RespondToCommand
RespondToCommand ==
  /\ queue # <<>>
  /\ Respond(Head(queue), "HARDWARE_ERROR")
  /\ queue' = Tail(queue)

\* Master::ProcessCommand while closed: the command at the head is answered, and the task
\* neither completes nor is it disabled.
ProcessCommandClosed(t) ==
  /\ t = "command" /\ state = "Closed"
  /\ \/ /\ Dispatches(t)
        /\ RespondToCommand
        /\ running' = [running EXCEPT ![t] = TRUE]
        /\ complete' = [complete EXCEPT ![t] = FALSE]
        /\ Then(<<>>)
        /\ UNCHANGED <<master, enabled, nextRun, vto, posted, channel, escaped, selected>>
     \/ queue = <<>> /\ Disables(t)

\* Master::ProcessCommand while open
ProcessCommandOpen(t) ==
  /\ t = "command" /\ state # "Closed"
  /\ \/ /\ queue # <<>>
        /\ Starts(t)
        /\ command' = Head(queue)
        /\ queue' = Tail(queue)
        /\ UNCHANGED <<vto, posted, answers>>
     \/ queue = <<>> /\ Disables(t)

CheckState ==
  /\ Proceed("CheckState")
  /\ \E t \in Tasks \cap {MaxElement} :
       \/ NothingDue(t) \/ DueLater(t)
       \/ Poll(t) \/ AnswerIIN(t) \/ TransmitVtoData(t)
       \/ ProcessCommandClosed(t) \/ ProcessCommandOpen(t)

---------------------------------------------------------------------------
(* The users, the notifiers and the clock *)

\* CommandQueue::AcceptCommand, in a thread of the user; the notifier posts the Enable.
AcceptCommand(c) ==
  /\ ~escaped
  /\ answers[c] = <<>> /\ c # command
  /\ \A i \in DOMAIN queue : queue[i] # c
  /\ Happen(1)
  /\ queue' = Append(queue, c)
  /\ posted' = [posted EXCEPT !["command"] = @ + 1]
  /\ UNCHANGED <<master, taskVars, timer, iin, commsUp, vto, channel, response, todo,
                 escaped, history, cutOff>>

\* VtoWriter::Write, likewise.
WriteVto ==
  /\ ~escaped
  /\ Happen(1)
  /\ vto' = [vto EXCEPT !.buffered = @ + 1]
  /\ posted' = [posted EXCEPT !["vto"] = @ + 1]
  /\ UNCHANGED <<master, taskVars, timer, iin, commsUp, queue, channel, response, todo,
                 escaped, history, cutOff>>

\* What PostingNotifier posted runs: AsyncTaskBase::Enable.
Notified(t) ==
  /\ posted[t] > 0
  /\ Begin(<<"CheckState">>)
  /\ posted' = [posted EXCEPT ![t] = @ - 1]
  /\ SilentEnable({t})
  /\ UNCHANGED <<master, complete, running, nextRun, groupRuns, timer, iin, commsUp, queue, vto,
                 channel, response, escaped, history, counts>>

\* Time passes, for the tasks and for the timer.
Tick ==
  /\ todo = <<>> /\ ~escaped
  /\ (timer \in 1..Horizon) \/ \E t \in Tasks : nextRun[t] \in 1..Horizon
  /\ nextRun' = [t \in Tasks |-> IF nextRun[t] \in 1..Horizon THEN nextRun[t] - 1 ELSE nextRun[t]]
  /\ timer' = IF timer \in 1..Horizon THEN timer - 1 ELSE timer
  /\ UNCHANGED <<master, enabled, complete, running, groupRuns, iin, commsUp, users, channel,
                 response, todo, escaped, history, counts>>

OnTimerExpiration ==
  /\ timer = 0
  /\ Begin(<<"CheckState">>)
  /\ timer' = Never
  /\ UNCHANGED <<master, taskVars, iin, commsUp, users, channel, response, escaped, history, counts>>

---------------------------------------------------------------------------
(* IAppUser: the calls of the application layer *)

\* Master::OnLowerLayerUp
OnLowerLayerUp ==
  /\ state = "Closed"
  /\ Begin(<<"CheckState">>)
  /\ state' = "Idle"
  /\ SilentEnable(OnlineOnly)
  /\ done' = {}
  /\ UNCHANGED <<scheduled, step, command, complete, running, nextRun, groupRuns, timer, iin, commsUp,
                 users, channel, response, escaped, answers, selected, counts>>

\* Mutant of TaskFails: nor does ControlTaskBase.
TaskFailsQuietly == UNCHANGED answers

\* MasterTaskBase::OnFailure of the task in progress: only ControlTaskBase tells anyone.
TaskFails ==
  IF scheduled = "command" THEN Respond(command, "HARDWARE_ERROR") ELSE UNCHANGED answers

\* Master::OnLowerLayerDown. The task in progress fails, its scheduled task is not told.
OnLowerLayerDown ==
  /\ state # "Closed"
  /\ Happen(1)
  /\ Begin(<<"CheckState">>)
  /\ state' = "Closed" /\ scheduled' = None
  /\ IF state = "Waiting" THEN TaskFails ELSE UNCHANGED answers
  /\ SilentDisable(OnlineOnly)
  /\ commsUp' = FALSE
  /\ channel' = None
  /\ UNCHANGED <<step, command, groupRuns, timer, iin, users, response, escaped, selected,
                 done, cutOff>>

\* AMS_Waiting::OnFailure, with the end of the scheduled task.
OnFailure ==
  /\ state' = "Idle" /\ scheduled' = None
  /\ TaskFails
  /\ OnComplete(scheduled, FALSE)

\* Master::OnSolFailure: no answer in time, or the request could not be sent. In AMS_Idle
\* the exception escapes the timer's callback.
OnSolFailure ==
  /\ channel # None
  /\ channel' = None
  /\ commsUp' = FALSE
  /\ \/ /\ state = "Waiting"
        /\ Begin(<<"CheckState">>)
        /\ OnFailure
        /\ UNCHANGED escaped
     \/ /\ state = "Idle"
        /\ Begin(<<>>)
        /\ escaped' = TRUE
        /\ UNCHANGED <<state, scheduled, taskVars, answers, done>>
  /\ UNCHANGED <<step, command, timer, iin, users, response, selected, counts>>

\* A response arrives with an IIN: Master::UpdateState(SS_COMMS_UP) enables the VTO task.
\* It ends the task in progress before its time (cuts) or not.
Receive(kind, cuts) ==
  /\ \E t, r \in BOOLEAN :
       /\ iinTime' = t /\ iinRestart' = r
       /\ Happen((IF t \/ r THEN 1 ELSE 0) + (IF cuts THEN 1 ELSE 0))
  /\ cutOff' = (cutOff \/ cuts)
  /\ response' = kind
  /\ commsUp' = TRUE
  /\ IF commsUp
       THEN Begin(<<"ProcessIIN", "OnResponse">>) /\ UNCHANGED enabled
       ELSE Begin(<<"CheckState", "ProcessIIN", "OnResponse">>) /\ SilentEnable({"vto"})
  /\ UNCHANGED <<master, complete, running, nextRun, groupRuns, timer, users, escaped, history>>

\* Master::OnUnsolResponse
OnUnsolResponse ==
  /\ state # "Closed"
  /\ Receive("unsolicited", FALSE)
  /\ UNCHANGED channel

\* Master::OnPartialResponse. Another fragment of the answer is to follow.
OnPartialResponse ==
  /\ channel # None
  /\ Receive("partial", state = "Waiting" /\ scheduled \in SingleFragment)
  /\ UNCHANGED channel

\* Master::OnFinalResponse. The channel of the application layer is idle again.
OnFinalResponse ==
  /\ channel # None
  /\ Receive("final", FALSE)
  /\ channel' = None

\* Mutant of ProcessIIN: ResetTasks does not spare the task that runs.
ProcessIINAll ==
  /\ Proceed("ProcessIIN")
  /\ SilentEnable((IF iinTime THEN {"time"} ELSE {}) \cup (IF iinRestart THEN {"clear"} ELSE {}))
  /\ LET S == IF iinRestart THEN StartUp ELSE {}
     IN  Reset(S) /\ done' = done \ S
  /\ Then(IF iinTime \/ iinRestart THEN <<"CheckState">> ELSE <<>>)
  /\ UNCHANGED <<master, groupRuns, timer, iin, commsUp, users, channel, escaped,
                 answers, selected, counts>>

\* The rest of Master::ProcessIIN.
ProcessIIN ==
  /\ Proceed("ProcessIIN")
  /\ SilentEnable((IF iinTime THEN {"time"} ELSE {}) \cup (IF iinRestart THEN {"clear"} ELSE {}))
  /\ LET S == IF iinRestart THEN {t \in StartUp : ~running[t]} ELSE {}
     IN  Reset(S) /\ done' = done \ S
  /\ Then(IF iinTime \/ iinRestart THEN <<"CheckState">> ELSE <<>>)
  /\ UNCHANGED <<master, groupRuns, timer, iin, commsUp, users, channel, escaped,
                 answers, selected, counts>>

\* TR_SUCCESS and TR_FAIL: the task in progress is over.
Finish(success) ==
  /\ state' = "Idle" /\ scheduled' = None
  /\ OnComplete(scheduled, success)
  /\ Then(<<"CheckState">>)
  /\ UNCHANGED <<step, channel, escaped>>

\* TR_CONTINUE on a final response: the second request of a task.
SecondRequest ==
  /\ step = 1
  /\ step' = 2
  /\ SendRequest(scheduled)
  /\ UNCHANGED <<state, scheduled, taskVars, done>>

\* The state's handler of a response of this kind runs.
InOnResponse(kind) ==
  /\ Proceed("OnResponse")
  /\ response = kind
  /\ UNCHANGED <<command, timer, iin, commsUp, posted, queue, counts>>

\* AMS_OpenBase::OnUnsolResponse: the data is published.
UnsolicitedData ==
  /\ InOnResponse("unsolicited")
  /\ Then(<<>>)
  /\ UNCHANGED <<state, scheduled, step, taskVars, vto, channel, escaped, history>>

\* AMS_Base::OnPartialResponse and OnFinalResponse: an answer nothing waits for.
NotWaiting ==
  /\ InOnResponse("partial") \/ InOnResponse("final")
  /\ state # "Waiting"
  /\ Throw
  /\ UNCHANGED <<state, scheduled, step, taskVars, vto, channel, history>>

\* AMS_Waiting::OnPartialResponse
PartialResponse ==
  /\ InOnResponse("partial")
  /\ state = "Waiting"
  /\ IF scheduled \in SingleFragment
       THEN Finish(FALSE)
       ELSE Then(<<>>) /\ UNCHANGED <<state, scheduled, step, taskVars, channel, escaped, done>>
  /\ UNCHANGED <<vto, answers, selected>>

\* AMS_Waiting::OnFinalResponse of the tasks that make nothing of what the answer says, or
\* only read data from it.
FinalResponse ==
  /\ InOnResponse("final")
  /\ state = "Waiting"
  /\ scheduled \notin {"command", "time"}
  /\ Finish(TRUE)
  /\ vto' = IF scheduled = "vto" THEN [buffered |-> vto.buffered - vto.written, written |-> 0] ELSE vto
  /\ UNCHANGED <<answers, selected>>

\* The same of a DataPoll whose data throws: a VTO header without an object, say. The channel
\* is idle already, and the task neither succeeds nor fails. (A partial response that throws
\* leaves things as TR_CONTINUE does.)
PollThrows ==
  /\ InOnResponse("final")
  /\ state = "Waiting"
  /\ scheduled \in DataPolls
  /\ Throw
  /\ UNCHANGED <<state, scheduled, step, taskVars, vto, channel, history>>

\* Of TimeSync: the delay measurement may be malformed; then the time is written.
TimeResponse ==
  /\ InOnResponse("final")
  /\ state = "Waiting" /\ scheduled = "time"
  /\ \/ step = 1 /\ (SecondRequest \/ Finish(FALSE))
     \/ step = 2 /\ Finish(TRUE)
  /\ UNCHANGED <<vto, answers, selected>>

\* Of ControlTaskBase: a good answer to the SELECT is followed by the OPERATE, any other
\* answer is the response to the command.
CommandResponse ==
  /\ InOnResponse("final")
  /\ state = "Waiting" /\ scheduled = "command"
  /\ \/ SecondRequest /\ selected' = TRUE /\ UNCHANGED answers
     \/ /\ \/ step = 2 /\ Respond(command, "SUCCESS")
           \/ Respond(command, "FAILED")
        /\ Finish(TRUE)
        /\ UNCHANGED selected
  /\ UNCHANGED vto

OnResponse ==
  \/ UnsolicitedData \/ NotWaiting \/ PartialResponse
  \/ FinalResponse \/ PollThrows \/ TimeResponse \/ CommandResponse

---------------------------------------------------------------------------
Users == WriteVto \/ \E c \in Cmds : AcceptCommand(c)
Callbacks == OnLowerLayerUp \/ OnLowerLayerDown \/ OnSolFailure \/ OnUnsolResponse
             \/ OnPartialResponse \/ OnFinalResponse

Next ==
  \/ CheckState \/ ProcessIIN \/ OnResponse
  \/ Users \/ \E t \in {"command", "vto"} : Notified(t)
  \/ Tick \/ OnTimerExpiration
  \/ Callbacks

Spec == Init /\ [][Next]_vars

\* A call that has begun goes on to its end. The io_service runs its handlers in the order
\* they were posted, so other calls cannot hold up for ever what a notifier has posted, nor
\* the answer to a request or the expiry of its timer.
Fairness ==
  /\ WF_vars(CheckState \/ ProcessIIN \/ OnResponse)
  /\ SF_vars(\E t \in {"command", "vto"} : Notified(t))
  /\ SF_vars(OnSolFailure \/ OnFinalResponse)

FairSpec == Spec /\ Fairness

---------------------------------------------------------------------------
(* Properties *)

Executing(c) == state = "Waiting" /\ scheduled = "command" /\ command = c

Count(c, s) == Cardinality({i \in DOMAIN s : s[i] = c})

\* The scheduler and the master agree. A master that waits for an answer waits for the task
\* the group has running, so that OnComplete finds it running and no other task is dispatched
\* to a master that is not idle; only a command may be left running by a master that waits
\* for nothing (Master::ProcessCommand, and OnLowerLayerDown, whose Disable spares it). What
\* needs the link is not enabled without it.
OneTaskAtATime ==
  /\ state = "Waiting" => running[scheduled] /\ groupRuns
  /\ \A t \in Tasks : running[t] => (state = "Waiting" /\ scheduled = t) \/ t = "command"
  /\ state = "Closed" => \A t \in OnlineOnly \ {"vto"} : ~enabled[t]

\* A request that waits for its answer is one of the task in progress, so that no task takes
\* the answer to another for its own. (A non-FIN response to a task that wants a single
\* fragment ends it, and leaves its request to the application layer.)
OwnAnswers == ~cutOff /\ channel # None => state = "Waiting" /\ channel = scheduled

\* Between calls a master that waits has a request outstanding, whose answer or failure will
\* come; but the answer to a poll may have come and thrown an exception (PollThrows).
WaitsForSomething ==
  state = "Waiting" /\ todo = <<>> => channel # None \/ scheduled \in DataPolls

\* The variables have their types, and the scheduler, the master and the layer below agree.
Consistent == TypeOK /\ OneTaskAtATime /\ OwnAnswers /\ WaitsForSomething

\* However often commands fail, time out or meet a closed link, the acceptor of a command is
\* not called twice, and a command is at no time both answered and still to be executed.
AnsweredAtMostOnce ==
  \A c \in Cmds :
    Len(answers[c]) + Count(c, queue) + (IF Executing(c) THEN 1 ELSE 0) <= 1

\* An OPERATE is outstanding only after this command's own SELECT had a good answer.
OperateAfterSelect ==
  channel = "command" /\ state = "Waiting" /\ scheduled = "command" /\ step = 2 => selected

\* A command is operated after its selection and answered once at most.
CommandsInOrder == AnsweredAtMostOnce /\ OperateAfterSelect

\* The startup sequence, over failures, retries, restarts of the outstation and losses of the
\* link: events are polled and unsolicited mode is enabled only after an integrity poll, and
\* that only after unsolicited mode was disabled, if the master does so. (What was done had
\* its own answer as far as OwnAnswers goes.)
StartupInOrder ==
  [][channel' # channel =>
       /\ channel' = "integrity" => {"disable"} \cap Tasks \subseteq done'
       /\ channel' \in {"scan", "enable"} => "integrity" \in done']_vars

\* The task of the commands runs, and nothing will complete it.
Stuck == running["command"] /\ ~(state = "Waiting" /\ scheduled = "command")

\* The master waits for the answer to a poll whose answer has come and thrown. Until the
\* lower layer goes down it starts no other task.
Forgotten == state = "Waiting" /\ scheduled \in DataPolls /\ channel = None /\ todo = <<>>

\* A command accepted is answered, unless the task of the commands has been left running, or
\* the data of a poll threw an exception and the master waits for its end (DataPoll::ReadData
\* lets it pass, and AppLayer::_OnReceive catches it when the channel is idle again).
AnsweredUnlessStuck ==
  \A c \in Cmds : Count(c, queue) > 0 ~> (answers[c] # <<>> \/ Stuck \/ Forgotten \/ escaped)

\* CommandInterfaces.h: the stack will call back with the supplied IResponseAcceptor. Not so
\* after a command was answered while the master is closed, or cut off by the loss of the
\* link: its task is neither completed nor disabled, and nothing else is run any more.
CommandsAnswered ==
  \A c \in Cmds : Count(c, queue) > 0 ~> (answers[c] # <<>> \/ escaped)
=============================================================================
