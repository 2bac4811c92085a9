------------------------------- MODULE Controls -------------------------------
(***************************************************************************)
(* Controls at the outstation: SELECT, OPERATE and DIRECT_OPERATE, from    *)
(* the request that Slave receives through DNPCommandMaster, which matches *)
(* them, to the application's thread, which executes them (CommandQueue),  *)
(* and back (CommandResponseQueue).                                        *)
(*                                                                         *)
(* Two threads. The thread of the stack handles a request object by object *)
(* and blocks while the application executes one; meanwhile nothing else   *)
(* of the stack runs, but time passes. What this thread owns is the record *)
(* s. The two queues are shared, each with a lock and the second with a    *)
(* condition variable, on which the code waits once and without a loop.    *)
(*                                                                         *)
(* A request is deferred and its response sent as in Slave; a response to  *)
(* a control asks for no confirmation. A request carries its number, of    *)
(* which the four bits of the sequence are the last.                       *)
(***************************************************************************)
EXTENDS Integers, Sequences, FiniteSets, SequencesExt

CONSTANTS
  Modes,         \* the points that are bound, with their CommandModes
  MaxControls,   \* SlaveConfig::mMaxControls
  Values,        \* what an object may say that its point should do
  Lists,         \* the lists of objects that the master puts into requests
  Outcomes,      \* what the application returns for a command
  Skips,         \* how many requests in a row may be lost
  MaxRequests,   \* bound: requests received
  MaxIncidents   \* bound: repetitions, losses of the lower layer, unsolicited responses and
                 \* returns of Wait without a signal, together

Points == DOMAIN Modes

\* An object: the index of the point, the value, and the object's place in its header. A
\* header whose objects are no controls counts as one object, at place 0.
Object == [point : Nat, value : Values, place : Nat]

ASSUME ControlsAssumption ==
  /\ Modes \in [Points -> {"SBO_ONLY", "DO_ONLY", "SBO_OR_DO"}]
  /\ MaxControls \in Nat
  /\ \A l \in Lists : l \in Seq(Object)
  /\ Skips \subseteq Nat
  /\ MaxRequests \in Nat /\ MaxIncidents \in Nat

\* OTHER is a request that Slave answers at once and that is no control.
Functions == {"SELECT", "OPERATE", "DIRECT_OPERATE", "DIRECT_OPERATE_NO_ACK", "OTHER"}
Request == [id : Nat, fc : Functions, objs : Seq(Object)]
NoRequest == [id |-> 0, fc |-> "OTHER", objs |-> <<>>]

SequenceOf(r) == r.id % 16
SameAPDU(a, b) == a.fc = b.fc /\ a.objs = b.objs /\ SequenceOf(a) = SequenceOf(b)

VARIABLES
  s,         \* what the thread of the stack owns
  commands,  \* CommandQueue: what waits for the application
  app,       \* the command that the application executes, or none
  results,   \* CommandResponseQueue: mResponseQueue, the front first
  signal,    \* the waiting thread was signalled
  last,      \* the last request of the master
  count,     \* of requests, incidents, and those that are returns of Wait without a signal
  log,       \* history of selections, commands and time
  told       \* history of what the application returned for each command

vars == <<s, commands, app, results, signal, last, count, log, told>>

States == {"Closed", "Idle", "WaitForRspSuccess", "WaitForUnsolSuccess", "WaitForSolUnsolSuccess"}

\* An unselected point; what it was selected with before does not matter.
Unselected == [on |-> FALSE, old |-> FALSE, seq |-> 0, value |-> "none"]

\* mIsSelected has no initial value. What seems selected then is far older than any timeout.
Uninitialised == {Unselected, [Unselected EXCEPT !.on = TRUE, !.old = TRUE]}

\* The status of an object, and the control sequence it was executed under, or 0. A header
\* that was passed over has left "nothing" in the response.
Status(status, sequence) == [status |-> status, sequence |-> sequence]

\* The bit of mRspIIN that goes with a status
Bits(status) == CASE status = "NOT_SUPPORTED" -> {"PARAMETER_ERROR"}
                  [] status = "nothing" -> {"FUNC_NOT_SUPPORTED"}
                  [] OTHER -> {}

\* The thread of the stack at first. The selections are what the memory held.
Initially(select) ==
        [select   |-> select,       \* of DNPCommandMaster, by point
         state    |-> "Closed",     \* mpState
         deferred |-> FALSE,        \* mDeferredRequest
         request  |-> NoRequest,    \* mRequest, none when nothing is deferred
         reqPrev  |-> FALSE,        \* mSeqInfo is SI_PREV
         heard    |-> -1,           \* mSequence of the solicited channel
         last     |-> NoRequest,    \* mLastRequest
         response |-> <<>>,         \* the objects of mResponse
         author   |-> 0,            \* the number of the request whose handling wrote them
         iin      |-> {},           \* mRspIIN
         sequence |-> 0,            \* mSequence of Slave. It starts with any value: only
                                    \* equality matters.
         pc       |-> "free",       \* where the handler of a control is
         current  |-> NoRequest,    \* the request it handles
         out      |-> <<>>,         \* the objects it wrote
         broken   |-> FALSE,        \* SendResponse asserted
         answers  |-> {}]           \* history of the responses; also of what was written
                                    \* for a request that wants none

Init ==
  /\ \E u \in Uninitialised : s = Initially([p \in Points |-> u])
  /\ commands = <<>> /\ app = <<>> /\ results = <<>> /\ signal = FALSE
  /\ last = NoRequest
  /\ count = [requests |-> 0, incidents |-> 0, wakeups |-> 0]
  /\ log = <<>> /\ told = {}

Note(kind, id, point, value) == [kind |-> kind, id |-> id, point |-> point, value |-> value]

---------------------------------------------------------------------------
(* The states of Slave, as far as controls depend on them *)

\* AppLayer::SendResponse needs the sequence of a request heard on this connection.
Sent(x, out, author, again) ==
  [x EXCEPT !.response = out, !.author = author, !.pc = "free", !.out = <<>>,
            !.last = x.current, !.current = NoRequest, !.broken = x.heard = -1,
            !.answers = @ \cup {[request |-> x.current, out |-> out, iin |-> x.iin,
                                 author |-> author, again |-> again]}]

Respond(x, out) == Sent(x, out, x.current.id, FALSE)

\* The objects of the response before are sent as they are.
RespondAgain(x) == Sent(x, x.response, x.author, TRUE)

DeselectAll(x) == [x EXCEPT !.select = [p \in Points |-> Unselected]]

\* Mutant of IsRetry: every OPERATE is taken for a new one.
NeverRetry(x, r, prev) == FALSE

\* HandleOperate: an OPERATE that was handled is only answered again.
IsRetry(x, r, prev) == prev /\ SameAPDU(x.last, r)

\* DoRequest up to the first object: ChangeState, unless there will be no response
DoRequest(x, r, prev, next) ==
  LET y == [x EXCEPT !.state = IF r.fc = "DIRECT_OPERATE_NO_ACK" THEN @ ELSE next,
                     !.iin = {}, !.current = r, !.pc = "object"]
  IN  CASE r.fc = "OTHER"  -> Respond(y, <<>>)
        [] r.fc = "SELECT" -> DeselectAll(y)
        [] OTHER           -> IF r.fc = "OPERATE" /\ IsRetry(x, r, prev)
                                THEN RespondAgain(y) ELSE y

\* FlushDeferredEvents
FlushRequest(x) ==
  IF x.state = "Idle" /\ x.deferred
    THEN DoRequest([x EXCEPT !.deferred = FALSE, !.request = NoRequest],
                   x.request, x.reqPrev, "WaitForRspSuccess")
    ELSE x

\* Slave::OnRequest, as SolicitedChannel calls it
OnRequest(x, r) ==
  LET prev == SequenceOf(r) = x.heard
      y    == [x EXCEPT !.heard = SequenceOf(r)]
  IN  CASE x.state = "Idle" -> DoRequest(y, r, prev, "WaitForRspSuccess")
        [] x.state = "WaitForUnsolSuccess" ->
             DoRequest([y EXCEPT !.deferred = FALSE, !.request = NoRequest], r, prev,
                       "WaitForSolUnsolSuccess")
        [] OTHER -> [y EXCEPT !.deferred = TRUE, !.request = r, !.reqPrev = prev]

Free == s.pc = "free" /\ ~s.broken
Incident(wakeups) ==
  /\ count.incidents < MaxIncidents
  /\ count' = [count EXCEPT !.incidents = @ + 1, !.wakeups = @ + wakeups]
Application == <<commands, app, results, signal, told>>

\* History: a SELECT begins.
LogSelect ==
  log' = IF s'.pc = "object" /\ s'.current.fc = "SELECT"
           THEN Append(log, Note("SELECT", s'.current.id, 0, "none")) ELSE log

---------------------------------------------------------------------------
(* What reaches the stack while it handles no request *)

\* Requests may be lost before one is received; which number the first has does not matter.
NewRequest ==
  /\ Free /\ s.state # "Closed" /\ count.requests < MaxRequests
  /\ \E fc \in Functions, lost \in IF last.id = 0 THEN {0} ELSE Skips :
     \E objs \in IF fc = "OTHER" THEN {<<>>} ELSE Lists :
       last' = [id |-> last.id + 1 + lost, fc |-> fc, objs |-> objs]
  /\ s' = OnRequest(s, last')
  /\ LogSelect
  /\ count' = [count EXCEPT !.requests = @ + 1]
  /\ UNCHANGED Application

\* The master repeats its request, on the connection on which it sent it.
RepeatRequest ==
  /\ Free /\ s.state # "Closed"
  /\ s.heard # -1
  /\ s' = OnRequest(s, last)
  /\ LogSelect /\ Incident(0)
  /\ UNCHANGED <<Application, last>>

\* OnSolSendSuccess or OnSolFailure: they differ in nothing that matters here. A request
\* that AS_WaitForRspSuccess deferred has canceled the response, which then fails.
ResponseEnds ==
  /\ Free
  /\ \/ s.state = "WaitForRspSuccess" /\ s' = FlushRequest([s EXCEPT !.state = "Idle"])
     \/ s.state = "WaitForSolUnsolSuccess" /\ s' = [s EXCEPT !.state = "WaitForUnsolSuccess"]
  /\ LogSelect
  /\ UNCHANGED <<Application, last, count>>

\* There are events to report.
SendUnsolicited ==
  /\ Free /\ s.state = "Idle"
  /\ s' = [s EXCEPT !.state = "WaitForUnsolSuccess"]
  /\ Incident(0)
  /\ UNCHANGED <<Application, last, log>>

UnsolEnds ==
  /\ Free
  /\ \/ s.state = "WaitForUnsolSuccess" /\ s' = FlushRequest([s EXCEPT !.state = "Idle"])
     \/ s.state = "WaitForSolUnsolSuccess" /\ s' = [s EXCEPT !.state = "WaitForRspSuccess"]
  /\ LogSelect
  /\ UNCHANGED <<Application, last, count>>

\* What was deferred is kept, and handled first on the next connection.
OnLowerLayerUp ==
  /\ Free /\ s.state = "Closed"
  /\ s' = FlushRequest([s EXCEPT !.state = "Idle"])
  /\ LogSelect
  /\ UNCHANGED <<Application, last, count>>

\* The channels are reset, the selections are not.
OnLowerLayerDown ==
  /\ Free /\ s.state # "Closed"
  /\ s' = [s EXCEPT !.state = "Closed", !.heard = -1]
  /\ Incident(0)
  /\ UNCHANGED <<Application, last, log>>

\* A selection that is more than mSelectTimeout old
Aged(sel) == [sel EXCEPT !.old = @ \/ sel.on]

\* More than mSelectTimeout passes.
Elapse ==
  /\ \E p \in Points : s.select[p].on /\ ~s.select[p].old
  /\ s' = [s EXCEPT !.select = [p \in Points |-> Aged(s.select[p])]]
  /\ log' = Append(log, Note("elapsed", 0, 0, "none"))
  /\ UNCHANGED <<Application, last, count>>

---------------------------------------------------------------------------
(* RespondToCommands: one object after the other *)

Upcoming == s.current.objs[Len(s.out) + 1]
More == s.pc = "object" /\ Len(s.out) < Len(s.current.objs)

\* The limit is on the objects of one header.
Handled == Upcoming.place \in 1..MaxControls

Bound == Upcoming.point \in Points

\* The next object is answered with status; select is that of the points then.
Answer(select, status, sequence) ==
  s' = [s EXCEPT !.select = select, !.sequence = sequence,
                 !.iin = @ \cup Bits(status), !.out = Append(@, Status(status, 0))]

\* HandleSelect, HandleOperate and HandleDirectOperate: a header of another group
PassOver ==
  /\ More /\ Upcoming.place = 0
  /\ Answer(s.select, "nothing", s.sequence)
  /\ UNCHANGED <<Application, last, count, log>>

RefuseObject ==
  /\ More /\ Upcoming.place > MaxControls
  /\ Answer(s.select, "TOO_MANY_OPS", s.sequence)
  /\ UNCHANGED <<Application, last, count, log>>

\* DNPCommandMaster::Select
SelectObject ==
  /\ More /\ Handled /\ s.current.fc = "SELECT"
  /\ IF Bound /\ Modes[Upcoming.point] # "DO_ONLY"
       THEN /\ Answer([s.select EXCEPT ![Upcoming.point] =
                         [on |-> TRUE, old |-> FALSE, seq |-> SequenceOf(s.current),
                          value |-> Upcoming.value]],
                      "SUCCESS", s.sequence)
            /\ log' = Append(log, Note("selected", s.current.id, Upcoming.point, Upcoming.value))
       ELSE /\ Answer(s.select, "NOT_SUPPORTED", s.sequence)
            /\ UNCHANGED log
  /\ UNCHANGED <<Application, last, count>>

\* Mutant of Matches: the sequence is not compared.
MatchesAnySequence(sel, r, o) == sel.value = o.value

Matches(sel, r, o) == SequenceOf(r) = (sel.seq + 1) % 16 /\ sel.value = o.value

\* What refuses an object of an OPERATE or DIRECT_OPERATE before it reaches the application
Refusal ==
  IF ~Bound THEN "NOT_SUPPORTED"
  ELSE LET sel == s.select[Upcoming.point] IN
       IF s.current.fc # "OPERATE"
         THEN IF Modes[Upcoming.point] = "SBO_ONLY" THEN "NOT_SUPPORTED" ELSE "none"
       ELSE IF ~sel.on THEN "NO_SELECT"
       ELSE IF sel.old THEN "TIMEOUT"
       ELSE IF ~Matches(sel, s.current, Upcoming) THEN "NO_SELECT" ELSE "none"

Deselect(select, p) == [select EXCEPT ![p] = Unselected]

Operating == More /\ Handled /\ s.current.fc \in Functions \ {"SELECT", "OTHER"}

\* A selection that is too old stays; one that does not match is dropped.
RefuseOperate ==
  /\ Operating /\ Refusal # "none"
  /\ Answer(IF Bound /\ s.current.fc = "OPERATE" /\ ~s.select[Upcoming.point].old
              THEN Deselect(s.select, Upcoming.point) ELSE s.select,
            Refusal, s.sequence + 1)
  /\ UNCHANGED <<Application, last, count, log>>

\* The command is handed to the application; CommandQueue::AcceptCommand.
OperateObject ==
  /\ Operating /\ Refusal = "none"
  /\ s' = [s EXCEPT !.select = Deselect(@, Upcoming.point), !.sequence = @ + 1, !.pc = "find"]
  /\ commands' = Append(commands, [sequence |-> s.sequence + 1])
  /\ log' = Append(log, Note(IF s.current.fc = "OPERATE" THEN "operated" ELSE "direct",
                             s.current.id, Upcoming.point, Upcoming.value))
  /\ UNCHANGED <<app, results, signal, told, last, count>>

\* The response is sent, unless the request wants none, and the request is remembered.
FinishRequest ==
  /\ s.pc = "object" /\ ~More
  /\ s' = [Respond(s, s.out) EXCEPT
             !.broken = @ /\ s.current.fc # "DIRECT_OPERATE_NO_ACK"]
  /\ UNCHANGED <<Application, last, count, log>>

---------------------------------------------------------------------------
(* CommandResponseQueue *)

\* Mutant of IsFor: the first response is taken.
IsForAny(rsp, sequence) == TRUE

IsFor(rsp, sequence) == rsp.sequence = sequence

\* FindResponse: what is in front of the response is thrown away, and everything if it is
\* not there.
Found(sequence) == \E i \in DOMAIN results : IsFor(results[i], sequence)
Position(sequence) == SelectInSeq(results, LAMBDA rsp : IsFor(rsp, sequence))
Return(status) ==
  s' = [s EXCEPT !.pc = "object", !.out = Append(@, Status(status, s.sequence))]

TakeResponse ==
  LET i == Position(s.sequence) IN
  /\ Found(s.sequence)
  /\ results' = SubSeq(results, i + 1, Len(results))
  /\ Return(results[i].status)

\* Mutant of ThereBefore: WaitForResponse waits without looking.
NotLookedFor(sequence) == FALSE

ThereBefore(sequence) == Found(sequence)

\* WaitForResponse: the response may be there already.
WaitForResponse ==
  /\ s.pc = "find"
  /\ \/ ThereBefore(s.sequence) /\ TakeResponse
     \/ ~ThereBefore(s.sequence) /\ results' = <<>> /\ s' = [s EXCEPT !.pc = "wait"]
  /\ signal' = FALSE
  /\ UNCHANGED <<commands, app, told, last, count, log>>

\* Wait returns, for a signal or without one, and there is no second wait.
WakeUp ==
  /\ s.pc = "wait"
  /\ \/ signal /\ UNCHANGED count
     \/ ~signal /\ Incident(1)
  /\ \/ TakeResponse
     \/ ~Found(s.sequence) /\ results' = <<>> /\ Return("HARDWARE_ERROR")
  /\ signal' = FALSE
  /\ UNCHANGED <<commands, app, told, last, log>>

---------------------------------------------------------------------------
(* The application's thread *)

\* ExecuteCommand: the next command is read from the queue.
ReadCommand ==
  /\ app = <<>> /\ commands # <<>>
  /\ app' = <<Head(commands)>>
  /\ commands' = Tail(commands)
  /\ UNCHANGED <<s, results, signal, told, last, count, log>>

\* Mutant of Signals: nobody is signalled.
SignalsNobody == FALSE

\* Signal wakes a thread that waits now, and no later one.
Signals == s.pc = "wait"

\* HandleControl returns, and AcceptResponse puts its status in front of the queue.
AcceptResponse ==
  /\ app # <<>>
  /\ \E status \in Outcomes :
       /\ results' = <<[sequence |-> app[1].sequence, status |-> status]>> \o results
       /\ told' = told \cup {Status(status, app[1].sequence)}
  /\ signal' = Signals
  /\ app' = <<>>
  /\ UNCHANGED <<s, commands, last, count, log>>

---------------------------------------------------------------------------
Handler ==
  \/ PassOver \/ RefuseObject \/ SelectObject \/ RefuseOperate \/ OperateObject \/ FinishRequest
  \/ WaitForResponse \/ WakeUp
ApplicationThread == ReadCommand \/ AcceptResponse

Next ==
  \/ NewRequest \/ RepeatRequest \/ ResponseEnds \/ SendUnsolicited \/ UnsolEnds
  \/ OnLowerLayerUp \/ OnLowerLayerDown \/ Elapse
  \/ Handler \/ ApplicationThread

Spec == Init /\ [][Next]_vars

\* The thread of the stack goes on, and the application executes the commands it is
\* notified of (ICommandSource in CommandInterfaces.h).
FairSpec == Spec /\ WF_vars(Handler) /\ WF_vars(ApplicationThread)

---------------------------------------------------------------------------
(* Properties *)

Statuses == Outcomes \cup {"SUCCESS", "NOT_SUPPORTED", "TOO_MANY_OPS", "NO_SELECT", "TIMEOUT",
                           "HARDWARE_ERROR", "nothing"}
Bit == {"PARAMETER_ERROR", "FUNC_NOT_SUPPORTED"}
Selection == [on : BOOLEAN, old : BOOLEAN, seq : 0..15, value : Values \cup {"none"}]

\* The types of the state of Slave, of the selections and of the two queues
TypeOK ==
  /\ s.state \in States /\ s.pc \in {"free", "object", "find", "wait"}
  /\ s.deferred \in BOOLEAN /\ s.reqPrev \in BOOLEAN /\ s.broken \in BOOLEAN
  /\ {s.request, s.last, s.current, last} \subseteq Request
  /\ s.heard \in -1..15 /\ s.sequence \in Nat /\ s.author \in Nat /\ s.iin \subseteq Bit
  /\ s.select \in [Points -> Selection]
  /\ \A a \in s.answers : \A k \in DOMAIN a.out : a.out[k] \in [status : Statuses, sequence : Nat]
  /\ Len(app) <= 1 /\ signal \in BOOLEAN

\* The two threads agree: while the stack handles nothing, no command waits for the
\* application and no answer of it is left for a later command, and the stack waits for the
\* one command that is under way. Each return of Wait without a signal may leave one behind.
ThreadsAgree ==
  LET under == Len(commands) + Len(app) + Len(results) IN
  /\ s.pc = "free" => under <= count.wakeups
  /\ s.pc = "find" /\ count.wakeups = 0 => under = 1
  /\ s.pc = "wait" /\ count.wakeups = 0 => under = 1 /\ (signal <=> results # <<>>)

\* The handler, its queues and the application keep their types and agree on what is under
\* way (Slave::Operate, CommandQueue and CommandResponseQueue).
Consistent == TypeOK /\ ThreadsAgree

\* What an OPERATE hands to the application was selected by the last SELECT, with the same
\* value, under the sequence before, within the timeout, and not used since, whatever was
\* lost, repeated, deferred or left over from an earlier connection.
OperatesSelected ==
  \A j \in DOMAIN log : log[j].kind = "operated" =>
    \E i \in 1..(j - 1) :
      /\ log[i].kind = "selected" /\ log[i].point = log[j].point /\ log[i].value = log[j].value
      /\ (log[j].id - log[i].id) % 16 = 1
      /\ \A k \in (i + 1)..(j - 1) : log[k].kind \notin {"SELECT", "elapsed"}
                                    /\ log[k].point # log[j].point

\* An OPERATE that is repeated gets the objects that it got before, or would have got. What
\* is taken for a repetition is an OPERATE equal to the one that was handled last, with its
\* objects and its sequence: the same one, or a new one that comes after a multiple of
\* sixteen, which gets the answer of the other and is not executed.
RetryAnsweredAlike ==
  /\ \A a, b \in s.answers :
       a.request = b.request /\ a.request.fc = "OPERATE" => a.out = b.out
  /\ \A a \in s.answers : a.again =>
       \E b \in s.answers : /\ ~b.again /\ b.request.id = a.author /\ b.out = a.out
                            /\ SameAPDU(a.request, b.request) /\ a.request.fc = "OPERATE"
  /\ \A a \in s.answers : ~a.again => a.author = a.request.id

\* The status of a command is what the application returned for that command, never what
\* it returned for another. If Wait returned without a signal it may be HARDWARE_ERROR.
StatusIsOutcome ==
  \A a \in s.answers : \A k \in DOMAIN a.out :
    a.out[k].sequence # 0 =>
      \/ a.out[k] \in told
      \/ a.out[k].status = "HARDWARE_ERROR" /\ count.wakeups > 0

\* A response says that an object was refused, or a header passed over, exactly if one was;
\* that to a repetition says it of none, since DoRequest clears the bits and HandleOperate
\* does not set them again.
ErrorsReported ==
  \A a \in s.answers : \A b \in Bit :
    b \in a.iin <=> ~a.again /\ \E k \in DOMAIN a.out :
                       a.out[k].sequence = 0 /\ b \in Bits(a.out[k].status)

\* A response tells the master what became of the commands of its request, however often it
\* asks (Slave::HandleOperate, CommandResponseQueue), with two exceptions: the bits of a
\* repetition, and an equal OPERATE sixteen requests later.
AnswersAreTrue == RetryAnsweredAlike /\ StatusIsOutcome /\ ErrorsReported

\* A request is answered once the application has executed its commands.
RequestEnds == s.pc # "free" ~> s.pc = "free"

\* "wait forever on a response from user space" (Slave.h): no command is answered that the
\* application has not executed.
WaitsForUser ==
  \A a \in s.answers : \A k \in DOMAIN a.out :
    a.out[k].sequence # 0 => \E t \in told : t.sequence = a.out[k].sequence

\* "The maximum number of controls the slave will attempt to process from a single APDU"
\* (SlaveConfig.h)
ControlsPerAPDU ==
  \A a \in s.answers :
    Cardinality({k \in DOMAIN a.out : a.out[k].status \notin {"TOO_MANY_OPS", "nothing"}})
      <= MaxControls

\* "4.4.3 rule 3" (Slave.h): a SELECT of too many controls selects nothing.
TooManySelectsNothing ==
  s.pc = "free" /\ s.last.fc = "SELECT"
    => \/ \A k \in DOMAIN s.response : s.response[k].status # "TOO_MANY_OPS"
       \/ \A p \in Points : ~s.select[p].on
=============================================================================
