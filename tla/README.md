# Verification of the OpenDNP3 stack

TLA+ models of the DNP3 protocol stack in `src/opendnp3`, the TLC configurations that check
them on small instances, and TLAPS proofs of the main properties of the link layer, the
application layer, the event buffers, the outstation and its controls, the transport function, the
master, the physical layer's monitor and the router, for every value of their constants.
`PROJECT.json` lists the components, the runs, the mutants, the source lines of every definition
(`map`), the findings, the hazards and the theorems.

    tlc -workers 2 -config MCLinkLayer.cfg MCLinkLayer      # a run
    tlapm LinkLayerProofs.tla                               # the proofs

## 1. The system

A DNP3 *master* polls an *outstation* (`Slave`) for data and events and sends it commands; an
outstation may also report events on its own (*unsolicited responses*). Each has a stack of
layers, one object per layer, which call each other: downwards `Send`, upwards `OnReceive` and,
exactly once per `Send`, `OnSendSuccess` or `OnSendFailure`; `OnLowerLayerUp` and
`OnLowerLayerDown` run through the stack when the connection comes and goes
(`APL/AsyncLayerInterfaces.h`). A stack runs on one thread, the I/O service's; callbacks nest,
and only user code (updates, commands, stack management) comes from other threads, through
posted calls. Several stacks may share a physical line.

| Part | State it keeps | Operations | What is hard, and what makes it correct |
|---|---|---|---|
| Data link layer (`LinkLayer`, `PriLinkLayerStates`, `SecLinkLayerStates`) | online flag, primary and secondary state, timer, retries left, frame count bits to read and write, the frame to repeat | send confirmed or unconfirmed, one handler per function code and state, timeout, up, down | Frames and acknowledgements get lost, acknowledgements are unnumbered, either end restarts alone. A payload is delivered at most once and in order, each send ends, the timer agrees with the state. |
| Transport function (`TransportLayer`, `TransportTx`, `TransportRx`, `TransportStates`) | state, sequence and position in the transmitted and the received fragment | send, segment sent, segment received, up, down | Lost segments, restarts in the middle of a fragment. What is reassembled is what was sent, never a mixture of two fragments. |
| Application layer (`AppLayer`, `AppLayerChannel`, `AppChannelStates`, `SolicitedChannel`, `UnsolicitedChannel`) | a send queue with its flags; per channel the state, sequence, timer, retries, fragment | send request, response, unsolicited; cancel; result of a send; one handler per kind of fragment received; timeout; up, down | Two channels and confirmations share one transmitter; answers overtake send results, are late or are repeated, with four bits to tell them apart. Responses answer the request asked, requests are executed once, unsolicited responses are reported once, each transaction ends. |
| Event buffers (`EventBufferBase`, `EventBuffers`, `BufferSetTypes`, `ClassCounter`) | the set of events, the selection, the sequence, a counter per class, the overflow flag | update, select, write, clear written, deselect, overflow query | Events are selected while others replace or displace them. Each event is in one place, counters are exact, the order is kept. |
| Outstation (`Slave`, `SlaveStates`, `ResponseContext`, `SlaveEventBuffer`, `Database`) | state, deferred requests, updates and expirations, the timer of unsolicited responses, the response in progress, change buffer, database | a handler per state for requests, updates, timer and outcomes | Handlers defer work and flush it from nested callbacks; solicited and unsolicited responses share one response context. Callbacks fit the state, an event is erased only when confirmed, and no event or request is stuck. |
| Master (`Master`, `MasterStates`, `MasterSchedule`, `DataPoll`, `StartupTasks`, `ControlTasks`, `VtoTransmitTask`) | state, the current task, the startup and periodic tasks, IIN bits | tasks started by the scheduler, responses, failures, unsolicited data | Loss of the connection in any state. Each task ends or is retried, and none blocks the others. |
| Task scheduler (`AsyncTaskGroup` and its tasks) | per task: enabled, running, expired, priority, dependencies, next run | enable, disable, complete, timer | Completion, dependencies and disabling in any order. One task runs at a time, and one that is due runs. |
| Command execution (`DNPCommandMaster`, `CommandQueue`, `CommandResponseQueue`) | what is selected at each point, the queue of commands, the queue of responses with its condition variable | accept a command, select, operate, execute, answer, wait | Two threads that wait for each other, repeated and deferred requests, a lost connection. Only what was selected is operated, each command gets one answer, and it is its own. |
| Virtual terminal (`VtoWriter`, `VtoReader`, the `VtoRouter` family) | queues of bytes, flow control flags, the state of the local port | write, read, flush, open, close | A byte stream over event buffers. No byte is lost or reordered; a stopped writer is restarted. |
| Link routing and framing (`LinkLayerRouter`, `LinkLayerReceiver`, `LinkRoute`, `LinkFrame`, `DNPCrc`) | routes, transmission queue, receive buffer and state | add and remove a stack, transmit, receive bytes | Stacks share a line. Frames go to their stack; the receiver finds the next frame after garbage. |
| Physical layers (`PhysicalLayerAsyncBase`, `PhysicalLayerMonitor` and their states) | open, opening, closing, reading, writing; monitor state and open timer | open, close, read, write, suspend, start, stop | Closing while operations are outstanding. Every operation ends; the monitor reopens. |
| Stack management (`AsyncStackManager`, stacks, `IOServiceThread`, timers) | channels, stacks, ports, threads | add and remove from other threads, stop | Threads and teardown order. |
| Data changes and observers (`ChangeBuffer`, `PostingNotifier`, `FlexibleDataObserver`, `EventLock`) | buffered changes by type, the lock, the posted calls | start, update, end, notify, flush, clear | User threads commit while the stack is busy or flushes, and a flush may throw. What is committed is applied once, in order, as a whole, and in the end. |
| Messages and objects (`APDU`, `ObjectHeader`, iterators, `ResponseLoader`) | none | parse, format | Data only. |
| Logging | log entries | log | Nothing depends on it. |

How the layers of a stack interact, which is the core of the system:

    Master                                       Slave + ResponseContext + event buffers
      | Send, Cancel / OnSolSendSuccess, ...       |
    AppLayer (solicited, unsolicited)            AppLayer (solicited, unsolicited)
      | one fragment at a time                     |
    TransportLayer                               TransportLayer
      | one segment at a time                      |
    LinkLayer (primary, secondary)  == line ==   LinkLayer (primary, secondary)
      | frames of several stacks                   |
    LinkLayerRouter, a PhysicalLayerMonitor      LinkLayerRouter, a PhysicalLayerMonitor
      | one read and one write at a time           |
    PhysicalLayerAsync  ======= bytes ========   PhysicalLayerAsync

## 2. The modules

| Module | Models | Status |
|---|---|---|
| `LinkService` | the abstract specification of a data link | complete |
| `LinkLayer` | the link layers of two stations and the line | complete |
| `LinkLayerProofs` | theorems of `LinkLayer`, the refinement of `LinkService` among them | every safety property of its run |
| `AppLayer` | the application layers of two stations and the line of fragments | complete |
| `AppLayerProofs` | theorems of `AppLayer` | types, queue, channels and users, what the users are told |
| `EventBuffer` | one event buffer of any of the three kinds | complete |
| `EventBufferProofs` | theorems of `EventBuffer` and of `Updates`, which fills it | every property of its passing run; every invariant of that of `Updates` |
| `Slave` | the outstation with its response context | without data and controls, see section 7 |
| `SlaveProofs` | theorems of `Slave` | every invariant of its run |
| `Transport` | the transport functions of two stations over the service of a link | complete |
| `TransportProofs` | theorems of `Transport`, the refinement of `LinkService` among them | all four of its properties |
| `Master` | the master, its task scheduler and its command queue | without the data |
| `MasterProofs` | theorems of `Master` | every safety property of its run |
| `Connection` | operators: a physical layer's flags and its monitor's states | complete |
| `Monitor` | a connection with an owner that asks for anything: the abstract specification of `Router` | complete |
| `Receiver` | operators: the receiver that finds frames in the bytes of a line | complete |
| `Router` | a port: the router, its stacks, its receiver, the connection and the user's thread | complete |
| `RouterProofs` | theorems of `Monitor`, `Router` and `Vto`, the refinement of the first by the second among them | every safety property of their runs but `ReceiverFollowsPeer` |
| `Vto` | the two ends of a tunnel for a byte stream | one channel |
| `Controls` | controls at the outstation, from the request to the application's thread and back | complete |
| `ControlsProofs` | theorems of `Controls` | every invariant of its passing run |
| `Updates` | data from the user's threads to the outstation's database and event buffer | complete |

How they compose: `Transport` takes from `LinkService` what it assumes of each link and gives the
same service for fragments, so the line of `AppLayer` rests on `LinkService` too. `Router` and `Vto`
both own a `Connection`; what `RouterProofs` shows of every owner holds of `Router` because
`RouterProofs` shows that it is one, and the routers of `Vto` rest on the same lemmas. `Slave` and
`Master` each stand on what `AppLayer` promises its user. `Controls` and `Updates` each take the
states of `Slave` as far as they decide when a request is handled, deferred or repeated and when an
update is flushed or deferred, and open up what `Slave` leaves out: the objects of a request and the
other thread that executes them; the change by change application of what other threads commit.

Each `MC` module extends the module it is named after and defines the constants that a
configuration cannot write (functions, records).

### LinkLayer and LinkService

The two stations of a link, each with both state machines. `pri` and `sec` are `mpPriState` and
`mpSecState`, `readFCB` and `writeFCB` the frame count bits, `retry`, `timer`, `delayed` and
`online` the members of `LinkLayer` they are named after. `line[p]` holds the frames from `p`
that the other station has not read; a frame is its function code, its frame count bit and the
operation its payload belongs to. That last number is not on the wire and no handler looks at
it: properties count with it.

There is one action per handler and state that has one: `SendConfirmedNotReset` is
`PLLS_SecNotReset::SendConfirmed`, `AckOfReset` is `PLLS_ResetLinkWait::Ack`, `OnTimeout` covers
`LinkLayer::OnTimeout` with the two states it may find, and so on. An answer that arrives during
the handling of a frame is part of that action (`ConsumeAndTransmit`). `LoseFrame` loses any
frame, at the head of the line; a frame transmitted to a station that is offline, or on a full
line, is lost at once. `OnLowerLayerDown` resets what the code resets and keeps what it keeps:
the frame count bits, the retries and the delayed frame.

`LinkLayer` itself never sends `TestLinkStatus`, `RequestLinkStatus`, `Nack` or `NotSupported`,
but handles them. A station in `Foreign` stands for another vendor's stack that does send them.

`LinkService` is what the layers above rely on: in each direction payloads arrive at most once
and in order, perhaps not at all, and an operation is over before the next one starts.
`ImplementsService` is the refinement: `sent`, `busy` and `delivered` of `LinkLayer` are the
variables of the service.

History variables: `sent`, `delivered`, `confirmed` (what was reported as sent because of an
acknowledgement) and `late` (the station gave up waiting while an answer could still come).

### AppLayer

Both stations, each with a solicited and an unsolicited channel (the pairs in `Channels`) and the
shared transmitter (`queue`, `sending`, `confirmSending`). `state`, `seq` (-1 before the first
fragment), `timer`, `retry` and `apdu` are those of `AppLayerChannel`. The transport functions
and links in between are a line that keeps the order of fragments, loses some and never
duplicates one, which is what `LinkService` grants; the result of a `Send` may come at any
time, before or after the other side has read, answered or confirmed the fragment, and may be
a failure although the fragment arrived.

The actions are those of the users (`SendRequest`, `SendResponse`, `SendUnsolicited`,
`CancelResponse`, `CancelUnsolicitedRetries`), the results of a send (`ConfirmSent`,
`OnSendSuccess`, `OnSendFailure`: `AppLayer::OnSendResult` with the handler of the channel's
state and, in the same step, `CheckForSend`), the timer, and one per kind of fragment read.
`Flood` is the exception that `QueueConfirm` throws. The users behave as `Master` and `Slave` do:
one transaction per channel, the outstation answers the last request it was given (`asked`).

### EventBuffer

One buffer; its `kind` is chosen in the first state and never changes. `events` and `selected` are
`mEventSet` and `mSelectedEvents` with their order expressed by `Before` and `at`; `sequence`,
`counter` and `overflown` are the members of those names. `Update`, `Select`, `ClearWrittenEvents`,
`Deselect` and `IsOverflown` are the operations, and `Write` is the part of
`ResponseContext::LoadEvents` that marks events as written. `reported`, `dropped` and `superseded`
record where an event went.

### Slave

`s` is the whole outstation as a record: the members of `Slave`, of `ResponseContext`, the events,
and what `Slave` can know of its two channels. It is one record because the callbacks nest: each
`Slave::On...` ends with `FlushDeferredEvents`, which may run other handlers; these may send, and
`CancelResponse` may call `OnSolFailure`, with a flush of its own, before it returns. So each
handler of the code is an operator from records to records of the same name (`OnRequest`,
`IdleOnDataUpdate`, `DoRequest`, `ClearWritten`, `LoadEvents`, ...) and an action applies one of
them to `s`. An assertion or an uncaught exception sets `error`, and nothing happens afterwards.

Updates come from the user's threads: `UpdatePoint` puts them into the change buffer and posts
`OnDataUpdate`, which `RunDataUpdate` runs. `config` is every combination of the settings that the
state machine branches on. Events have one type and one class, each newer than the one before;
`EventBuffer` has the rest. Events and static objects take one unit of a fragment each. `executed`,
`acknowledged` and `overwritten` are history: the WRITEs that were carried out, those that were
answered, and those that were deferred and gave way to their own repetition (`Overwrite`), which
`mSeqInfo` then calls a repetition of something done.

### Transport

Both stations with `mpState`, the sequence and the rest of `TransportTx`, and the sequence, the
count and the buffer of `TransportRx`. A byte is a unit of length; a segment carries its two flags,
its sequence and how many bytes. The link below is `LinkService` with the outcome of each
operation: a station in `Confirming` is told of success or failure later, perhaps because of a
stale acknowledgement (`MaxStale`; what `LinkLayer` calls `late`), the others within the call, so
that a fragment leaves in one step. A foreign station also sends segments that `TransportTx`
never forms. `cut` names the fragments during which the receiver lost its lower layer.

### Master

Master, scheduler and command queue are one module because they call each other: what remains of the
call in progress is `todo`, and no other call begins before it is empty. The tasks are those of
`MasterSchedule::Init` with one event scan; `LessThan` and `MaxElement` are the comparison of
`AsyncTaskBase` and the choice of `AsyncTaskGroup::GetNext`, which is not transitive and so depends
on the order of `mTaskVec` (`Greater` is one comparison of `std::max_element`). Times are ticks
until a task is due, so nothing grows. `posted` holds the calls of `Enable` which the notifiers of
the queues have posted from the user's threads. An exception ends the call; one that nothing catches
ends the thread (`escaped`). The data of a poll may throw one (`PollThrows`): the application layer
catches it when the channel is idle already, and nobody ends the task.

### Connection, Monitor, Receiver and Router

`PhysicalLayerMonitor` and `PhysicalLayerAsyncBase` call each other before they return: a request
may close the layer, whose callback may change the state, which may open the layer again. So a
connection is a record and every operation of `Connection` maps it to the next one. The fifteen
states are one variable; a request is a table from states to states (`OnStartRequest`, ...), with
what the handlers do to the layer (`Starting`, `Stopping`). An exception or assertion is recorded
in `bad`. `Monitor` closes the system with an owner that asks for anything at any time.

`Router` is `LinkLayerRouter` with its stacks: `bound` is `mAddressMap`, `stacks` is `mStackMap`,
`queue` is `mTransmitQueue`. There are two threads. The io_service runs the callbacks; the
application adds and removes stacks and removes the port (`AsyncStackManager`), each time between
`_Start` and `_End` of `SuspendTimerSource`, whose lock, flags and posted calls of `Pause` are
modelled step by step. `GoDown` is what the contexts are told when the layer closes, with the
exception that leaves some of them out. `RemoveContext` leaves the frames of the stack in the queue
(`"orphaned"` in `fault`); when such a frame has been written, `OnSendSuccess` does not find its sender
(`"unbound"`), and goes on as a build without assertions does.

`Receiver` is `LinkLayerReceiver` with its three states, `OnRead` its loop over `Parse`. Bytes come in
halves of the blocks that have a CRC of their own, each known by its frame and position: that
is what the sync pattern, the CRCs, the announced length and the function code can tell apart. `wire`
in `Router` is what the peer has still to send of a frame; a read returns any part of it, perhaps
with the beginning of the next frame, and noise may damage a unit. `leftover` and `behind` are
history: what the receiver has kept of an earlier connection, and for how long it has been out
of step with the peer.

### Vto

The two `EnhancedVtoRouter`s of a tunnel with their connections, each a record for the reason
above, their writers, and the objects their stacks have taken. Data passes through four queues,
each with a rule of its own for room and for flushing; messages about connections share the
queues with it. `Transfer` hands the objects of a fragment to the other side, perhaps twice; `Drop` is
a fragment that the other stack confirms or answers and does not pass on, because its master no longer
waits for the response or its outstation takes the transfer for one it has handled. What a chunk throws
ends the fragment, not the thread (`Leaves`, as `AppLayer::_OnReceive` catches it); what a callback of
the layer throws ends the thread (`dead`). The client's open may fail at once (`"unresolved"`); the
server binds its port again for each connection, which may be refused by an exception (`Ways`).
`CheckForVtoWrite` passes on at once what its calls of itself pass on one by one (`Moved`). A request
that fails or closes the connection calls back before it returns: `Down` is that callback. It makes
requests in its turn, and `TooDeep` marks one that would call back again as an error; `Consistent`
says that there is none, so the nesting ends there. `VtoSpec` and its parts have names of their own,
because one module has the proofs of `Router` and of `Vto`.

### Controls

The record `s` is what the thread of the stack owns: the state and deferred request of `Slave`, its last
request and response, the selections of `DNPCommandMaster` (`select`), and where the handler of a
control is (`pc`). A request is handled object by object, one action each: `SelectObject`,
`RefuseOperate`, `OperateObject` are the branches of `Select`, `Operate` and `DirectOperate`,
`RefuseObject` the limit of `RespondToCommands`, `PassOver` a header whose objects are no controls. An
answer is its objects and the bits that these set in `mRspIIN` (`iin`, `Bits`); one to a repetition
(`again`) sends the objects of another answer, whose request is its `author`. `OperateObject` puts the
command into `commands` (`CommandQueue`) and the stack blocks; `ReadCommand` and `AcceptResponse` are
the application's thread, whose command is `app`, and `results` is `CommandResponseQueue`.
`WaitForResponse` looks and starts to wait under one lock, `WakeUp` is the return of `Wait`, for the
`signal` or, as a condition variable may, without one. A request carries its number, of which its
sequence is the last four bits, so that a property can tell two requests with one sequence apart;
`Skips` are losses in a row that make the sequence wrap. A selection grows `old` when more than the
time-out passes.

### Updates

`Commit` is a transaction of a user's thread, between `_Start` and `_End`, in one step since it holds
the lock; `Notify`, the call posted after the lock is released, is another. `queue`, `lock` and `vto`
are `ChangeBuffer` and `VtoWriter`, `calls` counts threads that have not notified yet and posted calls.
The record `io` is the stack's thread: the state of `Slave`, `mDeferredUpdate` and where
`FlushUpdates` is. `ApplyChange` is one `_Update` of the database, with the test for an event;
`Throw` is its exception, `Catch` the handler in `Slave::FlushUpdates`; `LookForVto` and
`FlushVtoUpdates` are the two looks at the VTO writer, between which its user may write. `ChangeBuffer`
has a queue for each type of point, so a transaction is a function from types to changes, and `pos`
counts what a flush has applied of each type. `log` has what was committed and applied of each type
and the last event of each point, which the properties compare. The names of the specification and
its parts say what they are of (`UpdatesSpec`, `BuffersTypeOK`, ...), because one module has the proofs
of `EventBuffer` and of `Updates`.

## 3. The runs

| Run | Configuration | What it shows |
|---|---|---|
| `link` | `MCLinkLayer.cfg` | payloads arrive at most once and in order; a payload reported as sent has arrived unless its sender gave up too early once (`SuccessMeansDelivered`); every send ends; `LinkService` is implemented |
| `transport` | `MCTransport.cfg` | what is reassembled is one whole fragment if the link confirms, and if it does not, except after the sequence wraps; what was reported as sent was received; the buffers are never overrun; `LinkService` is implemented for fragments |
| `app_poll` | `MCAppPoll.cfg` | queue, channels and users agree; no late answer is taken for the answer to another request, no response is reported twice, and what was reported as answered was handled |
| `app_unsol` | `MCAppUnsol.cfg` | unsolicited responses that cross a poll are reported at most once and in order, and handled when they are confirmed; every transaction ends |
| `event_buffer` | `MCEventBuffer.cfg` | the sequence follows the updates although it restarts; each update is in exactly one place; VTO data is never displaced |
| `slave` | `MCSlave.cfg` | the state follows the channels through nested callbacks; no event is lost, duplicated, erased without confirmation or left without a timer; requests are executed once at most, and before they are answered unless their repetition overwrote them; they are answered under their own sequence, and deferred for ever only by updates |
| `master` | `MCMaster.cfg` | one task at a time, the one the scheduler runs; each command is answered once at most and operated only after its own selection; the startup sequence keeps its order through failures, restarts of the outstation and losses of the link; a master that waits has something to wait for, and a command accepted is answered, unless the task of the commands was left running or the data of a poll threw |
| `router` | `MCRouter.cfg` | the application and the io_service exclude each other; the monitor's state fits its layer and no event is out of place; stacks, queue and layer agree, and the frames that wait are those of bound stacks unless a stack was removed with a frame in the queue; the receiver passes on what was sent, and after noise or a reconnection is in step again within two frames; the port refines `Monitor`; the wait for a shutdown ends |
| `vto` | `MCVto.cfg` | the routers fit their layers, but for a server that cannot bind its port again; chunks keep their order while no fragment is repeated; the device sees what one application sent, from its beginning and without a gap, while none is repeated or answered without being passed on |
| `controls` | `MCControls.cfg` | the two threads agree on what is under way; only what the last SELECT selected is operated; a repeated OPERATE gets the objects of the first, without its error bits; the status of a command is its own; a request is answered once its commands are executed |
| `updates` | `MCUpdates.cfg` | whatever is buffered has something that will flush it; changes are applied once and in order; no transaction is seen in part unless a flush threw; a value that drifts is reported; what is committed is flushed |
| `app_confirm_stale` | `MCAppConfirmStale.cfg` | a disagreement of the code with its own comment, see section 6 |

Each property of a passing run has a mutant: a plausible mistake in one definition (a dropped
guard, a missing reset, a count without end) for which TLC finds the property violated under the
same configuration.

### Bounds

Bounds are constants that appear only in guards, and their comments say so. When they are used up
the system stops, so the runs do not check for deadlock (`CHECK_DEADLOCK FALSE`); that nobody
waits for ever is what the liveness properties say.

- `link`: three confirmed operations one way and an unconfirmed one the other way, one retry, two
  frames on the line in each direction, one link status request, one loss of the lower layer at
  either end. The frame count is one bit: the third operation has the bit of the first, so a
  stale copy of each of the two before it can be mistaken for it. One retry gives two copies of
  a frame on the line, and two acknowledgements. The proofs need none of these bounds.
- `transport`: a segment carries two bytes, the sequence counts modulo three instead of 64, and
  fragments have up to three segments; the master's buffer is smaller by a segment's half. Three
  fragments one way or one each way, one segment that `TransportTx` would not form, one loss of a
  lower layer, one stale acknowledgement. With three segments and a modulus of three the
  sequence wraps within the run, and a fragment given up is followed by two others, so that its
  remains may be joined with either. `Payload`, `SeqModulus` and the sizes are constants of the
  module, whose formulas do not depend on their values.
- `app_poll`: two requests of every kind and two answers, one retry and a restart of each
  station; two fragments in each direction. A late answer meets the next request. The
  sequence has sixteen values and does not wrap within these bounds; the wrap is a hazard of its
  own in `PROJECT.json`.
- `app_unsol`: a poll and two unsolicited responses, the second of which may be taken for a
  repetition of the first; one fragment on the line in each direction; a restart of the
  outstation.
- `event_buffer`: room for two events, five updates of two points with two time stamps, two
  selections. The buffer overflows, is refilled while its former content is selected, and holds
  more than its limit once that returns.
- `slave`: fragments of one object, two updates, two requests and one repetition, one loss of the
  lower layer, every configuration. A READ of two events needs two fragments, so partial
  deliveries happen; two requests and a repetition are enough for a request that is deferred,
  overtaken and repeated, and two updates for one that arrives while the other is being sent. Two
  updates cannot starve a request, as an update in every unsolicited exchange would;
  `OnlyUpdatesPassRequest`, the second half of `DeferredRequestServed`, says what does not depend on
  their number, and is proved for any. About 1.8 million states.
- `master`: two commands, one event scan, periods of two ticks and one, and two incidents in all:
  each command, loss of the link, IIN bit or chunk of VTO data is one, and so is an answer cut
  short. Pairs of them are what the scheduler's flags can confuse; the loss of the link and one
  command leave the task of the commands running, and a second command finds it so. The
  periods only order the tasks, and each order of expiry occurs. About a million states.
- `router`: two contexts, two frames waiting, two posted calls of `Pause`, every outcome of an open.
  Stacks come and go without a bound. Two contexts are enough for one to be up and one late;
  two calls of `Pause` for one to be left over from the transaction before. `RouterProofs` needs
  none of these bounds. The peer sends frames of three kinds: without user data, with one short
  block of user data, whose second half may look like the beginning of a frame, and with an
  unknown function code. Each read may be damaged, and the beginning of a frame may
  be left by one connection and met by the next one.
- `vto`: a writer with room for one object, a stack that takes two, one waiting message before
  reading stops; two connections of two chunks at the application's end and of one at the
  device's; one fragment repeated or answered without being passed on. A chunk of the first
  connection may meet the second, and each queue fills. About two million states. `RouterProofs` needs
  none of these bounds.
- `controls`: three points, one of each mode, five lists of one or two objects, under one header and
  under two, one with a header that is passed over, a limit of one control, two requests of every kind,
  two incidents (a repetition, a loss of the lower layer, an unsolicited response, a return of `Wait`
  without a signal), and none, 15 or 16 requests lost in between, so that the OPERATE may have the
  sequence of the SELECT, the next one, or the next one a round later. A SELECT and an OPERATE need two
  requests, and each way to go wrong between them one incident or two. About 1.8 million states.
- `updates`: two transactions, two chunks of VTO data, room for one in the event buffer, two
  incidents (responses, losses of the lower layer). Two transactions are what a flush may find at
  once or be interrupted by; the deadband is one, so that two steps of one each exceed it only
  together. The second chunk finds no room.

### Fairness

- `LinkLayer`: weak fairness of each station's response timer, and of nothing else. The timer
  service of the I/O thread runs each timer that is not cancelled. No fairness is assumed of the
  line or the other station: the property holds even if every frame is lost.
- `AppLayer`: weak fairness of the timers and of the results of sends. The second is what
  `SendCompletes` of the link layer shows for each segment of a fragment.
- `Master`: weak fairness of the call in progress, which the thread of the io_service completes.
  Strong fairness of what a notifier has posted and of the end of a request (its final answer or
  its failure, which the application layer's `SendCompletes` promises): the io_service runs
  handlers in the order in which they were posted, so other calls, between which these are not
  enabled, cannot keep them out for ever. Nothing is assumed of the users, the
  link, the clock or the kind of answer.
- `Controls`: weak fairness of the handler of a request and of the application's thread. The second is
  an assumption: the stack waits "forever on a response from user space" (`Slave.h:365`), and it
  must be on another thread than the stack's.
- `Updates`: weak fairness of the notification that a thread gives after its commit, of a posted call,
  of the handler and of the outcome of a response (`SendCompletes` of `AppLayer`).
- `Router`: weak fairness of the handshake of the two threads, and of what ends a closing layer: its
  pending operations end, with or without an error, the open timer expires and a posted
  shutdown runs. Nothing is assumed of the peer, or of an operation that nobody closes.
- `Slave`: weak fairness of the outcome of a response and of an unsolicited response, which is
  `SendCompletes` of `AppLayer`. The formula spells out when those actions are enabled
  (`Running` and a channel that is not idle) instead of using `WF_vars`, because TLC needs far
  longer to evaluate `ENABLED` on the nested handlers. No fairness is assumed of the master or
  of updates.

## 4. What is proved

### LinkLayer

For any number of operations, retries, frames on the line, probes and restarts,
any choice of confirming and foreign stations (`LinkAssumption`: the stations differ and the
numbers are naturals):

| Theorem | Statement |
|---|---|
| `TypeCorrect` | `Spec => []TypeOK` |
| `TimerCorrect` | `Spec => []TimerIffWaiting` |
| `SuccessCorrect` | `Spec => []SuccessMeansDelivered` |
| `AtMostOnce` | `Spec => []AtMostOnceInOrder` |
| `LinkImplementsService` | `Spec => Service!Spec` |

`TypeOK` and `TimerIffWaiting` are inductive together. `SuccessMeansDelivered` is about
acknowledgements, which carry no number: what makes one the answer to the frame just sent is that
there is no other. `EInv` says so of each direction whose sender never gave up on an answer that
could still come (`late`): one question or one answer is under way at most (`OneUnderWay`), a
question is the frame the sender waits for (`Asked`), an acknowledgement means that the receiver was
reset, or took the frame (`Answered`), and the bits of the two ends differ only while a frame is taken
and the sender does not know (`InStep`).

`AtMostOnceInOrder` is not inductive either: a state in
which the last payload is still on the line, with the frame count bit that the receiver expects,
satisfies it, and the next step violates it. What excludes such a state ties together the frames
in flight, the sender and the receiver, and is the predicate `Direction` of
`LinkLayerProofs`, over the line `c`, the last operation delivered `l`, the last one handed
over `n`, the sender's state, delayed frame and bit and the receiver's state and bit:

- `InWindow`: frames on the line belong to operations between `l` and `n`;
- `Ordered`: they are in order, and copies of one operation are equal, with no reset between them;
- `Repetition`: a copy of `l` carries the bit that the receiver does not expect, and no reset is
  ahead of it that would make the receiver forget;
- `Outstanding`: while the sender waits, the operation is `n`; during a reset it has not been sent
  and so was not delivered; afterwards each copy is the delayed frame, with no reset behind it,
  and once it has been delivered the receiver's bit differs from the sender's.

`IInv` is `Direction` both ways, with an increasing `delivered`. Its proof has a lemma for each
way in which the line or an end changes (`AcceptDirection`, `SendDelayedDirection`, ...), stated on
a line and parameters alone, and then a step per action. The refinement follows from it:
what is delivered is newer than all before, and each completion or submission finds `busy` as the
service demands, by `TimerIffWaiting`.

### AppLayer

For any set of requests, any number of retries, transactions and restarts and any capacity of the
line (`AppAssumption`: the stations differ, the numbers are naturals and the functions are among
the requests):

| Theorem | Statement |
|---|---|
| `TypeCorrect` | `Spec => []TypeOK` |
| `QueueCorrect` | `Spec => []QueueMatchesChannels` |
| `UserCorrect` | `Spec => []ChannelMatchesUser` |
| `ReportedCorrect` | `Spec => []ReportedAtMostOnce` |
| `UnsolOrderCorrect` | `Spec => []UnsolAtMostOnceInOrder` |
| `UnsolSequenceCorrect` | `Spec => []ConfirmedInSequence` |
| `UnsolHandledCorrect` | `MaxHanded[Uns(Outstation)] <= 16` implies `Spec => []UnsolHandledOnce` |

The first three need one another. `OnSendResult` dequeues the head of the queue, so that even the types
hold only if a station that is sending has a queue; the handler it calls is the one of the
channel that the head belongs to, whose state must be one of sending, or it throws. `IInv` of
`AppLayerProofs` says per station (`Transmitter`) that `sending` means a queue that is not empty
and that a confirmation is queued once at most, while `confirmSending`; and per channel
(`Channel`) that its fragment is queued exactly once while it sends and never otherwise, that its
timer and its user agree with its state, and that the fragment it would repeat is of its own
kind. `Places` is where a kind of fragment is in a queue; the lemmas say what appending and
removing the head do to it, and each action then disturbs one transmitter and one channel or two.

The others rest on a second invariant, `JInv`, proved on top of `IInv`. What is queued or on a wire
has a form that says which channel sent it (`Formed`), and is a copy of what that channel sent last,
behind older fragments in their order (`Copies`): a channel is given a new fragment only when it has
none queued, and what it repeats it repeats as it was. So a fragment that is read is before
everything of its kind that can still be read (`HeadBefore`, `Pending`). `Heard` says that the numbers
a user was told are in order, that nothing pending is older than any of them, and that a copy of one
of them has the sequence heard last: it is then taken for a repetition, and a fragment that is not
was never told. This needs no bound, although the sequence has four bits only. The outstation's
sequence also moves with the fragments of a response; `Asked` says why that does no harm: only a
READ is answered in several fragments, and no pending fragment is a copy of an executed request then.

What the outstation concludes from a confirmation does depend on the four bits. Without any bound,
whoever is told that its unsolicited response is confirmed knows that the master handled one with
that sequence (`Numbered`, `Confirms`, `UnsolSequenceCorrect`); it is the same one while the sequence
does not return, which is the hypothesis of `UnsolHandledCorrect`. The hypothesis is sharp: when
sixteen responses in a row are given up and the first comes late, its confirmation confirms the
seventeenth (with a sequence of two values TLC shows it at the third). A station that loses its lower
layer starts again with sequence 0, which the protocol cannot tell; the properties except it.

### EventBuffer

For any capacity, any wider `size_t`, any points, classes and times, and any number of updates and
selections (`BufferAssumption`):

| Theorem | Statement |
|---|---|
| `TypeCorrect` | `Spec => []TypeOK` |
| `CounterCorrect` | `Spec => []CounterMatches` |
| `SequenceCorrect` | `Spec => []SequenceFollowsUpdates` |
| `UpdatesCorrect` | `Spec => []EveryUpdateAccounted` |
| `VtoCorrect` | `Spec => []VtoNeverDropped` |

They are inductive only together. That a counter stays a natural needs its exactness; that it is
exact when a VTO selection is returned needs each sequence to be free, which needs the order of
the sequences and that no event is in both the set and the selection. `IInv` of
`EventBufferProofs` adds `Placed`: events of a set differ in id and place, the single buffer has
one event per index, and all are older than `sequence` and `clock`. `Growth` says that the counter
grows as the set does; for the single buffer it counts indices, each of which has exactly one
newest event (`Winner`, from the well-foundedness of proper inclusion on finite sets). `Ranks` says
that positions in an order tell events apart, so that what moves keeps a place of its own. Then
there is one lemma per action.

### Updates

For any database, points with events, deadband, transactions and limits (`UpdatesAssumption`: points
with events are points of the database, the deadband is a natural, not-a-number is no number):

| Theorem | Statement |
|---|---|
| `AnnouncedCorrect` | `UpdatesSpec => []BuffersAnnounced` |
| `TransactionsCorrect` | `UpdatesSpec => []TransactionsApplied` |
| `DriftCorrect` | `UpdatesSpec => []DriftIsReported` |

They are proved together, from `AnnouncedInv` of `EventBufferProofs`. `HandlerKnows` says that the size
which `FlushVtoUpdates` asked for is right or a notification is under way: only then may it leave VTO
data behind without deferring an update. `Ordered` says of each type that what was applied and then
what waits is in the order of the commits, and `Accounted` that, until a flush throws, the two
together are what was committed (`Line` and `Joined`; the lemmas `LineGrows`, `LineAdvances`,
`JoinedGrows` and `JoinedAdvances` are a commit and an application of a change, for any sequences).
That a transaction is never seen in part needs one fact about all types at once: no change that was
applied before the flush in progress belongs to a transaction that still waits (`Separated`). While
the stack is free no flush is in progress, so a transaction of which anything was applied has
nothing left. `EventsKnown` says that `mLastEventValue` is the value of the last event.

### Transport

For any sizes of buffers and payload, any modulus of the sequence, any confirming and foreign
stations and any number of fragments, losses and restarts (`TransportAssumption`: the stations
differ, what is foreign does not confirm, the sizes are positive):

| Theorem | Statement |
|---|---|
| `BufferCorrect` | `Spec => []Consistent` |
| `FragmentsImplemented` | `Spec => Fragments!Spec` |
| `ConfirmedCorrect` | `Spec => []ConfirmedArriveWhole` |
| `UnconfirmedCorrect` | `Spec => []MixedOnlyAfterWrap` |

`IInv` of `TransportProofs` has three parts, each stated over values so that its lemmas are about
sequences: `Sender`, the segments on a link are in the order of their fragments and nothing of a
fragment follows its last segment; `Receiver`, what was passed up was put together from operations
already delivered, the last of which ends a fragment and is newer than all of the ones before;
`Holds`, what the buffer holds is what was counted. `BufferCorrect` is the third. The
refinement needs the first two: a fragment is known by the segment that ends it, that segment is
newer than every one that ended another fragment, and nothing of one fragment follows its end, so
its number is greater than all that were passed up. None of it rests on the sequence numbers: they
decide which operations are put together, not how often or in which order.

What they decide has a second invariant, `JInv`, which is inductive together with the first. Its
parts relate a receiver to the operations of its peer:

- `GoesOn`: while the buffer holds anything, the sequence expected follows that of the last segment
  in it.
- `ConfirmedLine`: a link that confirms hands a segment over only after the one before it, if both are
  of one fragment, was delivered (`Acked`). So a receiver that has read a part of a fragment has
  missed nothing of it, whatever the sequence says; what it read is whole when a FIN arrives.
- `ReportedLine`: as long as the fragment being sent was not cut off by a loss, either all of it was
  passed up, or what the peer has read and what is still to come fit its buffer together (`Gets`).
  It is why a success means that the peer's user has it, and why the buffer of the peer must not be
  the smaller one.
- `UnconfirmedLine`: without confirmation only the count helps. `Counts` numbers the segments that
  `TransportTx` formed; the sequence of one is its number modulo `SeqModulus`, and a number grows no
  faster than the operations do. Two segments at most `SeqModulus` operations apart whose
  sequences follow one another are therefore neighbours, and since the link hands over the segments
  of a fragment in one go (`Together`), what follows one that is not FIN is of the same fragment
  (`NextIsNext`).

The arithmetic of the modulus is in four lemmas (`ModIs`, `ModOf`, `ModPlus`, `ModNext`), each from
the definition of division. No assumption was added: stale acknowledgements and buffers of
different sizes are excepted by the properties themselves.

### Monitor

For every set of outcomes of an open (`OutcomesAssumption`) and any owner:

| Theorem | Statement |
|---|---|
| `TypeCorrect` | `MonitorSpec => []ConnectionTypeOK` |
| `MatchCorrect` | `MonitorSpec => []MonitorMatchesLayer` |
| `EventsCorrect` | `MonitorSpec => []NoStrayEvent` |
| `MonitorCorrect` | `MonitorSpec => []MonitorAgrees`, the two together |
| `ShutdownCorrect` | `MonitorSpec => ShutdownIsFinal` |

The inductive invariant is `Good(line)`: the types, `Fits`, which says of each flag in which groups
of states it is set, and that no stray event happened. Since operations nest, its lemmas are about
operators and not about steps, and follow the nesting from the inside: an attempt to open that fails,
an open, the end of a layer, the check for it, a close, each request, each callback. A request is
proved for any table whose entries keep or change the group of a state as they should
(`StartTable`, `StopTable`), and the five tables are shown to be such. `ShutdownIsFinal` needs the
invariant on both sides of a step, because only it excludes that a callback of a layer finds the
monitor in a final state with an attempt to open still pending.

### Router

For any contexts, any bounds of the queue and of posted calls (`BoundsAssumption`) and any
outcomes of an open:

| Theorem | Statement |
|---|---|
| `RefinesMonitor` | `Spec => MonitorSpec` |
| `PortMonitorCorrect` | `Spec => []MonitorAgrees` |
| `ExclusionCorrect` | `Spec => []UserRunsAlone` |
| `StacksCorrect` | `Spec => []StacksMatchLayer` |
| `QueueCorrect` | `Spec => []QueueMatchesWrite` |
| `PortCorrect` | `Spec => []PortMatchesLayer`: the two, and `FramesOfBoundStacks` |

The refinement maps each action to a request, a use of the open layer, a callback or a stutter, and
needs `IInv` of `Monitor` to know that what the router does with its reads and writes is a
use of a layer that is open. `PortMonitorCorrect` then follows from `MonitorCorrect`.

`ExclusionCorrect` rests on `PauseInv`: `mIsPaused` holds exactly while the thread waits in `Pause`,
and `mPausing` from `_Start` to `_End`; that `mIsPaused` outlives a transaction is harmless because
the thread then still waits. `PortInv` is what the last two need together: a thread that ended
does not wait, so a call of the application finds a thread that is alive; a layer that is up and
not closing reads, so that a request never closes it at once, within the call (`Reads`); the
contexts that were told are the bound ones without those that came while the layer was closing
(`ContextInv`); and when the layer closes without a write under way no context is up
(`QueueInv`), which is why a stack cannot write to it. `FramesOfBoundStacks` is inductive with them: only
a context that is up queues a frame, what is up is bound, and only `RemoveContext` takes from what is
bound, which is where a frame is orphaned; without that the head of the queue is of a bound stack when
it has been written, and the assertion of `_OnSendSuccess` holds.

### Vto

For any sizes of the writers' queues and of the batches, any limit of reading, and any number of
connections, chunks and mishaps (`TunnelAssumption`: these are naturals):

| Theorem | Statement |
|---|---|
| `RoutersConsistent` | `VtoSpec => []Consistent` |
| `TunnelKeepsStreams` | `VtoSpec => []StreamsKept` |

`Consistent` rests on `Knows`: the client's router is connected exactly while its layer has any flag,
from the attempt on; the server's exactly while its layer is up, or when its port was taken as it bound
again: an attempt to open is all its layer then has, and stays so, because nobody calls it back. A
request within a request keeps `Knows` because a layer that goes down at once is at rest then (`Quiet`),
so its callback finds nothing to close.

`StreamsKept` says nothing of what is queued, so its invariant does. All that is between the two
ends is, in each direction, one sequence: what was written and what waits to be written (`Passed`),
the batch, the writer's queue and what waits for it (`Out`), and in the end the object that would be
sent next (`Later`). There are two views of it (`Flow`), because the two halves of `StreamsKept` survive
different mishaps. In the view `"order"`, which lasts until a fragment is repeated, the chunks of both
directions are `Ascending`: whatever is dropped leaves an order as it is. In the view `"stream"`, which
lasts until one is repeated or dropped, the sequence towards the client is a `Chain`: after the news of
a connection comes its first chunk or its end, after a chunk the next one of the same connection or its
end, after an end the next news. `TunnelInv(view)` has the types, `Knows` and, while the view lasts
(`Covers`), `Flow` of both routers; it is proved for either view at once (`TunnelKept`).

An operation moves the border between the parts of a sequence, appends what may follow, or drops
something, and associativity is most of what its lemma needs. Dropping would tear a chain, and the
routers drop chunks themselves: with `FlushBuffers`, and with what is left of a fragment whose chunk
threw. `Lead` is why that is harmless: the chain begins at the last chunk written only while the
client's connection may be written to, and at what is still queued otherwise. `Tuned` says that such a
connection is the one that the last news opened, and that a router out of which an exception comes has
neither a connection to write to nor anything queued; a flush comes with a close, so no chunk is
written behind the gap. And a client that is told of a connection has no layer that could be written
to (`NewsFindNoneLive`), so chunks of two connections are never written to one. `Flow` is a predicate of
one router, with what is ahead of its objects and behind those it has received as parameters, because
the operations nest; `Reversed` is the same from the other end. `EventFine` is what the end of an
operation of the layer or of its timer does, `UpdateFine` a fragment, `DropKeeps` one that is lost.

### Slave

For any size of a fragment, any READs, any configuration and any number of updates, requests,
repetitions and losses of the lower layer (`SlaveAssumption`: a fragment takes something, the READs
are READs, `Everything` is more than there ever is):

| Theorem | Statement |
|---|---|
| `ConsistentCorrect` | `Spec => []Consistent` |
| `NoEventLostCorrect` | `Spec => []NoEventLost` |
| `ErasedMeansConfirmedCorrect` | `Spec => []ErasedMeansConfirmedWhileUp` |
| `RequestsHandledOnceCorrect` | `Spec => []RequestsHandledOnce` |
| `OnlyUpdatesPassRequestCorrect` | `Spec => OnlyUpdatesPassRequest` |

One invariant carries the five, with a small one beside it for the last two. `Good(x, u, q, d)` is a
predicate of the record of the outstation, with the number of updates, of requests and of losses as
parameters, because a handler is an operator on records and handlers nest: each has a lemma on what it
needs and what it leaves, and a lemma that meets a call uses that of the handler called. `Kept` holds
even after an exception: an update has one place (`Accounted`), a request is executed once
(`ExecutedOnce`), what was erased was confirmed. `Ends` says how the program may end, and `Live` what
holds until it does: the state waits for exactly the channels that are busy (`Solicits`, `Reports`); a
request is deferred only while the response that is sent will not go on to another fragment
(`Postponed`), so that it is still the one heard last when its turn comes (`Current`); what is marked as
written is in the fragment that is being sent (`Covered`), which is why its confirmation may erase it;
and something will look at the events that may be reported (`Triggered`). Between the end of a response
and the end of its handler the invariant does not hold; `SolEnded`, `UnsolEnded` and `Ahead` are what
holds there instead, and `FlushDeferredEventsGood` restores it. A loss of the lower layer breaks
`Covered` for good, the finding `MCSlaveLost.cfg` of section 6, so that all that rests on it holds as
long as `d` is 0.

`Honest`, beside it, is about the history of requests: what was answered was executed or overwritten
(`Done`), and so was a repetition that waits; the last request was, or waits itself. The theorem about
what passes a request follows the handlers from there: a flush that leaves a request deferred has
left the idle state, and before it looks at the request only `FlushUpdate` does that.

What `LoadEvents` loads and which events `Oldest` selects is defined by recursion on numbers; the
lemmas `Iterate` and `OldestSelects` prove what they need of it by the least number for which it fails.

### Controls

For any points and modes, any lists of objects, any outcomes, losses and numbers of requests
(`ControlsAssumption`: the lists are lists of objects, the modes are modes, the numbers naturals):

| Theorem | Statement |
|---|---|
| `ConsistentCorrect` | `Spec => []Consistent` |
| `OperatesSelectedCorrect` | `Spec => []OperatesSelected` |
| `AnswersAreTrueCorrect` | `Spec => []AnswersAreTrue` |

`Inv` of `ControlsProofs` has three parts, and a fourth, `Written`, rests on them. `Good` is about the
record of the stack's thread, the last request `l` of the master and the answers: what is handled or
deferred is `l` (`Follows`); the answers to `l` are in `mResponse` with `l` as `mLastRequest`
(`Remembered`), and an OPERATE that was answered comes back as a repetition only (`Once`), so that
`IsRetry` finds it and answers it alike. `Threads` counts what is under way in the two queues: one
command while the stack waits, which carries the sequence waited for (`Mine`), and none otherwise, plus
one for each `Wait` that returned without a signal; and a thread that waits has been signalled exactly
if an answer is there. `Selections` gives each selection that could still be operated the entry of the
history that made it (`SelectedAt`), with nothing behind it that would end it; operating it uses it up,
which is why no other command can rest on the same entry.

`Written` is about what the answers say. Each answer is entitled to its objects (`Entitled`): they were
written for its own request, or for the one it repeats, which is equal to it; what `mResponse` holds
was written for `mLastRequest` or for an OPERATE equal to it (`WrittenFor`), so that what is sent again
is right. While a request is handled, the bits set so far are those of the objects so far (`Unfinished`,
`Marks`).

The lemmas of `Good` are about two records that agree on most fields (`Begins`, `Handles`). What
memory held at first is no obstacle: a selection made of it is too old to be operated.

### Master

For any commands, either setting of `DoUnsolOnStartup`, any periods and any number of incidents
(`MasterAssumption`: the periods are positive):

| Theorem | Statement |
|---|---|
| `SchedulerAgrees` | `Spec => []Consistent` |
| `CommandsKeepOrder` | `Spec => []CommandsInOrder` |
| `StartupKeepsOrder` | `Spec => StartupInOrder` |

`IInv` of `MasterProofs` has eleven parts, one for each group of variables, and each part a lemma with
one step per action. `OneTaskAtATime` is kept by `ProcessIIN` only because no response is processed on a
closed link, or the bit of the IIN would enable a task that needs it: `Calls` says that while the link
is closed all that is left of a call is `CheckState`, and no request waits for its answer. `Masters`
says that a master that waits has a task of the group, without which the ends of tasks have no type, and
`Buffers` that no more VTO data was written than is buffered, without which its removal has none.
`AnsweredAtMostOnce` needs what it counts to be kept apart (`Commands`): a command has one place in the
queue, is not executed while it is there, and has no answer while it is queued or executed. Which task
`CheckState` takes does not matter to any of these, so they hold for every order of the tasks.

It matters to `StartupInOrder`. `std::max_element` walks `mTaskVec` and keeps the better of each task
and the best so far (`BestIs`), and `LessThan` is not transitive: dependencies decide first, then what
is enabled, has expired and has priority, so a task may lose to one that loses to a third. What it
returns is not larger than all others then. `TakenInOrder` therefore follows the walk through the six or
eight tasks: where the tasks of the sequence meet, the dependency decides (`DependencyDecides`), so a
task that survives until the end has met what it depends on, and that was complete
(`DisabledIsNotGreater` is the one comparison for which the times are needed). `StartsUp` is the part of
the invariant that makes being complete mean being done: what is complete has been done since the link
was lost, and the sequence and the scan are enabled and disabled together. `Owns` says that a request
that waits for its answer is of the task that the scheduler runs, so that an answer completes the task
whose turn it was; a command that the loss of the link cut off is its exception (`cutOff`). `Awaits`
says that a master that waits between two calls has a request outstanding, or a poll whose answer threw.

### What is only checked

Only checked by TLC: what `AppLayer` promises of answers (`AnswersRequest`), everything of `Receiver`,
with it `ReceiverFollowsPeer` of `Router`, and the liveness properties, but for the part of
`DeferredRequestServed` that is about steps. Where a run checks several invariants as one
(`MonitorAgrees`, `PortMatchesLayer`), the whole is a theorem. `AtMostOnceInOrder` is part of what
`ImplementsService` says, which is checked.

Out of the prover's reach are liveness under fairness (and `ENABLED`), and every library theorem that
takes an operator as a parameter, the induction theorems among them: the provers at hand cannot
instantiate them. Where a proof needs induction over numbers it takes the least counterexample, which
the well-foundedness of `<` on the naturals provides (`LeastNumber` in `SlaveProofs` and
`ControlsProofs`), and so do `Update` of `Vto`, over the objects of a fragment, and the walk of `Moved`;
the functions of the code that are recursive over more than numbers stay with TLC. No module
declares a RECURSIVE operator: what `Vto` needs of the mutual recursion of `CheckForPhysWrite`,
`SetLocalConnected` and the callbacks of the connection is two levels deep.

## 5. Hazards

`PROJECT.json` lists them at their lines: what restarts and losses do to each layer's state,
results and answers out of order, stale answers, deferred work, counters at their limits. A hazard
without a property has a note saying why: it is beyond the bounds of a run, excluded by the
condition of a property, or in a part that is not modelled.

## 6. Findings

A run shows the first one, which loses events for good:

1. `app_confirm_stale`: a late response to an earlier request is confirmed and then dropped
   (`AppLayer.cpp:209`), which its own comment rules out. The outstation erases the events in it.

Each of the others has a configuration, which checks one property that quotes the document; TLC
finds it violated.

2. `MCSlaveLost.cfg`, `ErasedMeansConfirmed`: the loss of the lower layer leaves events selected and
   marked as written (`SlaveStates.cpp:217`); the success of the next simple response erases them,
   undelivered, although "failed deliveries put events back" (`SlaveEventBuffer.h:37`).
3. `MCMasterStuck.cfg`, `CommandsAnswered`: a command that meets a closed link, or is cut off by its
   loss, is answered, but its task is left running (`Master.cpp:151`). The scheduler prefers a running
   task to any other, so no task runs again, and no later command is answered, although "the stack
   will call back" (`APL/CommandInterfaces.h:53`).
4. `MCControlsWait.cfg`, `WaitsForUser`: `WaitForResponse` waits on its condition variable once and
   without a loop (`CommandResponseQueue.cpp:46`), although its caller says "wait forever"
   (`Slave.h:365`). A return without a signal answers the command with an error, and the
   application executes it afterwards. Its late response may then signal the wait for the next
   command, which fails in the same way.
5. `MCControlsPerAPDU.cfg`, `ControlsPerAPDU`: `mMaxControls`, documented "from a single APDU"
   (`SlaveConfig.h:73`), is counted per object header (`Slave.h:317`).
6. `MCControlsTooMany.cfg`, `TooManySelectsNothing`: the rule that a SELECT with too many controls
   selects nothing tests a status that never occurs there (`Slave.h:339`); the controls before the
   limit stay selected.
7. `MCUpdatesGroups.cfg`, `GroupsAreWhole`: an index that does not exist ends a flush by an exception,
   and a transaction of another thread, all of whose points exist, stays in the database in part
   (`Slave.cpp:258`), although it "should be handled as a group" (`APL/ITransactable.h:31`).
8. `MCUpdatesDeferred.cfg`, `DeferredUntilHandled`: the override of `AcceptsDeferredUpdates` in
   `AS_Closed` is misspelt (`SlaveStates.h:114`); an update deferred during a response stays so after
   the lower layer is lost, although the closed state handles updates.
9. `MCSlaveOverwritten.cfg`, `AnsweredMeansExecuted`: a WRITE or VTO_TRANSFER that waits for another
   response is overwritten by its own repetition (`SlaveStates.cpp:307-310`, `358-360`), whose `SI_PREV`
   makes `SwitchOnFunction` skip the handler (`:97`, `:102`): it is answered with success and never
   carried out, although "we should immediately handle the new request" (`SlaveStates.cpp:300`).
10. `MCRouterOrphaned.cfg`, `SenderStillBound`: `RemoveContext` leaves the frames of the stack in the
   queue (`LinkLayerRouter.cpp:68-83`). When one of them has been written, `assert(pContext != NULL)`
   (`LinkLayerRouter.cpp:199`) fails; it is still so if the frame was under way at the time.

The models contain further behaviour that a maintainer should know of. It contradicts no
document:

- `AppLayer`: the loss of the lower layer leaves `mConfirmSending` set (`AppLayer.cpp:149`), and
  nothing is confirmed after the reconnection (`Flood`).
- `Slave`: a response that needs a second fragment for its events ends after the first, since the
  events left were deselected before `IsComplete` looks (`ResponseContext.cpp:82`); and an
  unsolicited response that fails while the unsolicited timer runs starts it again, against the
  assertion in `Slave.cpp:603`. Without an unsolicited pack delay, an update in every unsolicited exchange
  defers a request for ever, since `FlushDeferredEvents` looks at updates first (`Slave.cpp:209-218`).
- `Master`: the data of a poll that throws (`DataPoll.cpp:53-60`; a VTO header without an object,
  `ResponseLoader.cpp:133-143`) ends neither the task nor the wait. The exception is caught at
  `AppLayer.cpp:133`, when the channel is idle, so the master waits until the link goes down, and commands
  wait with it (`Forgotten`).
- `EventBuffer`: a time-ordered buffer reorders events of one time stamp when a selection returns.
- `Receiver`: nothing resets it when the layer closes. The header of a frame that was cut off makes it
  hold back the frames of the next connection until it has as many bytes as the header announces
  (up to 282, against 10 of an acknowledgement); and a header whose next block is to be
  one of eight bytes takes the first header of the next connection for it, because its CRC is right: a
  frame that nobody sent is passed on (`leftover` in `Arrival`).
- `Router`: a stack bound while the idle router closes its layer makes the close callback throw,
  which ends the thread (`late` in `ContextsMatchLayer`); a port removed while its layer closes
  throws out of `Shutdown` (`"deleted"`).
- `Vto`: the server may write the rest of an answer to a later connection (`OneStreamAtClient` holds
  of the client only), and a repeated fragment repeats its chunks. One that is confirmed or answered
  without being passed on (`AppLayer.cpp:209`, finding 1; `SlaveStates.cpp:102`, finding 9) leaves a gap in
  what the device sees. The server closes its acceptor with each connection and binds again
  (`PhysicalLayerAsyncTCPServer.cpp:54-65`, `83-86`); if its port is taken when it does so, the exception
  leaves it before the close callback: it says for ever that it is connected, and never opens again. What
  a chunk throws ends the fragment, and the rest of its objects are lost, news of connections among
  them (`AppLayer.cpp:133`).
- `Controls`: the answer to a repeated OPERATE lacks the bits of the first, PARAMETER_ERROR among
  them, because `DoRequest` clears `mRspIIN` (`SlaveStates.cpp:148`) and `HandleOperate` returns before it
  sets them again (`Slave.cpp:481`). An OPERATE equal to the last one that comes sixteen requests later,
  all others lost, is taken for its repetition, and answered without being executed.
- `Controls`: a repeated DIRECT_OPERATE is executed again, since only OPERATE is tested for a
  repetition (`Slave.cpp:521`). The time-out of each point, given to `BindCommand`, has no effect.
- `Updates`: after an exception the buffer is cleared twice, and a transaction committed between the two
  is lost untried (`Slave.cpp:260`); VTO data then waits for the next call. After an event with the
  value NaN, none follows until the quality changes (`BaseDataTypes.cpp:77`).

The passing runs and the theorems hold of the same models. Where a property would fail because
of this, its comment names the condition under which it is stated: `ErasedMeansConfirmedWhileUp`
while the lower layer stays up, `AnsweredMeansReported` until a stale response was
confirmed, `RequestsHandledOnce` of requests that were not overwritten, `AnsweredUnlessStuck` until the
task is stuck or an answer forgotten, `PortMatchesLayer` until a frame is orphaned, `StreamsKept` until
a fragment is repeated or dropped; `AnswersAreTrue` states its two exceptions.

## 7. What is not modelled

- `Slave`: what a WRITE does, time synchronisation, internal indications, several event types,
  overflow. None of them decides which state follows, except that a malformed request may be
  answered without being executed. That code has two mistakes of its own: `SelectEvents` subtracts
  the number of binary events for every type (`ResponseContext.cpp:273`), and a WRITE that clears
  NEED_TIME uses `mpTimeTimer`, which is NULL without time synchronisation (`Slave.cpp:359`). Controls
  are in `Controls`, the change buffer, the database and the VTO queue in `Updates`, neither composed with
  the response context: an update of `Slave` is one event.
- `Controls`: the setpoints of each width, which go the same way as binary controls; `CommandManager`,
  the application's table of commands; the bits of `mIIN`, which each response has alike.
- `Updates`: `FlexibleDataObserver` and `QueueingFDO`, observers for user code and tests; `EventLock` and
  `SyncVar`.
- `AppLayer`: a request that has no answer (`DIRECT_OPERATE_NO_ACK`), which `Master` never sends.
- `Master`: the data of the answers and the matching of what an outstation echoes; several event
  scans, which differ in nothing but their period. `DoUnsol` covers both startup tasks, because
  `MasterSchedule` looks at `EnableUnsol` only when `DoUnsolOnStartup` is set.
- `Router`: the sockets and serial ports, the destructor of `AsyncStackManager`, and ports that
  share a name. `Receiver`: which bytes make up a block, and user data that contains a whole header
  with its CRC.
- `Vto`: `AlwaysOpeningVtoRouter`, several channels of one stack, the sizes of chunks. Room is
  counted in chunks, and each read is one. A server router whose first bind is refused throws out of its
  constructor, and there is no tunnel.
- Parsing and formatting of messages, CRCs and logging: data and I/O. The largest part of `src/` by
  lines is vendored code (`tinyxml`), generated bindings, tests and tables of objects.

## 8. Plan

In this order, the behaviour that most depends on others' correctness first.

1. `LinkService`, `LinkLayer` and their proofs. Done.
2. `AppLayer` and `AppLayerProofs`. Done. Next: `AnswersRequest`, which depends on the sequence
   not returning too, and on the fragments of a response keeping both ends in step.
3. `EventBuffer` and `EventBufferProofs`. Done.
4. `Slave` and `SlaveProofs`. Done as far as section 7 says.
5. `Transport` and `TransportProofs`. Done.
6. `Master` with its scheduler and commands, and `MasterProofs`. Done.
7. `Connection`, `Monitor`, `Receiver`, `Router` and their proofs. Done. Next: `ReceiverFollowsPeer`, for
   which the loop of `OnRead` needs an invariant of its own.
8. `Vto` and its proofs. Done. Next: the outstation's event buffer in place of the batch.
9. `Controls` and `ControlsProofs`. Done.
10. `Updates` and its proofs. Done. Next: the composition with `Slave`, for the hazard that VTO data
    shortens a retry.
