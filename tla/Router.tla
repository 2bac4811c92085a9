------------------------------ MODULE Router ------------------------------
(***************************************************************************)
(* A port: LinkLayerRouter (LinkChannel) over the connection of Monitor,   *)
(* and the thread that drives both.  The stacks ("contexts") of a port     *)
(* share its connection: the router tells them when it is up and down and  *)
(* queues their frames.  The application binds and removes stacks and      *)
(* removes the port from its own thread (AsyncStackManager), each time     *)
(* holding the thread of the io_service with SuspendTimerSource.           *)
(*                                                                         *)
(* Frames to send are known by the context that sent them.  What a frame   *)
(* that was read makes its context do is left open: at most one reply.     *)
(***************************************************************************)
EXTENDS Monitor, Receiver

CONSTANTS Contexts,   \* the stacks, each with its route
          Destination, \* of each frame: the context whose route it carries
          MaxQueue,   \* bound on the frames that wait
          MaxPosts    \* bound on the posted calls of Pause

ASSUME BoundsAssumption == MaxQueue \in Nat /\ MaxPosts \in Nat

VARIABLES bound,         \* mAddressMap: the contexts with a route
          stacks,        \* mStackMap: the contexts whose binding did not throw
          up,            \* the contexts that were told that the layer is up
          late,          \* the bound contexts that came while the layer was being closed
          queue,         \* mTransmitQueue
          transmitting,  \* mTransmitting
          receiver,      \* mReceiver
          wire,          \* what is left of the frame that the peer is sending
          leftover,      \* how many units at the front of its buffer are of an earlier connection
          behind,        \* how many units it has read since it fell out of step with the peer
          mistaken,      \* it passed on a frame that nobody sent
          removing,      \* RemovePort was called
          user,          \* the application: "out", "waiting" in _Start, "inside" a transaction
          pausing,       \* SuspendTimerSource::mPausing
          paused,        \* SuspendTimerSource::mIsPaused
          posts,         \* how many calls of Pause the io_service has in its queue
          held,          \* the io_service waits in Pause
          fault          \* the failures of the router itself

readVars == <<receiver, wire, leftover, behind, mistaken>>
routeVars == <<bound, stacks, up, late, queue, transmitting, readVars>>
pauseVars == <<pausing, paused, posts, held>>
vars == <<line, alive, routeVars, removing, user, pauseVars, fault>>

Init ==
    /\ MonitorInit
    /\ bound = {} /\ stacks = {} /\ up = {} /\ late = {} /\ queue = <<>> /\ transmitting = FALSE
    /\ receiver = NewReceiver /\ wire = <<>> /\ leftover = 0 /\ behind = 0 /\ mistaken = FALSE
    /\ removing = FALSE /\ user = "out"
    /\ pausing = FALSE /\ paused = FALSE /\ posts = 0 /\ held = FALSE
    /\ fault = {}

-----------------------------------------------------------------------------
(* SuspendTimerSource.  Every step is a critical section of its lock; a wait
   ends at any time after the broadcast that allows it. *)

\* _Start, up to its wait.  A thread in WaitForShutdown makes no other call; after it
\* RemovePort removes the stacks.
BeginTransaction ==
    /\ user = "out" /\ posts < MaxPosts /\ (removing => line.end = "done" /\ stacks # {})
    /\ user' = "waiting" /\ pausing' = TRUE /\ posts' = posts + 1
    /\ UNCHANGED <<line, alive, routeVars, removing, paused, held, fault>>

EnterTransaction ==
    /\ user = "waiting" /\ paused
    /\ user' = "inside"
    /\ UNCHANGED <<line, alive, routeVars, removing, pauseVars, fault>>

\* Pause, on the io_service, up to its wait, and after it.
Pause ==
    /\ alive /\ ~held /\ posts > 0
    /\ posts' = posts - 1 /\ held' = pausing /\ paused' = pausing
    /\ UNCHANGED <<line, alive, routeVars, removing, user, pausing, fault>>

\* Mutant of Resume: mIsPaused stays set.
ResumeStale ==
    /\ held /\ ~pausing
    /\ held' = FALSE
    /\ UNCHANGED <<line, alive, routeVars, removing, user, paused, pausing, posts, fault>>

Resume ==
    /\ held /\ ~pausing
    /\ held' = FALSE /\ paused' = FALSE
    /\ UNCHANGED <<line, alive, routeVars, removing, user, pausing, posts, fault>>

\* Each transaction of the application makes one call, and _End follows it, also
\* when the call throws.
Transaction ==
    /\ user = "inside"
    /\ user' = "out" /\ pausing' = FALSE
    /\ UNCHANGED <<alive, paused, posts, held, readVars>>

\* A callback of the io_service.
Callback == alive /\ ~held /\ "deleted" \notin fault /\ UNCHANGED <<removing, user, pauseVars>>

-----------------------------------------------------------------------------
(* The calls of the application *)

\* Mutant of AddContext: the context is not told that the layer is up.
AddContextQuietly(c, how) ==
    /\ c \notin bound /\ ~removing
    /\ LET l == Start(Fresh, how) IN
       /\ Becomes(l)
       /\ stacks' = IF l.bad = {} THEN stacks \cup {c} ELSE stacks
    /\ bound' = bound \cup {c}
    /\ late' = IF IsLayerUp(line) /\ ~IsOpen(line) THEN late \cup {c} ELSE late
    /\ UNCHANGED <<up, queue, transmitting, removing, fault>>

AddContext(c, how) ==
    /\ c \notin bound /\ ~removing
    /\ LET l == Start(Fresh, how) IN
       /\ Becomes(l)
       /\ stacks' = IF l.bad = {} THEN stacks \cup {c} ELSE stacks
    /\ bound' = bound \cup {c}
    /\ up' = IF IsOpen(line) THEN up \cup {c} ELSE up
    /\ late' = IF IsLayerUp(line) /\ ~IsOpen(line) THEN late \cup {c} ELSE late
    /\ UNCHANGED <<queue, transmitting, removing, fault>>

Queued(c) == \E i \in DOMAIN queue : queue[i] = c

\* The frames of the stack stay in the queue.
RemoveContext(c, how) ==
    /\ c \in stacks /\ (removing => line.end = "done")
    /\ Becomes(IF bound = {c} THEN Suspend(Fresh, how) ELSE Fresh)
    /\ bound' = bound \ {c} /\ stacks' = stacks \ {c}
    /\ up' = up \ {c} /\ late' = late \ {c}
    /\ fault' = fault \cup (IF Queued(c) THEN {"orphaned"} ELSE {})
    /\ UNCHANGED <<queue, transmitting, removing>>

\* Mutant of GoDown: mTransmitting stays set.
GoDownBusy ==
    /\ transmitting' = transmitting /\ queue' = <<>>
    /\ up' = up \ bound /\ late' = {} /\ fault' = fault

\* What OnPhysicalLayerCloseCallback does: a context that was never up throws, and the
\* ones after it in the map are not told.
GoDown ==
    /\ transmitting' = FALSE /\ queue' = <<>>
    /\ IF bound \subseteq up
       THEN up' = up \ bound /\ late' = {} /\ fault' = fault
       ELSE /\ \E told \in SUBSET (bound \cap up) : up' = up \ told
            /\ fault' = fault \cup {"not up"} /\ late' = late

\* An exception of Shutdown deletes the channel (autoDeleteChannel), whose layer and
\* timers still run: what follows is undefined, and the model goes no further.
RemovePort(how) ==
    /\ ~removing
    /\ removing' = TRUE
    /\ LET l == Shutdown(Fresh, how) IN
       /\ Becomes(l)
       /\ CASE l.bad # {} -> fault' = fault \cup {"deleted"} /\ UNCHANGED <<up, late, queue, transmitting>>
            [] l.bad = {} /\ IsLayerUp(line) /\ ~IsLayerUp(l) -> GoDown
            [] OTHER -> UNCHANGED <<up, late, queue, transmitting, fault>>
    /\ UNCHANGED <<bound, stacks>>

Call == Transaction /\ \E how \in Outcomes :
    \/ \E c \in Contexts : AddContext(c, how) \/ RemoveContext(c, how)
    \/ RemovePort(how)

-----------------------------------------------------------------------------
(* The callbacks of the layer and of the stacks' timers *)

\* CheckForSend, for the queue q: the layer's flags, and whether AsyncWrite threw.
Sending(l, q, busy) == IF q # <<>> /\ ~busy /\ CanWrite(l) THEN Raise(l, "writing") ELSE l
SendThrows(l, q, busy) == q # <<>> /\ ~busy /\ ~CanWrite(l)

\* Transmit, from a timer of the context's link layer.
Transmit(c) ==
    /\ Callback
    /\ c \in bound \cap up /\ Len(queue) < MaxQueue
    /\ IF IsLayerUp(line)
       THEN LET q == Append(queue, c) IN
            /\ queue' = q /\ transmitting' = TRUE
            /\ Becomes(Sending(Fresh, q, transmitting))
            /\ alive' = ~SendThrows(line, q, transmitting)
            /\ fault' = IF alive' THEN fault ELSE fault \cup {"write"}
       ELSE /\ fault' = fault \cup {"down"} /\ alive' = FALSE
            /\ UNCHANGED <<line, queue, transmitting>>
    /\ UNCHANGED <<bound, stacks, up, late, readVars>>

\* Every callback that may find the layer down: the monitor handles it first.
Settles(l) ==
    /\ Becomes(l)
    /\ IF IsLayerUp(line) /\ ~IsLayerUp(l)
       THEN GoDown
       ELSE UNCHANGED <<up, late, queue, transmitting, fault>>
    /\ alive' = (l.bad = {} /\ fault' = fault)
    /\ UNCHANGED <<bound, stacks, readVars>>

\* The connection is there: the first read, and then the contexts are told.  The receiver
\* keeps what it had.
OnOpenSuccess ==
    /\ Callback /\ OpenPending /\ "closing" \notin line.flags
    /\ Becomes(Raise(OpenSucceeded(Fresh), "reading"))
    /\ up' = bound /\ alive' = (up = {})
    /\ wire' = <<>> /\ receiver' = receiver
    /\ leftover' = Len(receiver.buffer) /\ behind' = leftover'
    /\ UNCHANGED <<mistaken, bound, stacks, late, queue, transmitting, fault>>

OnOpenFailed ==
    /\ Callback /\ OpenPending
    /\ Settles(OpenFailed(Fresh))

\* The receiver is in step with the peer: it has passed on what is complete, and it holds
\* the beginning of the frame of which the rest is still to come.
InStep(r, rest) ==
    /\ r.buffer \o rest \in {<<>>} \cup {Units(f) : f \in Frames}
    /\ r.state = CASE r.buffer = <<>> -> "Sync" [] Len(r.buffer) = 1 -> "Header" [] OTHER -> "Body"

\* r is what OnRead made of n units.  A frame that is not as it was sent, and that does not
\* begin with what an earlier connection left, is one that nobody sent.
Arrival(r, n, trouble) ==
    LET consumed == Len(receiver.buffer) + n - Len(r.buffer)
        invented == \E k \in DOMAIN r.pushed : ~r.pushed[k].genuine /\ (leftover = 0 \/ k > 1)
    IN  /\ receiver' = [state |-> r.state, buffer |-> r.buffer]
        /\ leftover' = IF consumed < leftover THEN leftover - consumed ELSE 0
        /\ behind' = CASE InStep(r, wire') -> 0
                       [] ~InStep(r, wire') /\ trouble -> n
                       [] OTHER -> IF behind = 0 THEN 0 ELSE behind + n
        /\ mistaken' = (mistaken \/ invented)

\* The contexts that are given the frames may answer, in this order.
Answers(pushed) ==
    {reply \in UNION {[1..n -> bound \cap up] : n \in 0..Len(pushed)} :
        \E at \in [DOMAIN reply -> DOMAIN pushed] :
            /\ \A i, j \in DOMAIN reply : i < j => at[i] < at[j]
            /\ \A i \in DOMAIN reply : reply[i] = Destination[pushed[at[i]].frame]}

\* The rest of _OnReceive: the replies are transmitted, and the next read starts.
Respond(reply) ==
    LET q == queue \o reply
        sent == Sending(Lower(Fresh, "reading"), q, transmitting)
    IN  /\ Len(q) <= MaxQueue
        /\ queue' = q /\ transmitting' = (transmitting \/ q # <<>>)
        /\ Becomes(IF CanRead(sent) THEN Raise(sent, "reading") ELSE sent)
        /\ alive' = ~SendThrows(line, q, transmitting)
        /\ fault' = IF alive' THEN fault ELSE fault \cup {"write"}

\* A read returns some of what the peer has still to send of a frame, or all of it and
\* some of the next one; noise may damage one unit.
OnReceive ==
    /\ Callback /\ "reading" \in line.flags /\ "closing" \notin line.flags
    /\ \E next \in {<<>>} \cup {Units(f) : f \in Frames} :
       LET stream == wire \o next IN
       \E n \in 1..Len(stream) : \E noise \in 0..n :
          LET r == OnRead(receiver, [k \in 1..n |-> IF k = noise THEN Damaged ELSE stream[k]]) IN
          /\ next # <<>> => n > Len(wire)
          /\ wire' = SubSeq(stream, n + 1, Len(stream))
          /\ Arrival(r, n, noise > 0 \/ \E k \in 1..n : stream[k][1] \in Refused)
          /\ \E reply \in Answers(r.pushed) : Respond(reply)
    /\ UNCHANGED <<bound, stacks, up, late>>

\* _OnSendSuccess: it asserts that the context of the frame is still bound. A build without
\* assertions goes on all the same.
OnSendSuccess ==
    /\ Callback /\ "writing" \in line.flags /\ "closing" \notin line.flags
    /\ LET rest == Tail(queue)
           idle == Lower(Fresh, "writing") IN
       /\ queue' = rest /\ transmitting' = (rest # <<>>)
       /\ Becomes(Sending(idle, rest, FALSE))
       /\ alive' = ~SendThrows(idle, rest, FALSE)
       /\ fault' = fault \cup (IF Head(queue) \in bound THEN {} ELSE {"unbound"})
                         \cup (IF alive' THEN {} ELSE {"write"})
    /\ UNCHANGED <<bound, stacks, up, late, readVars>>

\* The transfer f ends: with an error, or while the layer closes.
OnTransferEnd(f, failed) ==
    /\ Callback /\ f \in line.flags /\ (failed \/ "closing" \in line.flags)
    /\ \E how \in Outcomes :
          Settles(IF failed THEN TransferFailed(Fresh, f, how) ELSE TransferIgnored(Fresh, f, how))

\* Mutant of OnOpenTimer: it may expire although it does not run.
OnOpenTimerAnyTime ==
    /\ Callback
    /\ \E how \in Outcomes : Settles(OnOpenTimerExpiration(Fresh, how))

OnOpenTimer ==
    /\ Callback /\ line.timer
    /\ \E how \in Outcomes : Settles(OnOpenTimerExpiration(Fresh, how))

OnFinalShutdown ==
    /\ Callback /\ line.end = "posted"
    /\ Becomes(DoFinalShutdown(Fresh))
    /\ UNCHANGED <<alive, routeVars, fault>>

-----------------------------------------------------------------------------

TransferEnd == \E f \in {"reading", "writing"}, failed \in BOOLEAN : OnTransferEnd(f, failed)

Next ==
    \/ BeginTransaction \/ EnterTransaction \/ Pause \/ Resume \/ Call
    \/ \E c \in Contexts : Transmit(c)
    \/ OnOpenSuccess \/ OnOpenFailed \/ OnReceive \/ OnSendSuccess
    \/ TransferEnd \/ OnOpenTimer \/ OnFinalShutdown

Spec == Init /\ [][Next]_vars

\* The two threads run, and a wait that was told to end ends; the io_service runs what
\* is posted, its timers expire, and an operation of a closing layer ends, with or
\* without an error.  Nothing is assumed of the peer, of the stacks, or of an open or a
\* read that nobody closes.
Handshake == EnterTransaction \/ Pause \/ Resume \/ Call

Progress ==
    \/ OnOpenTimer \/ OnFinalShutdown
    \/ "closing" \in line.flags /\ (OnOpenFailed \/ TransferEnd)

FairSpec == Spec /\ WF_vars(Handshake) /\ WF_vars(Progress)

-----------------------------------------------------------------------------
(* Type and invariants *)

TypeOK ==
    /\ ConnectionTypeOK
    /\ {bound, stacks, up, late} \subseteq SUBSET Contexts
    /\ queue \in Seq(Contexts) /\ Len(queue) <= MaxQueue
    /\ {transmitting, removing, pausing, paused, held} \subseteq BOOLEAN
    /\ user \in {"out", "waiting", "inside"} /\ posts \in 0..MaxPosts
    /\ fault \subseteq {"not up", "write", "down", "orphaned", "unbound", "deleted"}

\* The application changes the router only while the io_service waits in Pause, although
\* mIsPaused stays TRUE from one transaction to the next one and Pause calls pile up.
UserRunsAlone == user = "inside" => held

\* Every bound context was told that the layer is up, and none while it is not; except a
\* context bound while the router, already idle, was closing the layer: GetState says
\* closed, the layer is still up.  Such a context makes the close callback throw.
ContextsMatchLayer ==
    /\ alive => up = IF IsLayerUp(line) THEN bound \ late ELSE {}
    /\ "not up" \in fault => late # {}

\* A layer that is up and not closing writes the first frame of the queue or has none; a
\* layer that is down has no frame left of the last connection; a write is asked of a
\* closing layer only by a stack of a port that is being removed.
QueueMatchesWrite ==
    /\ "down" \notin fault
    /\ "write" \in fault => removing
    /\ alive /\ ~IsLayerUp(line) => queue = <<>> /\ ~transmitting
    /\ alive /\ IsLayerUp(line) /\ "closing" \notin line.flags =>
          (transmitting <=> "writing" \in line.flags) /\ (transmitting <=> queue # <<>>)

\* A port with a stack is open or on its way to be, and one without is not, however
\* often stacks come and go while the layer opens and closes.
BoundMeansConnecting ==
    ~removing =>
    IF bound # {} THEN line.state \in {"Opening", "OpeningClosing", "Open", "Waiting", "Closing"}
    ELSE line.state \in {"Init", "OpeningSuspending", "Suspending", "Suspended"}

\* LinkLayerReceiver: it is in step with the peer unless noise, a frame it refuses or the
\* bytes of an earlier connection came in between.  Then it is in step again within two of
\* the longest frames, and what it passes on was sent, except a frame whose header was
\* left by an earlier connection.  The read that follows always has room.
LongestFrame == CHOOSE n \in {Size(f) : f \in Frames} : \A f \in Frames : Size(f) <= n

ReceiverFollowsPeer ==
    /\ behind = 0 => InStep(receiver, wire) \/ ~IsOpen(line)
    /\ behind < 2 * LongestFrame
    /\ ~mistaken
    /\ Len(receiver.buffer) < LongestFrame

\* The stacks of the port fit its layer and its monitor.
StacksMatchLayer == TypeOK /\ ContextsMatchLayer /\ BoundMeansConnecting

\* The frames that wait are those of stacks that are bound, as the assertion of
\* _OnSendSuccess has it, until a stack is removed of which a frame waits: RemoveContext
\* leaves the frame, and the assertion fails when it has been written.
FramesOfBoundStacks ==
    /\ "orphaned" \notin fault => \A c \in Contexts : Queued(c) => c \in bound
    /\ "unbound" \in fault => "orphaned" \in fault

\* LinkLayerRouter: its stacks, its queue and its layer agree; a frame of a stack that was
\* removed while it waited is the exception.
PortMatchesLayer == StacksMatchLayer /\ QueueMatchesWrite /\ FramesOfBoundStacks

\* assert(pContext != NULL) in LinkLayerRouter::_OnSendSuccess. It does not hold when a stack
\* is removed while its frame is being written.
SenderStillBound == "unbound" \notin fault

-----------------------------------------------------------------------------
(* Liveness *)

\* The wait of RemovePort for the shutdown ends, unless the thread has ended, an open
\* that threw has left the layer opening, or the request itself threw.
RemovalEnds ==
    removing ~> (line.end = "done" \/ ~alive \/ "open" \in line.bad \/ "deleted" \in fault)

=============================================================================
