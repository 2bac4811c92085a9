-------------------------------- MODULE Vto --------------------------------
(***************************************************************************)
(* A byte stream through DNP3: two EnhancedVtoRouters, each the owner of a *)
(* connection, joined by the VTO objects of a master and an outstation.    *)
(* The "server" (ServerSocketVtoRouter) listens for a local application;   *)
(* the "client" (ClientSocketVtoRouter) connects, when the server says so, *)
(* to the device at its end.  Each side has its VtoWriter, and the objects *)
(* that its stack has taken from it and sends (VtoTransmitTask of a        *)
(* master, the event buffer of an outstation).                             *)
(*                                                                         *)
(* A handler calls the next before it returns, so a side is one record and *)
(* an operation maps it to the next; "thrown" cuts the rest of a chain of  *)
(* calls short.  A read of the connection is one chunk.                    *)
(***************************************************************************)
EXTENDS Connection, Sequences

CONSTANTS WriterSize,    \* VtoWriterQueueSize, in chunks
          BatchSize,     \* room for the objects that a stack has taken and sends
          ReadLimit,     \* how many messages wait for the writer before reading stops
          MaxSessions,   \* bound on the connections of a side
          MaxChunks,     \* of each side: bound on the chunks read from one connection
          MaxMishaps     \* bound on the batches whose answer is lost, and on those that are
                         \* answered and not passed on

ASSUME TunnelAssumption ==
    /\ {WriterSize, BatchSize, ReadLimit, MaxSessions, MaxMishaps} \subseteq Nat
    /\ MaxChunks \in [{"server", "client"} -> Nat]

VARIABLES side,      \* the two routers
          batch,     \* the objects that the stack of a side sends
          session,   \* how many connections a side has had
          made,      \* how many chunks were read from the present one
          repeats,   \* how many batches were sent again
          drops,     \* how many batches were answered or confirmed, and not passed on
          dead       \* the sides whose thread an exception has ended

vtoVars == <<side, batch, session, made, repeats, drops, dead>>

Sides == {"server", "client"}
Other(r) == IF r = "server" THEN "client" ELSE "server"

Data(s, n) == [type |-> "data", ses |-> s, n |-> n]
Opened == [type |-> "opened", ses |-> 0, n |-> 0]
Closing == [type |-> "closed", ses |-> 0, n |-> 0]
Objects == {Opened, Closing} \cup
           UNION {{Data(s, n) : s \in 1..MaxSessions, n \in 1..MaxChunks[r]} : r \in Sides}
Chunks == {o \in Objects : o.type = "data"}

\* role; the connection; mLocalConnected, mRemoteConnected, mInstRemoteConnected;
\* mPhysLayerTxBuffer, mVtoTxBuffer and the writer's mQueue; what was written to the
\* present connection; an exception on its way.
Routers == [role : Sides, conn : Connections,
            local : BOOLEAN, remote : BOOLEAN, inst : BOOLEAN,
            toPhys : Seq(Objects), toVto : Seq(Objects), queue : Seq(Objects),
            wrote : Seq(Chunks), thrown : BOOLEAN]

-----------------------------------------------------------------------------
(* VtoWriter *)

\* With n chunks in its queue.  The code's difference is a size_t: beyond the limit it
\* wraps round to a huge number.
NumChunksAvailable(n) == IF n > WriterSize THEN WriterSize + 1 ELSE WriterSize - n

-----------------------------------------------------------------------------
(* VtoRouter and EnhancedVtoRouter *)

CheckForPhysRead(s) ==
    IF CanRead(s.conn) /\ Len(s.toVto) < ReadLimit /\ ~s.thrown
    THEN [s EXCEPT !.conn = Raise(@, "reading")] ELSE s

\* Control messages go to the writer's queue whatever its room, chunks if there is some:
\* what is before the first chunk without room is passed on.
Stays(s, i) == s.toVto[i].type = "data" /\ NumChunksAvailable(Len(s.queue) + i - 1) = 0

Moved(s) == CHOOSE k \in 0..Len(s.toVto) :
                /\ \A i \in 1..k : ~Stays(s, i)
                /\ k < Len(s.toVto) => Stays(s, k + 1)

CheckForVtoWrite(s) ==
    IF s.thrown THEN s
    ELSE CheckForPhysRead([s EXCEPT !.queue = @ \o SubSeq(s.toVto, 1, Moved(s)),
                                    !.toVto = SubSeq(@, Moved(s) + 1, Len(@))])

NotifyRemoteSideOfState(s, connected) ==
    IF s.thrown THEN s
    ELSE CheckForVtoWrite([s EXCEPT !.toVto = Append(@, IF connected THEN Opened ELSE Closing)])

FlushBuffers(s) == IF s.thrown THEN s ELSE [s EXCEPT !.toPhys = <<>>]

\* A request l made of the connection: its exception, or the callback before it returned,
\* which is "down".
Calm(s) == [s.conn EXCEPT !.bad = {}]

Asked(s, l, tried, down) ==
    LET t == [s EXCEPT !.conn = [l EXCEPT !.bad = @ \cup s.conn.bad]] IN
    CASE l.bad # {} -> [t EXCEPT !.thrown = TRUE]
      [] l.bad = {} /\ (tried \/ (IsLayerUp(s.conn) /\ ~IsLayerUp(l))) -> down[t]
      [] OTHER -> t

AskClose(s, how, down) == IF s.thrown THEN s ELSE Asked(s, Close(Calm(s), how), FALSE, down)
AskSuspend(s, how, down) == IF s.thrown THEN s ELSE Asked(s, Suspend(Calm(s), how), FALSE, down)
AskStartOne(s, how, down) ==
    IF s.thrown THEN s
    ELSE Asked(s, StartOne(Calm(s), how),
               how = "unresolved" /\ s.conn.state \in {"Init", "Suspended"}, down)

SetLocalConnected(s, connected, how, down) ==
    IF s.local = connected \/ s.thrown THEN s
    ELSE LET t == [s EXCEPT !.local = connected]
             u == IF connected THEN t
                  ELSE IF t.role = "server" THEN FlushBuffers(t)
                  ELSE AskClose(FlushBuffers(t), how, down)
         IN  NotifyRemoteSideOfState(u, connected)

\* DoVtoRemoteConnectedChanged with the two HandleVtoRemoteConnectedChanged.
RemoteConnected(s, opened, how, down) ==
    IF s.remote = opened THEN s
    ELSE LET t == [s EXCEPT !.remote = opened] IN
         CASE opened /\ t.role = "client" ->
                 AskStartOne(SetLocalConnected(t, TRUE, how, down), how, down)
           [] ~opened /\ t.role = "client" -> AskSuspend(FlushBuffers(t), how, down)
           [] ~opened /\ t.role = "server" -> AskClose(FlushBuffers(t), how, down)
           [] OTHER -> t

CheckForPhysWriteTwice(s, how, down) ==
    IF s.thrown \/ s.toPhys = <<>> THEN s
    ELSE LET first == Head(s.toPhys)
             popped == [s EXCEPT !.toPhys = Tail(@)] IN
         CASE first.type # "data" -> RemoteConnected(popped, first = Opened, how, down)
           [] first.type = "data" /\ CanWrite(s.conn) ->
                 [s EXCEPT !.conn = Raise(@, "writing"), !.wrote = Append(@, first)]
           [] OTHER -> s

CheckForPhysWriteDrops(s, how, down) ==
    IF s.thrown \/ s.toPhys = <<>> THEN s
    ELSE LET first == Head(s.toPhys)
             popped == [s EXCEPT !.toPhys = Tail(@)] IN
         CASE first.type # "data" -> RemoteConnected(popped, first = Opened, how, down)
           [] first.type = "data" /\ CanWrite(s.conn) ->
                 [popped EXCEPT !.conn = Raise(@, "writing"), !.wrote = Append(@, first)]
           [] OTHER -> popped

CheckForPhysWrite(s, how, down) ==
    IF s.thrown \/ s.toPhys = <<>> THEN s
    ELSE LET first == Head(s.toPhys)
             popped == [s EXCEPT !.toPhys = Tail(@)] IN
         CASE first.type # "data" -> RemoteConnected(popped, first = Opened, how, down)
           [] first.type = "data" /\ CanWrite(s.conn) ->
                 [popped EXCEPT !.conn = Raise(@, "writing"), !.wrote = Append(@, first)]
           [] OTHER -> s

\* OnPhysicalLayerOpenFailureCallback and OnPhysicalLayerCloseCallback.
NotConnectedQuietly(s, how, down) == CheckForVtoWrite(CheckForPhysWrite(s, how, down))

NotConnected(s, how, down) ==
    CheckForVtoWrite(CheckForPhysWrite(SetLocalConnected(s, FALSE, how, down), how, down))

\* A callback within a request may itself make requests, but none of those calls back
\* before it returns: one that did would be marked as an event that must not be.
TooDeep == [s \in Routers |-> [s EXCEPT !.conn = Error(@, "event")]]
Down(how) == [s \in Routers |-> NotConnected(s, how, TooDeep)]

\* What a message that does not fit the state of the remote side leads to.
CloseIfConnected(s, how) == IF s.local THEN AskClose(FlushBuffers(s), how, Down(how)) ELSE s

HandleReceivingDataWhenRemoteClosed(s, how) ==
    IF s.local THEN CloseIfConnected(s, how) ELSE NotifyRemoteSideOfState(s, FALSE)
HandleDuplicateClose(s, how) == IF s.role = "server" THEN CloseIfConnected(s, how) ELSE s

\* OnVtoDataReceived with CheckIncomingVtoData.
OnVtoDataReceived(s, o, how) ==
    LET accepted(t) == CheckForPhysWrite([t EXCEPT !.toPhys = Append(@, o)], how, Down(how)) IN
    CASE o.type = "data" ->
            IF s.inst THEN accepted(s) ELSE HandleReceivingDataWhenRemoteClosed(s, how)
      [] o = Opened ->
            IF s.inst THEN CloseIfConnected(s, how) ELSE accepted([s EXCEPT !.inst = TRUE])
      [] o = Closing ->
            IF s.inst THEN accepted([s EXCEPT !.inst = FALSE]) ELSE HandleDuplicateClose(s, how)

\* VtoReader passes the objects of a fragment on; it catches what a control message
\* throws (UpdateEnhancedVto), not what a chunk throws: that ends the fragment, of which
\* the rest is lost.
Received(s, o, how) ==
    LET t == OnVtoDataReceived(s, o, how) IN
    CASE s.thrown -> s
      [] ~s.thrown /\ o.type = "data" -> t
      [] ~s.thrown /\ o.type # "data" -> [t EXCEPT !.thrown = FALSE]

Update(s, objects, how) ==
    LET after[n \in 0..Len(objects)] ==
            IF n = 0 THEN s ELSE Received(after[n - 1], objects[n], how)
    IN  after[Len(objects)]

-----------------------------------------------------------------------------
(* The callbacks *)

NewRouter(r, l) ==
    [role |-> r, conn |-> l, local |-> FALSE, remote |-> FALSE, inst |-> FALSE,
     toPhys |-> <<>>, toVto |-> <<>>, queue |-> <<>>, wrote |-> <<>>, thrown |-> FALSE]

VtoInit ==
    /\ side = [r \in Sides |->
                 NewRouter(r, IF r = "server" THEN Start(NewConnection, "pending")
                                              ELSE NewConnection)]
    /\ batch = [r \in Sides |-> <<>>]
    /\ session = [r \in Sides |-> 0] /\ made = [r \in Sides |-> 0]
    /\ repeats = 0 /\ drops = 0 /\ dead = {}

\* What DoOpen may do: the client's host may be unknown; the server, which closes its
\* acceptor after each connection, may find its port taken when it binds again.
Ways(r) == IF r = "client" THEN {"pending", "unresolved"} ELSE {"pending", "refused"}

\* The router s is what a call into side r leaves.
Leaves(r, s) == side' = [side EXCEPT ![r] = [s EXCEPT !.thrown = FALSE]]

\* The callback of side r ends with the router s; an exception ends the thread.
Returns(r, s) == Leaves(r, s) /\ dead' = IF s.thrown THEN dead \cup {r} ELSE dead

With(r, l) == [side[r] EXCEPT !.conn = l]
Runs(r) == r \notin dead

\* An attempt to open is under way: after a refused one nobody calls back.
Attempt(l) == "opening" \in l.flags /\ "open" \notin l.bad

OpenSuccessCallback(r, how) ==
    LET l == side[r].conn
        up == SetLocalConnected([With(r, OpenSucceeded(l)) EXCEPT !.wrote = <<>>], TRUE, how, Down(how)) IN
    /\ Runs(r) /\ Attempt(l) /\ "closing" \notin l.flags
    /\ session[r] < MaxSessions
    /\ session' = [session EXCEPT ![r] = @ + 1] /\ made' = [made EXCEPT ![r] = 0]
    /\ Returns(r, CheckForVtoWrite(CheckForPhysWrite(CheckForPhysRead(up), how, Down(how))))
    /\ UNCHANGED <<batch, repeats, drops>>

OpenFailureCallback(r, how) ==
    /\ Runs(r) /\ Attempt(side[r].conn)
    /\ r = "client" \/ "closing" \in side[r].conn.flags
    /\ Returns(r, NotConnected(With(r, OpenFailed(side[r].conn)), how, Down(how)))
    /\ UNCHANGED <<batch, session, made, repeats, drops>>

ReadCallback(r) ==
    LET s == side[r]
        chunk == Data(session[r], made[r] + 1)
        got == [With(r, Lower(s.conn, "reading")) EXCEPT !.toVto = Append(@, chunk)] IN
    /\ Runs(r) /\ "reading" \in s.conn.flags /\ "closing" \notin s.conn.flags
    /\ made[r] < MaxChunks[r]
    /\ made' = [made EXCEPT ![r] = @ + 1]
    /\ Returns(r, CheckForPhysRead(CheckForVtoWrite(got)))
    /\ UNCHANGED <<batch, session, repeats, drops>>

WriteCallback(r, how) ==
    LET l == side[r].conn IN
    /\ Runs(r) /\ "writing" \in l.flags /\ "closing" \notin l.flags
    /\ Returns(r, CheckForPhysWrite(With(r, Lower(l, "writing")), how, Down(how)))
    /\ UNCHANGED <<batch, session, made, repeats, drops>>

TransferEndCallback(r, f, failed, how) ==
    LET s == side[r]
        ended == IF failed THEN TransferFailed(Calm(s), f, how) ELSE TransferIgnored(Calm(s), f, how) IN
    /\ Runs(r) /\ f \in s.conn.flags /\ (failed \/ "closing" \in s.conn.flags)
    /\ Returns(r, Asked(s, ended, FALSE, Down(how)))
    /\ UNCHANGED <<batch, session, made, repeats, drops>>

OpenTimerCallback(r, how) ==
    LET s == side[r] IN
    /\ Runs(r) /\ s.conn.timer
    /\ Returns(r, Asked(s, OnOpenTimerExpiration(Calm(s), how), FALSE, Down(how)))
    /\ UNCHANGED <<batch, session, made, repeats, drops>>

\* Flush: the stack takes what it has room for, and the routers hear of the room.
Flush(r) ==
    LET s == side[r]
        room == BatchSize - Len(batch[r])
        k == IF Len(s.queue) < room THEN Len(s.queue) ELSE room IN
    /\ Runs(r) /\ k > 0
    /\ batch' = [batch EXCEPT ![r] = @ \o SubSeq(s.queue, 1, k)]
    /\ Returns(r, CheckForVtoWrite([s EXCEPT !.queue = SubSeq(@, k + 1, Len(@))]))
    /\ UNCHANGED <<session, made, repeats, drops>>

Mishap == repeats + drops < MaxMishaps

\* The other stack gets the fragment; without its answer the objects stay selected.
\* The stack catches what a chunk throws (AppLayer::_OnReceive) and goes on.
Transfer(r, answered, how) ==
    LET o == Other(r) IN
    /\ Runs(r) /\ Runs(o) /\ batch[r] # <<>>
    /\ Leaves(o, Update(side[o], batch[r], how))
    /\ IF answered THEN batch' = [batch EXCEPT ![r] = <<>>] /\ UNCHANGED repeats
       ELSE Mishap /\ repeats' = repeats + 1 /\ UNCHANGED batch
    /\ UNCHANGED <<session, made, drops, dead>>

\* The other stack answers or confirms the fragment without passing its objects on: a
\* master that no longer waits for the response has confirmed it, and an outstation takes
\* a transfer that it deferred and then got again for one it has handled.
Drop(r) ==
    /\ Runs(r) /\ Runs(Other(r)) /\ batch[r] # <<>>
    /\ batch' = [batch EXCEPT ![r] = <<>>]
    /\ Mishap /\ drops' = drops + 1
    /\ UNCHANGED <<side, session, made, repeats, dead>>

VtoNext == \E r \in Sides :
    \/ \E how \in Ways(r) :
          \/ OpenSuccessCallback(r, how) \/ OpenFailureCallback(r, how) \/ WriteCallback(r, how)
          \/ OpenTimerCallback(r, how)
          \/ \E f \in {"reading", "writing"}, failed \in BOOLEAN : TransferEndCallback(r, f, failed, how)
    \/ ReadCallback(r) \/ Flush(r) \/ Drop(r)
    \/ \E answered \in BOOLEAN, how \in Ways(Other(r)) : Transfer(r, answered, how)

VtoSpec == VtoInit /\ [][VtoNext]_vtoVars

-----------------------------------------------------------------------------
(* What must hold *)

\* The types of the two routers and of what is under way; a stack takes no more objects
\* from a writer than it has room for.
VtoTypeOK ==
    /\ side \in [Sides -> Routers]
    /\ batch \in [Sides -> Seq(Objects)] /\ \A r \in Sides : Len(batch[r]) <= BatchSize
    /\ session \in [Sides -> 0..MaxSessions] /\ made \in [Sides -> Nat]
    /\ repeats \in 0..MaxMishaps /\ drops \in 0..MaxMishaps /\ dead \subseteq Sides

\* mLocalConnected is set by the callbacks of the layer, by requests that fail before
\* they return, and, at the client, before the layer is opened at all.  Nevertheless it is
\* set whenever the layer is up.  The client's is set only while there is a connection or
\* an attempt whose end will clear it; the server's only while its layer is up, except
\* that a server whose port is taken when it binds again, as the connection closes, goes
\* on to say that it is connected (DoOpen throws before the close callback).  Such a
\* server never opens again.  Nothing is asked of the layer that its state excludes,
\* except a second close.
LocalMatchesLayer ==
    /\ \A r \in Sides : IsLayerUp(side[r].conn) => side[r].local
    /\ side["client"].local => side["client"].conn.flags # {}
    /\ LET s == side["server"] IN
       /\ s.local => IsLayerUp(s.conn) \/ "open" \in s.conn.bad
       /\ "open" \in s.conn.bad => s.conn.flags \in {{"opening"}, {"opening", "closing"}}
    /\ side["client"].conn.bad \subseteq {"close"}
    /\ side["server"].conn.bad \subseteq {"close", "open"}

\* The routers have their types and fit their layers.
Consistent == VtoTypeOK /\ LocalMatchesLayer

\* While no fragment is repeated, what is written to one connection comes in the order in
\* which it was read at the other end, each chunk at most once, although chunks and the
\* news of connections go through four queues with their own rules for room and flushing,
\* some fragments are dropped and others cut short by exceptions.
InOrder == repeats = 0 => \A r \in Sides : LET w == side[r].wrote IN
    \A i, j \in DOMAIN w : i < j =>
        w[i].ses < w[j].ses \/ (w[i].ses = w[j].ses /\ w[i].n < w[j].n)

\* The device at the client's end sees in each connection what one application sent,
\* from its first chunk and without a gap, while no fragment is repeated and none is
\* answered or confirmed without being passed on: an exception that ends a fragment early
\* does no harm, since it leaves the client without a connection to write to.  (The server
\* cannot promise as much: it may write the rest of an answer, or two, to a later one.)
OneStreamAtClient == repeats = 0 /\ drops = 0 =>
    LET w == side["client"].wrote IN
    \A i \in DOMAIN w : w[i] = Data(w[1].ses, i)

\* The tunnel keeps the two streams (VtoRouter, EnhancedVtoRouter).
StreamsKept == InOrder /\ OneStreamAtClient

=============================================================================
