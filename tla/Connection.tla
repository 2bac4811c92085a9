----------------------------- MODULE Connection -----------------------------
(***************************************************************************)
(* A connection: PhysicalLayerAsyncBase (the flags of one asynchronous     *)
(* layer) with its handler PhysicalLayerMonitor (opening, retrying,        *)
(* closing).  A handler of either calls the other before it returns, so a  *)
(* connection is one record and an operation maps it to the next.          *)
(*                                                                         *)
(*   flags   the members of PhysicalLayerAsyncBase::State that are TRUE    *)
(*   state   mpState;  timer  mpOpenTimer # NULL                           *)
(*   end     mFinalShutdown: "no", "posted" (DoFinalShutdown is), "done"   *)
(*   bad     the exceptions and assertion failures so far:                 *)
(*             "event"  an event in a state whose base class excludes it,  *)
(*                      or an operation the flags do not allow             *)
(*             "timer"  the open timer started twice, or not there         *)
(*             "close"  a second AsyncClose: StartClose throws             *)
(*             "open"   DoOpen of a server threw (its port is taken)       *)
(*                                                                         *)
(* "how" says what DoOpen does if it is called: "pending", "unresolved"    *)
(* (a client that cannot resolve its host calls back with an error before  *)
(* AsyncOpen returns) or "refused" (a server that cannot bind throws after *)
(* mOpening is set, and nothing calls back).                               *)
(***************************************************************************)
EXTENDS Naturals

Flags == {"open", "opening", "reading", "writing", "closing"}
States == {"Init", "Suspended", "Opening", "OpeningOne", "OpeningClosing", "OpeningStopping",
           "OpeningSuspending", "Open", "OpenOne", "Waiting", "WaitingOne", "Closing",
           "Suspending", "ShutingDown", "Shutdown"}
Errors == {"event", "timer", "close", "open"}
AllOutcomes == {"pending", "unresolved", "refused"}

Connections == [flags : SUBSET Flags, state : States, timer : BOOLEAN,
                end : {"no", "posted", "done"}, bad : SUBSET Errors]

NewConnection == [flags |-> {}, state |-> "Init", timer |-> FALSE, end |-> "no", bad |-> {}]

-----------------------------------------------------------------------------
(* The flags *)

CanClose(l) == (l.flags \cap {"open", "opening"} # {}) /\ "closing" \notin l.flags
CanRead(l) == "open" \in l.flags /\ l.flags \cap {"closing", "reading"} = {}
CanWrite(l) == "open" \in l.flags /\ l.flags \cap {"closing", "writing"} = {}
Raise(l, f) == [l EXCEPT !.flags = @ \cup {f}]
Lower(l, f) == [l EXCEPT !.flags = @ \ {f}]
Closed(l) == "closing" \in l.flags /\ l.flags \cap {"opening", "reading", "writing"} = {}

IsLayerUp(l) == "open" \in l.flags
IsOpen(l) == l.state \in {"Open", "OpenOne"}

-----------------------------------------------------------------------------
(* The monitor's states: what an event makes of a connection *)

Error(l, what) == [l EXCEPT !.bad = @ \cup {what}]

GotoQuietly(l, s) == [l EXCEPT !.state = s]

\* ChangeState: entering the last state posts DoFinalShutdown.
Goto(l, s) ==
    [l EXCEPT !.state = s, !.end = IF s = "Shutdown" /\ @ = "no" THEN "posted" ELSE @]

CancelOpenTimerForgotten(l) == l
StartOpenTimer(l) == IF l.timer THEN Error(l, "timer") ELSE [l EXCEPT !.timer = TRUE]
CancelOpenTimer(l) == IF l.timer THEN [l EXCEPT !.timer = FALSE] ELSE Error(l, "timer")

OnOpenFailure(l) ==
    CASE l.state \in {"Opening", "OpeningClosing"} -> StartOpenTimer(Goto(l, "Waiting"))
      [] l.state \in {"OpeningOne", "OpeningSuspending"} -> Goto(l, "Suspended")
      [] l.state = "OpeningStopping" -> Goto(l, "Shutdown")
      [] OTHER -> Error(l, "event")

AsyncOpen(l, how) ==
    IF l.flags # {} THEN Error(l, "event")
    ELSE CASE how = "pending" -> Raise(l, "opening")
           [] how = "unresolved" -> OnOpenFailure(l)
           [] how = "refused" -> Error(Raise(l, "opening"), "open")

OnLayerOpen(l) ==
    CASE l.state = "Opening" -> Goto(l, "Open")
      [] l.state = "OpeningOne" -> Goto(l, "OpenOne")
      [] OTHER -> Error(l, "event")

\* StartsOnClose goes to Suspended and calls Start.
OnLayerClose(l, how) ==
    CASE l.state \in {"Open", "Closing"} -> AsyncOpen(Goto(l, "Opening"), how)
      [] l.state \in {"OpenOne", "Suspending"} -> Goto(l, "Suspended")
      [] l.state = "ShutingDown" -> Goto(l, "Shutdown")
      [] OTHER -> Error(l, "event")

OnOpenTimeout(l, how) ==
    CASE l.state = "Waiting" -> AsyncOpen(Goto(l, "Opening"), how)
      [] l.state = "WaitingOne" -> AsyncOpen(Goto(l, "OpeningOne"), how)
      [] OTHER -> Error(l, "event")

\* CheckForClose, which says that the layer is down, with DoThisLayerDown.
SettleHalf(l) == IF Closed(l) THEN [l EXCEPT !.flags = @ \ {"closing"}] ELSE l
Settle(l) == IF Closed(l) THEN [l EXCEPT !.flags = @ \ {"closing", "open"}] ELSE l
CheckForClose(l, how) == IF Closed(l) THEN OnLayerClose(Settle(l), how) ELSE l

AsyncClose(l, how) ==
    IF CanClose(l) THEN CheckForClose(Raise(l, "closing"), how) ELSE Error(l, "close")

\* The requests.  A state that is not listed ignores the request.
OnStartRequest ==
    [Init |-> "Opening", Suspended |-> "Opening", OpeningOne |-> "Opening",
     OpeningSuspending |-> "OpeningClosing", OpenOne |-> "Open", WaitingOne |-> "Waiting",
     Suspending |-> "Closing"]

OnStartOneRequest ==
    [Init |-> "OpeningOne", Suspended |-> "OpeningOne", Opening |-> "OpeningOne",
     OpeningClosing |-> "OpeningSuspending", Open |-> "OpenOne", Waiting |-> "WaitingOne",
     Closing |-> "Suspending"]

OnCloseRequest ==
    [Opening |-> "OpeningClosing", OpeningOne |-> "OpeningSuspending", Open |-> "Closing",
     OpenOne |-> "Suspending"]

OnSuspendRequest ==
    [Opening |-> "OpeningSuspending", OpeningOne |-> "OpeningSuspending",
     OpeningClosing |-> "OpeningSuspending", Open |-> "Suspending", OpenOne |-> "Suspending",
     Closing |-> "Suspending", Waiting |-> "Suspended", WaitingOne |-> "Suspended"]

OnShutdownRequest ==
    [Init |-> "Shutdown", Suspended |-> "Shutdown", Opening |-> "OpeningStopping",
     OpeningOne |-> "OpeningStopping", OpeningClosing |-> "OpeningStopping",
     OpeningSuspending |-> "OpeningStopping", Open |-> "ShutingDown", OpenOne |-> "ShutingDown",
     Closing |-> "ShutingDown", Suspending |-> "ShutingDown", Waiting |-> "Shutdown",
     WaitingOne |-> "Shutdown"]

\* What the handlers of a starting and of a stopping request do beside ChangeState:
\* an idle connection is opened; an open one, or one that opens, is closed; a wait
\* for the next attempt ends.
Starting(l, next, how) ==
    LET moved == Goto(l, next[l.state]) IN
    IF l.state \notin DOMAIN next THEN l
    ELSE IF l.state \in {"Init", "Suspended"} THEN AsyncOpen(moved, how)
    ELSE moved

Stopping(l, next, how) ==
    IF l.state \notin DOMAIN next THEN l
    ELSE CASE l.state \in {"Opening", "OpeningOne", "Open", "OpenOne"} ->
                 AsyncClose(Goto(l, next[l.state]), how)
           [] l.state \in {"Waiting", "WaitingOne"} -> Goto(CancelOpenTimer(l), next[l.state])
           [] OTHER -> Goto(l, next[l.state])

Start(l, how) == Starting(l, OnStartRequest, how)
StartOne(l, how) == Starting(l, OnStartOneRequest, how)
Close(l, how) == Stopping(l, OnCloseRequest, how)
Suspend(l, how) == Stopping(l, OnSuspendRequest, how)
Shutdown(l, how) == Stopping(l, OnShutdownRequest, how)

-----------------------------------------------------------------------------
(* The layer's callbacks *)

OpenFailed(l) == OnOpenFailure(Settle(Lower(l, "opening")))

OpenSucceeded(l) ==
    IF "closing" \in l.flags THEN OpenFailed(l)
    ELSE OnLayerOpen(Raise(Lower(l, "opening"), "open"))

\* A read or a write ended with an error; or it ended while the layer closes, and
\* its result is ignored.
TransferFailed(l, f, how) ==
    LET ended == Lower(l, f) IN
    CheckForClose(IF CanClose(ended) THEN Raise(ended, "closing") ELSE ended, how)

TransferIgnored(l, f, how) == CheckForClose(Lower(l, f), how)

OnOpenTimerExpiration(l, how) == OnOpenTimeout([l EXCEPT !.timer = FALSE], how)
DoFinalShutdown(l) == [l EXCEPT !.end = "done"]

=============================================================================
