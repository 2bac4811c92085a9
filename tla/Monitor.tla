------------------------------ MODULE Monitor ------------------------------
(***************************************************************************)
(* One connection with an owner that asks for anything at any time: the    *)
(* behaviours that Router is compared with, and that the proofs are about. *)
(***************************************************************************)
EXTENDS Connection

CONSTANT Outcomes  \* what DoOpen of this layer may do

ASSUME OutcomesAssumption == Outcomes \subseteq AllOutcomes

VARIABLES line,    \* the connection
          alive    \* the thread of the io_service runs

connVars == <<line, alive>>

\* An exception that leaves a callback ends the thread (AsyncStackManager::Run, whose
\* loop goes on only after a run() that returned).  The operations are applied to a
\* connection without past errors, so that what they add is seen.
Fresh == [line EXCEPT !.bad = {}]
Becomes(l) == line' = [l EXCEPT !.bad = @ \cup line.bad]
Survives(l) == alive' \in BOOLEAN /\ (alive' => alive /\ l.bad = {})

Requested(how) ==
    {Start(Fresh, how), StartOne(Fresh, how), Close(Fresh, how), Suspend(Fresh, how),
     Shutdown(Fresh, how)}

\* What the owner may make of the two transfers of an open layer.
Used(l) ==
    IF IsLayerUp(l) /\ "closing" \notin l.flags
    THEN {[l EXCEPT !.flags = {"open"} \cup s] : s \in SUBSET {"reading", "writing"}}
    ELSE {l}

Request == \E how \in Outcomes : \E l \in Requested(how) :
    /\ Becomes(l)
    /\ alive' \in BOOLEAN /\ (alive' => alive)

Use == \E l \in Used(line) : Becomes(l) /\ Survives(Fresh)

OpenPending == "opening" \in line.flags /\ "open" \notin line.bad

OpenCallback ==
    /\ alive /\ OpenPending
    /\ \E l \in {OpenFailed(Fresh)} \cup Used(OpenSucceeded(Fresh)) : Becomes(l) /\ Survives(l)

TransferCallback == \E f \in {"reading", "writing"} \cap line.flags, how \in Outcomes :
    /\ alive
    /\ \E l \in {TransferFailed(Fresh, f, how)} \cup
                (IF "closing" \in line.flags THEN {TransferIgnored(Fresh, f, how)} ELSE {}) :
          Becomes(l) /\ Survives(l)

OpenTimeout == \E how \in Outcomes :
    /\ alive /\ line.timer
    /\ LET l == OnOpenTimerExpiration(Fresh, how) IN Becomes(l) /\ Survives(l)

FinalShutdown ==
    /\ alive /\ line.end = "posted"
    /\ Becomes(DoFinalShutdown(Fresh)) /\ Survives(Fresh)

MonitorInit == line = NewConnection /\ alive = TRUE
MonitorNext == Request \/ Use \/ OpenCallback \/ TransferCallback \/ OpenTimeout \/ FinalShutdown
MonitorSpec == MonitorInit /\ [][MonitorNext]_connVars

-----------------------------------------------------------------------------
(* What must hold *)

\* The state and the timer are those of PhysicalLayerMonitor.
ConnectionTypeOK == line \in Connections /\ alive \in BOOLEAN

\* The monitor's state says truly what the layer is doing and whether the timer runs:
\* the fifteen states are told only what the layer reports, and they act on the layer
\* without asking it.  An open state may cover a layer that closes after an error
\* while its other transfer is pending.
MonitorMatchesLayer ==
    LET transfers == line.flags \cap {"reading", "writing"} IN
    /\ line.timer <=> line.state \in {"Waiting", "WaitingOne"}
    /\ CASE line.state \in {"Init", "Suspended", "Shutdown", "Waiting", "WaitingOne"} -> line.flags = {}
         [] line.state \in {"Opening", "OpeningOne"} -> line.flags = {"opening"}
         [] line.state \in {"OpeningClosing", "OpeningStopping", "OpeningSuspending"} ->
               line.flags = {"opening", "closing"}
         [] line.state \in {"Open", "OpenOne"} ->
               line.flags \ transfers = {"open"}
               \/ (line.flags \ transfers = {"open", "closing"} /\ transfers # {})
         [] OTHER -> line.flags \ transfers = {"open", "closing"} /\ transfers # {}

\* No event reaches a state that excludes it (the base classes NotOpening, NotOpen,
\* NotWaitingForTimer and ExceptsOnLayerOpen throw), no operation is asked of the layer
\* that its flags do not allow, and the timer is neither started twice nor cancelled
\* when it does not run (two assertions), whatever the order of requests and callbacks.
\* Except a second close: an open state may cover a layer that closes already (see
\* MonitorMatchesLayer), and then StartClose throws; and except DoOpen itself throwing.
NoStrayEvent == line.bad \cap {"event", "timer"} = {}

\* PhysicalLayerMonitor and its layer agree, and neither is told what it does not expect.
MonitorAgrees == MonitorMatchesLayer /\ NoStrayEvent

\* A shutdown is permanent: after it no request and no callback opens the layer again
\* (PLS_SHUTDOWN: stopped and will never do anything again).
ShutdownIsFinal ==
    [][line.state \in {"OpeningStopping", "ShutingDown", "Shutdown"} =>
       /\ line'.state \in {line.state, "Shutdown"}
       /\ ~IsLayerUp(line) => ~IsLayerUp(line')]_line

=============================================================================
