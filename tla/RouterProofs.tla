---------------------------- MODULE RouterProofs ----------------------------
(***************************************************************************)
(* Proofs about Monitor, Router and Vto. Whatever its owner asks for and   *)
(* its layer does, the state of a monitor fits the layer, no event reaches *)
(* a state that excludes it, and a shutdown is final. A port is such an    *)
(* owner, so all this holds of it; its stacks and its queue agree with the *)
(* layer, and the application and the io_service exclude each other. So    *)
(* are the two routers of a tunnel, which keep the order of its streams.   *)
(***************************************************************************)
EXTENDS Router, Vto, SequenceTheorems, NaturalsInduction, WellFoundedInduction, TLAPS

---------------------------------------------------------------------------
(* The life cycle of a connection (Monitor) *)

OpeningStates == {"Opening", "OpeningOne"}
ClosingOpeningStates == {"OpeningClosing", "OpeningStopping", "OpeningSuspending"}
OpenStates == {"Open", "OpenOne"}
ClosingStates == {"Closing", "Suspending", "ShutingDown"}
WaitStates == {"Waiting", "WaitingOne"}
IdleStates == {"Init", "Suspended", "Shutdown"}

\* What MonitorMatchesLayer says of the flags, flag by flag.
Fits(l) ==
  /\ l.timer <=> l.state \in WaitStates
  /\ "open" \in l.flags <=> l.state \in OpenStates \cup ClosingStates
  /\ "opening" \in l.flags <=> l.state \in OpeningStates \cup ClosingOpeningStates
  /\ l.state \in ClosingStates \cup ClosingOpeningStates => "closing" \in l.flags
  /\ "closing" \in l.flags =>
       \/ l.state \in ClosingOpeningStates
       \/ l.state \in OpenStates \cup ClosingStates /\ ("reading" \in l.flags \/ "writing" \in l.flags)
  /\ "reading" \in l.flags \/ "writing" \in l.flags => "open" \in l.flags

Clean(l) == "event" \notin l.bad /\ "timer" \notin l.bad

Good(l) == l \in Connections /\ Fits(l) /\ Clean(l)

LEMMA StateGroups ==
  States = OpeningStates \cup ClosingOpeningStates \cup OpenStates \cup ClosingStates
             \cup WaitStates \cup IdleStates
BY DEF States, OpeningStates, ClosingOpeningStates, OpenStates, ClosingStates, WaitStates, IdleStates

LEMMA FitsIsMatch ==
  ASSUME line \in Connections
  PROVE  Fits(line) <=> MonitorMatchesLayer
<1>1. line.flags \subseteq Flags /\ line.state \in States
  BY DEF Connections
<1>2. CASE line.state \in IdleStates \cup WaitStates
  BY <1>1, <1>2 DEF Fits, MonitorMatchesLayer, Flags, States, OpeningStates, ClosingOpeningStates,
                    OpenStates, ClosingStates, WaitStates, IdleStates
<1>3. CASE line.state \in OpeningStates
  BY <1>1, <1>3 DEF Fits, MonitorMatchesLayer, Flags, States, OpeningStates, ClosingOpeningStates,
                    OpenStates, ClosingStates, WaitStates, IdleStates
<1>4. CASE line.state \in ClosingOpeningStates
  BY <1>1, <1>4 DEF Fits, MonitorMatchesLayer, Flags, States, OpeningStates, ClosingOpeningStates,
                    OpenStates, ClosingStates, WaitStates, IdleStates
<1>5. CASE line.state \in OpenStates
  BY <1>1, <1>5 DEF Fits, MonitorMatchesLayer, Flags, States, OpeningStates, ClosingOpeningStates,
                    OpenStates, ClosingStates, WaitStates, IdleStates
<1>6. CASE line.state \in ClosingStates
  BY <1>1, <1>6 DEF Fits, MonitorMatchesLayer, Flags, States, OpeningStates, ClosingOpeningStates,
                    OpenStates, ClosingStates, WaitStates, IdleStates
<1>7. QED
  BY <1>1, <1>2, <1>3, <1>4, <1>5, <1>6, StateGroups

-----------------------------------------------------------------------------
(* What the elementary operations change *)

LEMMA GotoFields ==
  ASSUME NEW l \in Connections, NEW s \in States
  PROVE  /\ Goto(l, s) \in Connections
         /\ Goto(l, s).state = s /\ Goto(l, s).flags = l.flags
         /\ Goto(l, s).timer = l.timer /\ Goto(l, s).bad = l.bad
BY DEF Goto, Connections

LEMMA FlagFields ==
  ASSUME NEW l \in Connections, NEW f \in Flags
  PROVE  /\ Raise(l, f) \in Connections /\ Lower(l, f) \in Connections
         /\ Raise(l, f).state = l.state /\ Lower(l, f).state = l.state
         /\ Raise(l, f).timer = l.timer /\ Lower(l, f).timer = l.timer
         /\ Raise(l, f).bad = l.bad /\ Lower(l, f).bad = l.bad
         /\ Raise(l, f).flags = l.flags \cup {f} /\ Lower(l, f).flags = l.flags \ {f}
BY DEF Raise, Lower, Connections

LEMMA ErrorFields ==
  ASSUME NEW l \in Connections, NEW e \in {"close", "open"}
  PROVE  /\ Error(l, e) \in Connections
         /\ Error(l, e).state = l.state /\ Error(l, e).flags = l.flags /\ Error(l, e).timer = l.timer
         /\ Clean(l) => Clean(Error(l, e))
BY DEF Error, Connections, Errors, Clean

LEMMA TimerFields ==
  ASSUME NEW l \in Connections
  PROVE  /\ ~l.timer => /\ StartOpenTimer(l) \in Connections
                        /\ StartOpenTimer(l).state = l.state /\ StartOpenTimer(l).flags = l.flags
                        /\ StartOpenTimer(l).timer /\ StartOpenTimer(l).bad = l.bad
         /\ l.timer => /\ CancelOpenTimer(l) \in Connections
                       /\ CancelOpenTimer(l).state = l.state /\ CancelOpenTimer(l).flags = l.flags
                       /\ ~CancelOpenTimer(l).timer /\ CancelOpenTimer(l).bad = l.bad
BY DEF StartOpenTimer, CancelOpenTimer, Connections

LEMMA SettleFields ==
  ASSUME NEW l \in Connections
  PROVE  /\ Settle(l) \in Connections
         /\ Settle(l).state = l.state /\ Settle(l).timer = l.timer /\ Settle(l).bad = l.bad
         /\ Settle(l).flags = IF Closed(l) THEN l.flags \ {"closing", "open"} ELSE l.flags
BY DEF Settle, Connections
-----------------------------------------------------------------------------
(* The events: from a connection whose flags changed to one that fits *)

\* An attempt to open failed.
LEMMA OpenFailureGood ==
  ASSUME NEW l \in Connections, Clean(l), ~l.timer, l.flags = {},
         l.state \in OpeningStates \cup ClosingOpeningStates
  PROVE  Good(OnOpenFailure(l))
<1>1. CASE l.state \in {"Opening", "OpeningClosing"}
  <2> DEFINE m == Goto(l, "Waiting")
  <2>1. m \in Connections /\ m.state = "Waiting" /\ m.flags = {} /\ ~m.timer /\ m.bad = l.bad
    BY GotoFields DEF States
  <2> HIDE DEF m
  <2>2. Good(StartOpenTimer(m))
    BY <2>1, TimerFields DEF Good, Fits, Clean, OpeningStates, ClosingOpeningStates, OpenStates,
       ClosingStates, WaitStates
  <2>3. QED
    BY <1>1, <2>2 DEF OnOpenFailure, m
<1>2. \A s \in {"Suspended", "Shutdown"} : Good(Goto(l, s))
  <2> TAKE s \in {"Suspended", "Shutdown"}
  <2> QED
    BY GotoFields DEF States, Good, Fits, Clean, OpeningStates, ClosingOpeningStates, OpenStates,
       ClosingStates, WaitStates
<1>3. QED
  BY <1>1, <1>2 DEF OnOpenFailure, OpeningStates, ClosingOpeningStates

\* The monitor, which has gone to an opening state, opens its layer.
LEMMA AsyncOpenGood ==
  ASSUME NEW l \in Connections, Clean(l), ~l.timer, l.flags = {}, l.state \in OpeningStates,
         NEW how \in AllOutcomes
  PROVE  Good(AsyncOpen(l, how))
<1> DEFINE m == Raise(l, "opening")
<1>1. m \in Connections /\ m.state = l.state /\ m.flags = {"opening"} /\ ~m.timer /\ m.bad = l.bad
  BY FlagFields DEF Flags
<1> HIDE DEF m
<1>2. Good(m)
  BY <1>1 DEF Good, Fits, Clean, OpeningStates, ClosingOpeningStates, OpenStates, ClosingStates, WaitStates
<1>3. Good(Error(m, "open"))
  BY <1>2, ErrorFields DEF Good, Fits
<1>4. CASE how = "pending"
  BY <1>2, <1>4 DEF AsyncOpen, m
<1>5. CASE how = "unresolved"
  BY <1>5, OpenFailureGood DEF AsyncOpen
<1>6. CASE how = "refused"
  BY <1>3, <1>6 DEF AsyncOpen, m
<1>7. QED
  BY <1>4, <1>5, <1>6 DEF AllOutcomes

\* The layer is down.
LEMMA LayerCloseGood ==
  ASSUME NEW l \in Connections, Clean(l), ~l.timer, l.flags = {},
         l.state \in OpenStates \cup ClosingStates, NEW how \in AllOutcomes
  PROVE  Good(OnLayerClose(l, how))
<1>1. CASE l.state \in {"Open", "Closing"}
  <2> DEFINE m == Goto(l, "Opening")
  <2>1. m \in Connections /\ m.state = "Opening" /\ m.flags = {} /\ ~m.timer /\ m.bad = l.bad
    BY GotoFields DEF States
  <2> HIDE DEF m
  <2>2. Good(AsyncOpen(m, how))
    BY <2>1, AsyncOpenGood DEF Clean, OpeningStates
  <2>3. QED
    BY <1>1, <2>2 DEF OnLayerClose, m
<1>2. \A s \in {"Suspended", "Shutdown"} : Good(Goto(l, s))
  <2> TAKE s \in {"Suspended", "Shutdown"}
  <2> QED
    BY GotoFields DEF States, Good, Fits, Clean, OpeningStates, ClosingOpeningStates, OpenStates,
       ClosingStates, WaitStates
<1>3. QED
  BY <1>1, <1>2 DEF OnLayerClose, OpenStates, ClosingStates

\* An operation of a layer that is open ended, or the layer was told to close.
LEMMA CheckForCloseGood ==
  ASSUME NEW l \in Connections, Clean(l), ~l.timer, "open" \in l.flags, "opening" \notin l.flags,
         l.state \in OpenStates \cup ClosingStates,
         l.state \in ClosingStates => "closing" \in l.flags,
         NEW how \in AllOutcomes
  PROVE  Good(CheckForClose(l, how))
<1>1. CASE Closed(l)
  <2>1. l.flags \ {"closing", "open"} = {}
    BY <1>1 DEF Closed, Connections, Flags
  <2>2. Good(OnLayerClose(Settle(l), how))
    BY <1>1, <2>1, SettleFields, LayerCloseGood DEF Clean
  <2>3. QED
    BY <1>1, <2>2 DEF CheckForClose
<1>2. CASE ~Closed(l)
  <2>1. Good(l)
    BY <1>2 DEF Closed, Good, Fits, Connections, Flags, OpeningStates, ClosingOpeningStates,
       OpenStates, ClosingStates, WaitStates
  <2>2. QED
    BY <1>2, <2>1 DEF CheckForClose
<1>3. QED
  BY <1>1, <1>2
-----------------------------------------------------------------------------
(* The requests *)

\* The monitor, which has gone to a closing state, closes its layer.
LEMMA AsyncCloseGood ==
  ASSUME NEW l \in Connections, Clean(l), ~l.timer, NEW how \in AllOutcomes,
         \/ l.flags = {"opening"} /\ l.state \in ClosingOpeningStates
         \/ /\ "open" \in l.flags /\ "opening" \notin l.flags /\ l.state \in ClosingStates
            /\ "closing" \in l.flags => "reading" \in l.flags \/ "writing" \in l.flags
  PROVE  Good(AsyncClose(l, how))
<1> DEFINE m == Raise(l, "closing")
<1>1. /\ m \in Connections /\ m.state = l.state /\ ~m.timer /\ m.bad = l.bad
      /\ m.flags = l.flags \cup {"closing"}
  BY FlagFields DEF Flags
<1> HIDE DEF m
<1>2. CASE CanClose(l) /\ "open" \in l.flags
  <2>1. Good(CheckForClose(m, how))
    BY <1>1, <1>2, CheckForCloseGood DEF Clean, ClosingOpeningStates, ClosingStates
  <2>2. QED
    BY <1>2, <2>1 DEF AsyncClose, m
<1>3. CASE CanClose(l) /\ "open" \notin l.flags
  <2>1. l.flags = {"opening"} /\ l.state \in ClosingOpeningStates
    BY <1>3
  <2>2. Good(m) /\ ~Closed(m)
    BY <1>1, <2>1 DEF Good, Fits, Clean, Closed, OpeningStates, ClosingOpeningStates, OpenStates,
       ClosingStates, WaitStates
  <2>3. QED
    BY <1>3, <2>2 DEF AsyncClose, CheckForClose, m
<1>4. CASE ~CanClose(l)
  <2>1. "closing" \in l.flags /\ "open" \in l.flags /\ l.state \in ClosingStates
    BY <1>4 DEF CanClose
  <2>2. Good(l)
    BY <2>1 DEF Good, Fits, OpeningStates, ClosingOpeningStates, OpenStates, ClosingStates, WaitStates
  <2>3. Good(Error(l, "close"))
    BY <2>2, ErrorFields DEF Good, Fits
  <2>4. QED
    BY <1>4, <2>3 DEF AsyncClose
<1>5. QED
  BY <1>2, <1>3, <1>4

\* A starting request opens what is idle and keeps the rest in its group of states; a
\* stopping one moves what opens or is open to the states that close.
StartTable(next) ==
  /\ "Shutdown" \notin DOMAIN next
  /\ \A s \in DOMAIN next : \E t \in States :
       /\ next[s] = t
       /\ s \in {"Init", "Suspended"} => t \in OpeningStates
       /\ \A G \in {OpeningStates, ClosingOpeningStates, OpenStates, ClosingStates, WaitStates} :
            s \in G => t \in G

StopTable(next) ==
  \A s \in DOMAIN next : \E t \in States :
    /\ next[s] = t
    /\ s \in OpeningStates \cup ClosingOpeningStates => t \in ClosingOpeningStates
    /\ s \in OpenStates \cup ClosingStates => t \in ClosingStates
    /\ s \in WaitStates \cup IdleStates => t \in IdleStates

LEMMA StartTables == StartTable(OnStartRequest) /\ StartTable(OnStartOneRequest)
<1>1. StartTable(OnStartRequest)
  BY DEF StartTable, OnStartRequest, States, OpeningStates, ClosingOpeningStates, OpenStates,
         ClosingStates, WaitStates
<1>2. StartTable(OnStartOneRequest)
  BY DEF StartTable, OnStartOneRequest, States, OpeningStates, ClosingOpeningStates, OpenStates,
         ClosingStates, WaitStates
<1>3. QED
  BY <1>1, <1>2

LEMMA StopTables ==
  StopTable(OnCloseRequest) /\ StopTable(OnSuspendRequest) /\ StopTable(OnShutdownRequest)
<1>1. StopTable(OnCloseRequest)
  BY DEF StopTable, OnCloseRequest, States, OpeningStates, ClosingOpeningStates, OpenStates,
         ClosingStates, WaitStates, IdleStates
<1>2. StopTable(OnSuspendRequest)
  BY DEF StopTable, OnSuspendRequest, States, OpeningStates, ClosingOpeningStates, OpenStates,
         ClosingStates, WaitStates, IdleStates
<1>3. StopTable(OnShutdownRequest)
  BY DEF StopTable, OnShutdownRequest, States, OpeningStates, ClosingOpeningStates, OpenStates,
         ClosingStates, WaitStates, IdleStates
<1>4. QED
  BY <1>1, <1>2, <1>3

LEMMA StartingGood ==
  ASSUME NEW l, Good(l), NEW next, StartTable(next), NEW how \in AllOutcomes
  PROVE  Good(Starting(l, next, how))
<1>1. CASE l.state \notin DOMAIN next
  BY <1>1 DEF Starting
<1>2. CASE l.state \in DOMAIN next
  <2> DEFINE m == Goto(l, next[l.state])
  <2>1. l \in Connections /\ next[l.state] \in States /\ l.state # "Shutdown"
    BY <1>2 DEF Good, StartTable
  <2>2. /\ m \in Connections /\ m.state = next[l.state] /\ m.flags = l.flags
        /\ m.timer = l.timer /\ m.bad = l.bad
    BY <2>1, GotoFields
  <2> HIDE DEF m
  <2>3. CASE l.state \in {"Init", "Suspended"}
    <3>1. next[l.state] \in OpeningStates
      BY <1>2, <2>3 DEF StartTable
    <3>2. l.flags = {} /\ ~l.timer
      BY <2>3 DEF Good, Fits, Connections, Flags, OpeningStates, ClosingOpeningStates, OpenStates,
         ClosingStates, WaitStates
    <3>3. Good(AsyncOpen(m, how))
      BY <2>2, <3>1, <3>2, AsyncOpenGood DEF Good, Clean
    <3>4. QED
      BY <1>2, <2>3, <3>3 DEF Starting, m
  <2>4. CASE l.state \notin {"Init", "Suspended"}
    <3>1. \A G \in {OpeningStates, ClosingOpeningStates, OpenStates, ClosingStates, WaitStates} :
            l.state \in G => next[l.state] \in G
      BY <1>2 DEF StartTable
    <3>2. l.state \in OpeningStates \cup ClosingOpeningStates \cup OpenStates \cup ClosingStates
                        \cup WaitStates
      BY <2>1, <2>4, StateGroups DEF Connections, IdleStates
    <3>3. Good(m)
      BY <2>2, <3>1, <3>2 DEF Good, Fits, Clean, OpeningStates, ClosingOpeningStates, OpenStates,
         ClosingStates, WaitStates
    <3>4. QED
      BY <1>2, <2>4, <3>3 DEF Starting, m
  <2>5. QED
    BY <2>3, <2>4
<1>3. QED
  BY <1>1, <1>2

LEMMA StoppingGood ==
  ASSUME NEW l, Good(l), NEW next, StopTable(next), NEW how \in AllOutcomes
  PROVE  Good(Stopping(l, next, how))
<1>1. CASE l.state \notin DOMAIN next
  BY <1>1 DEF Stopping
<1>2. CASE l.state \in DOMAIN next
  <2> DEFINE t == next[l.state]
  <2>1. /\ l \in Connections /\ t \in States
        /\ l.state \in OpeningStates \cup ClosingOpeningStates => t \in ClosingOpeningStates
        /\ l.state \in OpenStates \cup ClosingStates => t \in ClosingStates
        /\ l.state \in WaitStates \cup IdleStates => t \in IdleStates
    BY <1>2 DEF Good, StopTable
  <2> HIDE DEF t
  <2>2. CASE l.state \in OpeningStates \cup OpenStates
    <3> DEFINE m == Goto(l, t)
    <3>1. /\ m \in Connections /\ m.state = t /\ m.flags = l.flags
          /\ m.timer = l.timer /\ m.bad = l.bad
      BY <2>1, GotoFields
    <3> HIDE DEF m
    <3>2. l.state \in OpeningStates => l.flags = {"opening"}
      BY DEF Good, Fits, Connections, Flags, OpeningStates, ClosingOpeningStates, OpenStates,
         ClosingStates, WaitStates
    <3>3. l.state \in OpenStates =>
            /\ "open" \in l.flags /\ "opening" \notin l.flags
            /\ "closing" \in l.flags => "reading" \in l.flags \/ "writing" \in l.flags
      BY DEF Good, Fits, OpeningStates, ClosingOpeningStates, OpenStates, ClosingStates, WaitStates
    <3>4. ~l.timer
      BY <2>2 DEF Good, Fits, OpeningStates, OpenStates, WaitStates
    <3>5. Good(AsyncClose(m, how))
      BY <2>1, <2>2, <3>1, <3>2, <3>3, <3>4, AsyncCloseGood DEF Good, Clean
    <3>6. QED
      BY <1>2, <2>2, <3>5 DEF Stopping, m, t, OpeningStates, OpenStates
  <2>3. CASE l.state \in WaitStates
    <3> DEFINE m == Goto(CancelOpenTimer(l), t)
    <3>1. l.timer /\ l.flags = {}
      BY <2>3 DEF Good, Fits, Connections, Flags, OpeningStates, ClosingOpeningStates, OpenStates,
         ClosingStates, WaitStates
    <3>2. m \in Connections /\ m.state = t /\ m.flags = {} /\ ~m.timer /\ m.bad = l.bad
      BY <2>1, <3>1, TimerFields, GotoFields
    <3> HIDE DEF m
    <3>3. Good(m)
      BY <2>1, <2>3, <3>2 DEF Good, Fits, Clean, OpeningStates, ClosingOpeningStates, OpenStates,
         ClosingStates, WaitStates, IdleStates
    <3>4. QED
      BY <1>2, <2>3, <3>3 DEF Stopping, m, t, WaitStates
  <2>4. CASE l.state \in ClosingOpeningStates \cup ClosingStates \cup IdleStates
    <3> DEFINE m == Goto(l, t)
    <3>1. /\ m \in Connections /\ m.state = t /\ m.flags = l.flags
          /\ m.timer = l.timer /\ m.bad = l.bad
      BY <2>1, GotoFields
    <3> HIDE DEF m
    <3>2. Good(m)
      BY <2>1, <2>4, <3>1 DEF Good, Fits, Clean, OpeningStates, ClosingOpeningStates, OpenStates,
         ClosingStates, WaitStates, IdleStates
    <3>3. QED
      BY <1>2, <2>4, <3>2 DEF Stopping, m, t, ClosingOpeningStates, ClosingStates, IdleStates
  <2>5. QED
    BY <2>1, <2>2, <2>3, <2>4, StateGroups DEF Connections
<1>3. QED
  BY <1>1, <1>2
\* Each of the five requests keeps the connection good.
LEMMA RequestGood ==
  ASSUME NEW l, Good(l), NEW how \in AllOutcomes
  PROVE  /\ Good(Start(l, how)) /\ Good(StartOne(l, how)) /\ Good(Close(l, how))
         /\ Good(Suspend(l, how)) /\ Good(Shutdown(l, how))
BY StartTables, StopTables, StartingGood, StoppingGood DEF Start, StartOne, Close, Suspend, Shutdown

-----------------------------------------------------------------------------
(* The callbacks *)

LEMMA OpenFailedGood ==
  ASSUME NEW l, Good(l), "opening" \in l.flags
  PROVE  Good(OpenFailed(l))
<1> DEFINE m == Lower(l, "opening")
<1>1. l \in Connections /\ l.flags \subseteq Flags
  BY DEF Good, Connections
<1>2. /\ m \in Connections /\ m.state = l.state /\ m.timer = l.timer /\ m.bad = l.bad
      /\ m.flags = l.flags \ {"opening"}
  BY <1>1, FlagFields DEF Flags
<1> HIDE DEF m
<1>3. l.state \in OpeningStates \cup ClosingOpeningStates /\ ~l.timer /\ l.flags \subseteq {"opening", "closing"}
  BY <1>1 DEF Good, Fits, Flags, OpeningStates, ClosingOpeningStates, OpenStates, ClosingStates, WaitStates
<1> DEFINE n == Settle(m)
<1>4. n \in Connections /\ n.state = l.state /\ ~n.timer /\ n.bad = l.bad /\ n.flags = {}
  BY <1>2, <1>3, SettleFields DEF Closed
<1> HIDE DEF n
<1>5. Good(OnOpenFailure(n))
  BY <1>3, <1>4, OpenFailureGood DEF Good, Clean
<1>6. QED
  BY <1>5 DEF OpenFailed, m, n

LEMMA OpenSucceededGood ==
  ASSUME NEW l, Good(l), "opening" \in l.flags
  PROVE  Good(OpenSucceeded(l))
<1>1. CASE "closing" \in l.flags
  BY <1>1, OpenFailedGood DEF OpenSucceeded
<1>2. CASE "closing" \notin l.flags
  <2> DEFINE m == Raise(Lower(l, "opening"), "open")
  <2>1. l \in Connections /\ l.flags = {"opening"} /\ l.state \in OpeningStates /\ ~l.timer
    BY <1>2 DEF Good, Fits, Connections, Flags, OpeningStates, ClosingOpeningStates, OpenStates,
       ClosingStates, WaitStates
  <2>2. Lower(l, "opening") \in Connections
    BY <2>1, FlagFields DEF Flags
  <2>3. m \in Connections /\ m.state = l.state /\ ~m.timer /\ m.bad = l.bad /\ m.flags = {"open"}
    BY <2>1, <2>2, FlagFields DEF Flags
  <2> HIDE DEF m
  <2>4. \A s \in OpenStates : Good(Goto(m, s))
    <3> TAKE s \in OpenStates
    <3> QED
      BY <2>3, GotoFields DEF States, Good, Fits, Clean, OpeningStates, ClosingOpeningStates, OpenStates,
         ClosingStates, WaitStates
  <2>5. QED
    BY <1>2, <2>1, <2>3, <2>4 DEF OpenSucceeded, OnLayerOpen, m, OpeningStates, OpenStates
<1>3. QED
  BY <1>1, <1>2

\* What holds of a connection one of whose transfers ended, with closing raised or not.
LEMMA TransferGood ==
  ASSUME NEW l, Good(l), NEW f \in {"reading", "writing"}, f \in l.flags, NEW how \in AllOutcomes
  PROVE  Good(TransferFailed(l, f, how)) /\ ("closing" \in l.flags => Good(TransferIgnored(l, f, how)))
<1> DEFINE m == Lower(l, f)
           n == Raise(m, "closing")
<1>1. /\ l \in Connections /\ "open" \in l.flags /\ "opening" \notin l.flags /\ ~l.timer
      /\ l.state \in OpenStates \cup ClosingStates
      /\ l.state \in ClosingStates => "closing" \in l.flags
  BY DEF Good, Fits, OpeningStates, ClosingOpeningStates, OpenStates, ClosingStates, WaitStates
<1>2. /\ m \in Connections /\ m.state = l.state /\ m.timer = l.timer /\ m.bad = l.bad
      /\ m.flags = l.flags \ {f}
  BY <1>1, FlagFields DEF Flags
<1> HIDE DEF m
<1>3. /\ n \in Connections /\ n.state = l.state /\ n.timer = l.timer /\ n.bad = l.bad
      /\ n.flags = m.flags \cup {"closing"}
  BY <1>2, FlagFields DEF Flags
<1> HIDE DEF n
<1>4. Good(CheckForClose(n, how))
  BY <1>1, <1>2, <1>3, CheckForCloseGood DEF Good, Clean
<1>5. Good(CheckForClose(m, how))
  BY <1>1, <1>2, CheckForCloseGood DEF Good, Clean
<1>6. QED
  BY <1>4, <1>5 DEF TransferFailed, TransferIgnored, m, n

LEMMA OpenTimeoutGood ==
  ASSUME NEW l, Good(l), l.timer, NEW how \in AllOutcomes
  PROVE  Good(OnOpenTimerExpiration(l, how))
<1> DEFINE m == [l EXCEPT !.timer = FALSE]
<1>1. l \in Connections /\ l.flags = {} /\ l.state \in WaitStates
  BY DEF Good, Fits, Connections, Flags, OpeningStates, ClosingOpeningStates, OpenStates,
     ClosingStates, WaitStates
<1>2. m \in Connections /\ m.state = l.state /\ ~m.timer /\ m.bad = l.bad /\ m.flags = {}
  BY <1>1 DEF Connections
<1> HIDE DEF m
<1>3. \A s \in OpeningStates : Good(AsyncOpen(Goto(m, s), how))
  <2> TAKE s \in OpeningStates
  <2>1. /\ Goto(m, s) \in Connections /\ Goto(m, s).state = s /\ Goto(m, s).flags = {}
        /\ ~Goto(m, s).timer /\ Goto(m, s).bad = l.bad
    BY <1>2, GotoFields DEF States, OpeningStates
  <2>2. QED
    BY <2>1, AsyncOpenGood DEF Good, Clean
<1>4. QED
  BY <1>1, <1>2, <1>3 DEF OnOpenTimerExpiration, OnOpenTimeout, m, WaitStates, OpeningStates

\* An open layer may read and write in any combination.
LEMMA UseGood ==
  ASSUME NEW l, Good(l), NEW m \in Used(l)
  PROVE  Good(m)
<1>1. CASE IsLayerUp(l) /\ "closing" \notin l.flags
  <2>1. PICK s \in SUBSET {"reading", "writing"} : m = [l EXCEPT !.flags = {"open"} \cup s]
    BY <1>1 DEF Used
  <2>2. l \in Connections /\ l.state \in OpenStates /\ ~l.timer
    BY <1>1 DEF Good, Fits, IsLayerUp, OpenStates, ClosingStates, WaitStates
  <2>3. /\ m \in Connections /\ m.state = l.state /\ m.timer = l.timer /\ m.bad = l.bad
        /\ m.flags = {"open"} \cup s
    BY <2>1, <2>2 DEF Connections, Flags
  <2>4. QED
    BY <2>2, <2>3 DEF Good, Fits, Clean, OpeningStates, ClosingOpeningStates, OpenStates,
       ClosingStates, WaitStates
<1>2. QED
  BY <1>1 DEF Used
-----------------------------------------------------------------------------
(* The theorems *)

IInv == Good(line) /\ alive \in BOOLEAN

LEMMA FreshGood == Good(line) => Good(Fresh) /\ Fresh.flags = line.flags /\ Fresh.timer = line.timer
                                 /\ Fresh.state = line.state
BY DEF Good, Fresh, Fits, Clean, Connections

LEMMA BecomesGood ==
  ASSUME Good(line), NEW l, Good(l), Becomes(l)
  PROVE  Good(line') /\ line'.state = l.state /\ line'.flags = l.flags
<1>1. line \in Connections /\ l \in Connections
  BY DEF Good
<1>2. /\ line' \in Connections /\ line'.bad = l.bad \cup line.bad
      /\ line'.state = l.state /\ line'.flags = l.flags /\ line'.timer = l.timer
  BY <1>1 DEF Becomes, Connections
<1>3. QED
  BY <1>2 DEF Good, Fits, Clean

\* A step makes the connection one that an operation yields.
LEMMA StepBecomesGood ==
  ASSUME IInv, MonitorNext
  PROVE  \E l : Good(l) /\ Becomes(l)
<1>1. Good(Fresh) /\ Fresh.flags = line.flags /\ Fresh.timer = line.timer
  BY FreshGood DEF IInv
<1>2. \A how \in Outcomes : how \in AllOutcomes
  BY OutcomesAssumption
<1>3. CASE Request
  BY <1>1, <1>2, <1>3, RequestGood DEF Request, Requested
<1>4. CASE Use
  <2>1. PICK l \in Used(line) : Becomes(l)
    BY <1>4 DEF Use
  <2>2. Good(l)
    BY <2>1, UseGood DEF IInv
  <2>3. QED
    BY <2>1, <2>2
<1>5. CASE OpenCallback
  <2>1. PICK l \in {OpenFailed(Fresh)} \cup Used(OpenSucceeded(Fresh)) : Becomes(l)
    BY <1>5 DEF OpenCallback
  <2>2. "opening" \in Fresh.flags
    BY <1>1, <1>5 DEF OpenCallback, OpenPending
  <2>3. Good(OpenFailed(Fresh)) /\ Good(OpenSucceeded(Fresh))
    BY <1>1, <2>2, OpenFailedGood, OpenSucceededGood
  <2>4. Good(l)
    BY <2>1, <2>3, UseGood
  <2>5. QED
    BY <2>1, <2>4
<1>6. CASE TransferCallback
  <2>1. PICK f \in {"reading", "writing"} \cap line.flags, how \in Outcomes :
          \E l \in {TransferFailed(Fresh, f, how)} \cup
                   (IF "closing" \in line.flags THEN {TransferIgnored(Fresh, f, how)} ELSE {}) : Becomes(l)
    BY <1>6 DEF TransferCallback
  <2>2. /\ Good(TransferFailed(Fresh, f, how))
        /\ "closing" \in line.flags => Good(TransferIgnored(Fresh, f, how))
    BY <1>1, <1>2, TransferGood
  <2>3. QED
    BY <2>1, <2>2
<1>7. CASE OpenTimeout
  BY <1>1, <1>2, <1>7, OpenTimeoutGood DEF OpenTimeout
<1>8. CASE FinalShutdown
  <2>1. Good(DoFinalShutdown(Fresh))
    BY <1>1 DEF DoFinalShutdown, Good, Fits, Clean, Connections
  <2>2. QED
    BY <1>8, <2>1 DEF FinalShutdown
<1>9. QED
  BY <1>3, <1>4, <1>5, <1>6, <1>7, <1>8 DEF MonitorNext

LEMMA NextBoolean == ASSUME IInv, MonitorNext PROVE alive' \in BOOLEAN
BY DEF IInv, MonitorNext, Request, Use, OpenCallback, TransferCallback, OpenTimeout, FinalShutdown, Survives

LEMMA InvInit == MonitorInit => IInv
BY DEF MonitorInit, NewConnection, IInv, Good, Fits, Clean, Connections, States, Flags, Errors,
       OpeningStates, ClosingOpeningStates, OpenStates, ClosingStates, WaitStates

LEMMA InvStep == IInv /\ [MonitorNext]_connVars => IInv'
<1> SUFFICES ASSUME IInv, [MonitorNext]_connVars PROVE IInv'
  OBVIOUS
<1>1. CASE MonitorNext
  BY <1>1, StepBecomesGood, BecomesGood, NextBoolean DEF IInv
<1>2. CASE UNCHANGED connVars
  BY <1>2 DEF connVars, IInv, Good, Fits, Clean
<1>3. QED
  BY <1>1, <1>2

LEMMA InvInvariant == MonitorSpec => []IInv
BY InvInit, InvStep, PTL DEF MonitorSpec

\* The connection and the flag of its thread keep their types.
THEOREM TypeCorrect == MonitorSpec => []ConnectionTypeOK
<1>1. IInv => ConnectionTypeOK
  BY DEF IInv, Good, ConnectionTypeOK
<1>2. QED
  BY <1>1, InvInvariant, PTL

\* PhysicalLayerMonitor: the state fits the layer's flags and the timer, for every owner
\* and whatever DoOpen does.
THEOREM MatchCorrect == MonitorSpec => []MonitorMatchesLayer
<1>1. IInv => MonitorMatchesLayer
  BY FitsIsMatch DEF IInv, Good
<1>2. QED
  BY <1>1, InvInvariant, PTL

\* None of the exceptions and assertions of the monitor's states can be reached by any
\* order of requests and callbacks.
THEOREM EventsCorrect == MonitorSpec => []NoStrayEvent
<1>1. IInv => NoStrayEvent
  BY DEF IInv, Good, Clean, NoStrayEvent
<1>2. QED
  BY <1>1, InvInvariant, PTL

\* The two together, for every owner of the connection (PhysicalLayerMonitor).
THEOREM MonitorCorrect == MonitorSpec => []MonitorAgrees
<1>1. MonitorMatchesLayer /\ NoStrayEvent => MonitorAgrees
  BY DEF MonitorAgrees
<1>2. QED
  BY <1>1, MatchCorrect, EventsCorrect, PTL
-----------------------------------------------------------------------------
(* A shutdown is final *)

FinalStates == {"OpeningStopping", "ShutingDown", "Shutdown"}

LEMMA RequestIgnored ==
  ASSUME NEW l, l.state \in FinalStates, NEW how
  PROVE  /\ Start(l, how) = l /\ StartOne(l, how) = l /\ Close(l, how) = l
         /\ Suspend(l, how) = l /\ Shutdown(l, how) = l
<1>1. \A next \in {OnStartRequest, OnStartOneRequest, OnCloseRequest, OnSuspendRequest, OnShutdownRequest} :
        l.state \notin DOMAIN next
  BY DEF FinalStates, OnStartRequest, OnStartOneRequest, OnCloseRequest, OnSuspendRequest, OnShutdownRequest
<1>2. QED
  BY <1>1 DEF Start, StartOne, Close, Suspend, Shutdown, Starting, Stopping

LEMMA CallbacksFinal ==
  ASSUME NEW l, Good(l), l.state \in FinalStates
  PROVE  /\ "opening" \in l.flags => /\ OpenFailed(l).state \in {l.state, "Shutdown"}
                                     /\ OpenSucceeded(l) = OpenFailed(l)
         /\ \A f \in {"reading", "writing"} \cap l.flags, how \in AllOutcomes :
              /\ TransferFailed(l, f, how).state \in {l.state, "Shutdown"}
              /\ TransferIgnored(l, f, how).state \in {l.state, "Shutdown"}
<1>0. l \in Connections
  BY DEF Good
<1>1. ASSUME "opening" \in l.flags
      PROVE  OpenFailed(l).state \in {l.state, "Shutdown"} /\ OpenSucceeded(l) = OpenFailed(l)
  <2>1. l.state = "OpeningStopping" /\ "closing" \in l.flags
    BY <1>1 DEF Good, Fits, FinalStates, OpeningStates, ClosingOpeningStates
  <2>2. Lower(l, "opening") \in Connections /\ Lower(l, "opening").state = l.state
    BY <1>0, FlagFields DEF Flags
  <2> DEFINE m == Settle(Lower(l, "opening"))
  <2>3. m \in Connections /\ m.state = "OpeningStopping"
    BY <2>1, <2>2, SettleFields
  <2> HIDE DEF m
  <2>4. OnOpenFailure(m) = Goto(m, "Shutdown") /\ Goto(m, "Shutdown").state = "Shutdown"
    BY <2>3, GotoFields DEF OnOpenFailure, States
  <2>5. QED
    BY <2>1, <2>4 DEF OpenFailed, OpenSucceeded, m
<1>2. ASSUME NEW f \in {"reading", "writing"} \cap l.flags, NEW how \in AllOutcomes
      PROVE  /\ TransferFailed(l, f, how).state \in {l.state, "Shutdown"}
             /\ TransferIgnored(l, f, how).state \in {l.state, "Shutdown"}
  <2>1. l.state = "ShutingDown"
    BY <1>2 DEF Good, Fits, FinalStates, OpenStates, ClosingStates
  <2>2. ASSUME NEW m \in Connections, m.state = "ShutingDown"
        PROVE  CheckForClose(m, how).state \in {"ShutingDown", "Shutdown"}
    <3>1. Settle(m) \in Connections /\ Settle(m).state = "ShutingDown"
      BY <2>2, SettleFields
    <3>2. OnLayerClose(Settle(m), how) = Goto(Settle(m), "Shutdown")
      BY <3>1 DEF OnLayerClose
    <3>3. Goto(Settle(m), "Shutdown").state = "Shutdown"
      BY <3>1, GotoFields DEF States
    <3>4. QED
      BY <2>2, <3>2, <3>3 DEF CheckForClose
  <2> DEFINE m == Lower(l, f)
  <2>3. m \in Connections /\ m.state = "ShutingDown"
    BY <1>0, <2>1, FlagFields DEF Flags
  <2> HIDE DEF m
  <2>4. Raise(m, "closing") \in Connections /\ Raise(m, "closing").state = "ShutingDown"
    BY <2>3, FlagFields DEF Flags
  <2>5. QED
    BY <2>1, <2>2, <2>3, <2>4 DEF TransferFailed, TransferIgnored, m
<1>3. QED
  BY <1>1, <1>2

\* PLS_SHUTDOWN, "stopped and will never do anything again": no request and no callback
\* opens a connection that was shut down, or that has been told to shut down.
THEOREM ShutdownCorrect == MonitorSpec => ShutdownIsFinal
<1> DEFINE Final == line.state \in FinalStates =>
              line'.state \in {line.state, "Shutdown"} /\ (~IsLayerUp(line) => ~IsLayerUp(line'))
<1>1. IInv /\ IInv' /\ [MonitorNext]_connVars => [Final]_line
  <2> SUFFICES ASSUME IInv, IInv', MonitorNext, line.state \in FinalStates
               PROVE  line'.state \in {line.state, "Shutdown"} /\ (~IsLayerUp(line) => ~IsLayerUp(line'))
    BY DEF connVars
  <2>1. Good(Fresh) /\ Fresh.state = line.state /\ Fresh.flags = line.flags /\ Fresh.timer = line.timer
    BY FreshGood DEF IInv
  <2>2. \A how \in Outcomes : how \in AllOutcomes
    BY OutcomesAssumption
  <2>3. \A l : Good(l) /\ Becomes(l) => line'.state = l.state
    BY BecomesGood DEF IInv
  <2>4. line'.state \in {line.state, "Shutdown"}
    <3>1. CASE Request
      <4>1. Becomes(Fresh)
        BY <2>1, <3>1, RequestIgnored DEF Request, Requested
      <4>2. QED
        BY <2>1, <2>3, <4>1
    <3>2. CASE Use
      <4>1. PICK l \in Used(line) : Becomes(l)
        BY <3>2 DEF Use
      <4>2. Good(l)
        BY <4>1, UseGood DEF IInv
      <4>3. l.state = line.state
        BY <4>1 DEF Used, IInv, Good, Connections
      <4>4. QED
        BY <2>3, <4>1, <4>2, <4>3
    <3>3. CASE OpenCallback
      <4>1. "opening" \in Fresh.flags
        BY <2>1, <3>3 DEF OpenCallback, OpenPending
      <4>2. Good(OpenFailed(Fresh)) /\ OpenSucceeded(Fresh) = OpenFailed(Fresh)
        BY <2>1, <4>1, OpenFailedGood, CallbacksFinal
      <4>3. OpenFailed(Fresh).state \in {line.state, "Shutdown"}
        BY <2>1, <4>1, CallbacksFinal
      <4>4. PICK l \in {OpenFailed(Fresh)} \cup Used(OpenFailed(Fresh)) : Becomes(l)
        BY <3>3, <4>2 DEF OpenCallback
      <4>5. Good(l)
        BY <4>2, <4>4, UseGood
      <4>6. l.state = OpenFailed(Fresh).state
        BY <4>2, <4>4 DEF Used, Good, Connections
      <4>7. QED
        BY <2>3, <4>3, <4>4, <4>5, <4>6
    <3>4. CASE TransferCallback
      <4>1. PICK f \in {"reading", "writing"} \cap line.flags, how \in Outcomes :
              \E l \in {TransferFailed(Fresh, f, how)} \cup
                   (IF "closing" \in line.flags THEN {TransferIgnored(Fresh, f, how)} ELSE {}) : Becomes(l)
        BY <3>4 DEF TransferCallback
      <4>2. /\ Good(TransferFailed(Fresh, f, how))
            /\ "closing" \in line.flags => Good(TransferIgnored(Fresh, f, how))
        BY <2>1, <2>2, TransferGood
      <4>3. /\ TransferFailed(Fresh, f, how).state \in {line.state, "Shutdown"}
            /\ TransferIgnored(Fresh, f, how).state \in {line.state, "Shutdown"}
        BY <2>1, <2>2, CallbacksFinal
      <4>4. QED
        BY <2>3, <4>1, <4>2, <4>3
    <3>5. CASE OpenTimeout
      BY <3>5 DEF OpenTimeout, IInv, Good, Fits, FinalStates, WaitStates
    <3>6. CASE FinalShutdown
      <4>1. Good(DoFinalShutdown(Fresh)) /\ DoFinalShutdown(Fresh).state = line.state
        BY <2>1 DEF DoFinalShutdown, Good, Fits, Clean, Connections
      <4>2. QED
        BY <2>3, <3>6, <4>1 DEF FinalShutdown
    <3>7. QED
      BY <3>1, <3>2, <3>3, <3>4, <3>5, <3>6 DEF MonitorNext
  <2>5. QED
    BY <2>4 DEF IInv, Good, Fits, IsLayerUp, FinalStates, OpenStates, ClosingStates
<1>2. [Final]_line => [line.state \in {"OpeningStopping", "ShutingDown", "Shutdown"} =>
                         /\ line'.state \in {line.state, "Shutdown"}
                         /\ ~IsLayerUp(line) => ~IsLayerUp(line')]_line
  BY DEF FinalStates
<1>3. QED
  BY <1>1, <1>2, InvInvariant, PTL DEF MonitorSpec, ShutdownIsFinal

---------------------------------------------------------------------------
(* What the router does to an open layer is a use of it *)

LEMMA FreshFields ==
  ASSUME IInv
  PROVE  /\ Fresh \in Connections /\ Fresh.bad = {} /\ Good(Fresh)
         /\ Fresh.flags = line.flags /\ Fresh.state = line.state
         /\ Fresh.timer = line.timer /\ Fresh.end = line.end
<1>1. line \in Connections
  BY DEF IInv, Good
<1>2. /\ Fresh \in Connections /\ Fresh.bad = {} /\ Fresh.flags = line.flags
      /\ Fresh.state = line.state /\ Fresh.timer = line.timer /\ Fresh.end = line.end
  BY <1>1 DEF Fresh, Connections
<1>3. Good(Fresh)
  BY FreshGood DEF IInv
<1>4. QED
  BY <1>2, <1>3

LEMMA FreshIsStutter == ASSUME IInv, Becomes(Fresh) PROVE line' = line
<1>1. line \in Connections /\ Fresh \in Connections /\ Fresh.bad = {}
  BY FreshFields DEF IInv, Good
<1>2. line' = [Fresh EXCEPT !.bad = {} \cup line.bad]
  BY <1>1 DEF Becomes
<1>3. line' = [line EXCEPT !.bad = line.bad]
  BY <1>1, <1>2 DEF Fresh, Connections
<1>4. QED
  BY <1>1, <1>3 DEF Connections

\* Of an open layer that is not closing, the flags of the transfers may change.
LEMMA UseStep ==
  ASSUME IInv, IsLayerUp(line), "closing" \notin line.flags,
         NEW s \in SUBSET {"reading", "writing"},
         Becomes([Fresh EXCEPT !.flags = {"open"} \cup s]),
         alive' \in BOOLEAN, alive' => alive
  PROVE  Use
<1> DEFINE l == [line EXCEPT !.flags = {"open"} \cup s]
<1>1. l \in Used(line)
  BY DEF Used
<1>2. Becomes(l)
  BY DEF Becomes, Fresh, IInv, Good, Connections
<1>3. Survives(Fresh)
  BY FreshFields DEF Survives
<1>4. QED
  BY <1>1, <1>2, <1>3 DEF Use

LEMMA UpFlags ==
  ASSUME IInv
  PROVE  /\ line.flags \cap {"reading", "writing"} # {} => IsLayerUp(line)
         /\ IsLayerUp(line) /\ "closing" \notin line.flags =>
              \E s \in SUBSET {"reading", "writing"} : line.flags = {"open"} \cup s
<1>1. line.flags \in SUBSET Flags /\ Fits(line)
  BY DEF IInv, Good, Connections
<1>2. line.flags \cap {"reading", "writing"} # {} => IsLayerUp(line)
  BY <1>1 DEF Fits, IsLayerUp
<1>3. ASSUME IsLayerUp(line), "closing" \notin line.flags
      PROVE  line.flags = {"open"} \cup (line.flags \cap {"reading", "writing"})
  BY <1>1, <1>3 DEF Fits, IsLayerUp, Flags, OpeningStates, ClosingOpeningStates, OpenStates, ClosingStates
<1>4. QED
  BY <1>2, <1>3

\* The flags after a write was asked for, or not.
LEMMA SendingFields ==
  ASSUME NEW s \in SUBSET {"reading", "writing"}, NEW l \in Connections, l.bad = {},
         l.flags = {"open"} \cup s, NEW q, NEW busy
  PROVE  \E t \in SUBSET {"reading", "writing"} :
            /\ Sending(l, q, busy) = [l EXCEPT !.flags = {"open"} \cup t]
            /\ "reading" \in t <=> "reading" \in s
<1>1. Raise(l, "writing") = [l EXCEPT !.flags = {"open"} \cup (s \cup {"writing"})]
  BY DEF Raise, Connections
<1>2. l = [l EXCEPT !.flags = {"open"} \cup s]
  BY DEF Connections
<1>3. CASE Sending(l, q, busy) = Raise(l, "writing")
  <2>1. s \cup {"writing"} \in SUBSET {"reading", "writing"}
    OBVIOUS
  <2>2. QED
    BY <1>1, <1>3, <2>1
<1>4. CASE Sending(l, q, busy) = l
  BY <1>2, <1>4
<1>5. QED
  BY <1>3, <1>4 DEF Sending

-----------------------------------------------------------------------------
(* Every action is a step of Monitor *)

LEMMA OutcomesAll == \A how \in Outcomes : how \in AllOutcomes
BY OutcomesAssumption

LEMMA CallRefines == ASSUME IInv, Call PROVE [MonitorNext]_connVars
<1>1. PICK how \in Outcomes :
        (\E c \in Contexts : AddContext(c, how) \/ RemoveContext(c, how)) \/ RemovePort(how)
  BY DEF Call
<1>2. UNCHANGED alive /\ alive' \in BOOLEAN
  BY DEF Call, Transaction, IInv
<1>3. ASSUME NEW c \in Contexts, AddContext(c, how) PROVE Request
  BY <1>2, <1>3 DEF AddContext, Request, Requested
<1>4. ASSUME NEW c \in Contexts, RemoveContext(c, how) PROVE Request \/ line' = line
  <2>1. CASE bound = {c}
    BY <1>2, <1>4, <2>1 DEF RemoveContext, Request, Requested
  <2>2. CASE bound # {c}
    BY <1>4, <2>2, FreshIsStutter DEF RemoveContext
  <2>3. QED
    BY <2>1, <2>2
<1>5. ASSUME RemovePort(how) PROVE Request
  BY <1>2, <1>5 DEF RemovePort, Request, Requested
<1>6. QED
  BY <1>1, <1>2, <1>3, <1>4, <1>5 DEF MonitorNext, connVars

LEMMA TransmitRefines ==
  ASSUME IInv, NEW c \in Contexts, Transmit(c)
  PROVE  [MonitorNext]_connVars
<1>1. alive /\ alive' \in BOOLEAN
  BY DEF Transmit, Callback
<1>2. CASE ~IsLayerUp(line)
  <2>1. line' = line /\ ~alive'
    BY <1>2 DEF Transmit
  <2>2. line \in Used(line) /\ Becomes(line)
    BY <1>2, <2>1 DEF Used, Becomes, IInv, Good, Connections
  <2>3. QED
    BY <1>1, <2>1, <2>2, FreshFields DEF Use, Survives, MonitorNext
<1>3. CASE IsLayerUp(line) /\ "closing" \in line.flags
  <2>1. Becomes(Fresh)
    BY <1>3, FreshFields DEF Transmit, Sending, CanWrite
  <2>2. line \in Used(line) /\ Becomes(line)
    BY <1>3, <2>1, FreshIsStutter DEF Used, Becomes, IInv, Good, Connections
  <2>3. QED
    BY <1>1, <2>2, FreshFields DEF Use, Survives, MonitorNext
<1>4. CASE IsLayerUp(line) /\ "closing" \notin line.flags
  <2>1. PICK s \in SUBSET {"reading", "writing"} : line.flags = {"open"} \cup s
    BY <1>4, UpFlags
  <2>2. PICK t \in SUBSET {"reading", "writing"} :
          Sending(Fresh, Append(queue, c), transmitting) = [Fresh EXCEPT !.flags = {"open"} \cup t]
    BY <2>1, FreshFields, SendingFields
  <2>3. Becomes([Fresh EXCEPT !.flags = {"open"} \cup t])
    BY <1>4, <2>2 DEF Transmit
  <2>4. QED
    BY <1>1, <1>4, <2>3, UseStep DEF MonitorNext
<1>5. QED
  BY <1>2, <1>3, <1>4

\* Whatever was read, its replies come from contexts that are up.
LEMMA ReceiveResponds ==
  ASSUME OnReceive
  PROVE  \E reply \in Seq(bound \cap up) : Respond(reply)
<1>1. \E r, n : \E reply \in Answers(r.pushed) : Respond(reply)
  BY Zenon DEF OnReceive
<1>2. ASSUME NEW pushed PROVE Answers(pushed) \subseteq Seq(bound \cap up)
  <2>1. ASSUME NEW n \in 0..Len(pushed) PROVE n \in Nat
    BY <2>1
  <2>2. ASSUME NEW n \in Nat PROVE [1..n -> bound \cap up] \subseteq Seq(bound \cap up)
    BY <2>2
  <2>3. QED
    BY <2>1, <2>2 DEF Answers
<1>3. QED
  BY <1>1, <1>2

LEMMA OnReceiveRefines == ASSUME IInv, OnReceive PROVE MonitorNext
<1>1. /\ alive /\ alive' \in BOOLEAN /\ IsLayerUp(line)
      /\ "closing" \notin line.flags /\ "reading" \in line.flags
  <2>1. alive /\ "closing" \notin line.flags /\ "reading" \in line.flags
    BY DEF OnReceive, Callback
  <2>2. alive' \in BOOLEAN
    BY ReceiveResponds DEF Respond
  <2>3. QED
    BY <2>1, <2>2, UpFlags
<1>2. PICK s \in SUBSET {"reading", "writing"} : line.flags = {"open"} \cup s
  BY <1>1, UpFlags
<1> DEFINE m == Lower(Fresh, "reading")
           r == s \ {"reading"}
<1>3. m \in Connections /\ m.bad = {} /\ m.flags = {"open"} \cup r
  BY <1>2, FreshFields, FlagFields DEF Flags
<1>4. m = [Fresh EXCEPT !.flags = m.flags]
  BY FreshFields DEF Lower, Connections
<1> HIDE DEF m
<1>5. PICK q :
        Becomes(IF CanRead(Sending(m, q, transmitting))
                THEN Raise(Sending(m, q, transmitting), "reading") ELSE Sending(m, q, transmitting))
  BY ReceiveResponds DEF Respond, m
<1>6. r \in SUBSET {"reading", "writing"}
  OBVIOUS
<1> HIDE DEF r
<1>7. PICK t \in SUBSET {"reading", "writing"} :
        /\ Sending(m, q, transmitting) = [m EXCEPT !.flags = {"open"} \cup t]
        /\ "reading" \in t <=> "reading" \in r
  BY <1>3, <1>6, SendingFields
<1> DEFINE n == [Fresh EXCEPT !.flags = {"open"} \cup t]
<1>8. Sending(m, q, transmitting) = n
  BY <1>4, <1>7, FreshFields DEF Connections
<1>9. Raise(n, "reading") = [Fresh EXCEPT !.flags = {"open"} \cup (t \cup {"reading"})]
  BY FreshFields DEF Raise, Connections
<1>10. t \cup {"reading"} \in SUBSET {"reading", "writing"}
  OBVIOUS
<1> HIDE DEF n
<1>11. PICK u \in SUBSET {"reading", "writing"} : Becomes([Fresh EXCEPT !.flags = {"open"} \cup u])
  <2>1. CASE CanRead(n)
    BY <1>5, <1>8, <1>9, <1>10, <2>1
  <2>2. CASE ~CanRead(n)
    BY <1>5, <1>8, <2>2 DEF n
  <2>3. QED
    BY <2>1, <2>2
<1>12. QED
  BY <1>1, <1>11, UseStep DEF MonitorNext

LEMMA OnSendSuccessRefines == ASSUME IInv, OnSendSuccess PROVE MonitorNext
<1>1. alive /\ alive' \in BOOLEAN /\ IsLayerUp(line) /\ "closing" \notin line.flags
  BY UpFlags DEF OnSendSuccess, Callback
<1>2. PICK s \in SUBSET {"reading", "writing"} : line.flags = {"open"} \cup s
  BY <1>1, UpFlags
<1> DEFINE m == Lower(Fresh, "writing")
           r == s \ {"writing"}
           busy == FALSE
<1>3. m \in Connections /\ m.bad = {} /\ m.flags = {"open"} \cup r
  BY <1>2, FreshFields, FlagFields DEF Flags
<1>4. m = [Fresh EXCEPT !.flags = m.flags]
  BY FreshFields DEF Lower, Connections
<1> HIDE DEF m
<1>5. Becomes(Sending(m, Tail(queue), busy))
  BY DEF OnSendSuccess, m
<1>6. r \in SUBSET {"reading", "writing"}
  OBVIOUS
<1> HIDE DEF r, busy
<1>7. PICK t \in SUBSET {"reading", "writing"} :
        /\ Sending(m, Tail(queue), busy) = [m EXCEPT !.flags = {"open"} \cup t]
        /\ "reading" \in t <=> "reading" \in r
  BY <1>3, <1>6, SendingFields
<1>8. Sending(m, Tail(queue), busy) = [Fresh EXCEPT !.flags = {"open"} \cup t]
  BY <1>4, <1>7, FreshFields DEF Connections
<1>9. QED
  BY <1>1, <1>5, <1>7, <1>8, UseStep DEF MonitorNext

\* What a successful open makes of the connection.
LEMMA OpenSucceededFields ==
  ASSUME NEW l, Good(l), "opening" \in l.flags, "closing" \notin l.flags
  PROVE  /\ OpenSucceeded(l) \in Connections /\ OpenSucceeded(l).flags = {"open"}
         /\ OpenSucceeded(l).bad = l.bad
         /\ l.state = "Opening" => OpenSucceeded(l).state = "Open"
<1> DEFINE m == Raise(Lower(l, "opening"), "open")
<1>1. l \in Connections /\ l.flags = {"opening"} /\ l.state \in OpeningStates
  BY DEF Good, Fits, Connections, Flags, OpeningStates, ClosingOpeningStates, OpenStates,
     ClosingStates
<1>2. Lower(l, "opening") \in Connections
  BY <1>1, FlagFields DEF Flags
<1>3. m \in Connections /\ m.state = l.state /\ m.bad = l.bad /\ m.flags = {"open"}
  BY <1>1, <1>2, FlagFields DEF Flags
<1> HIDE DEF m
<1>4. \A s \in OpenStates : /\ Goto(m, s) \in Connections /\ Goto(m, s).flags = {"open"}
                            /\ Goto(m, s).bad = l.bad /\ Goto(m, s).state = s
  BY <1>3, GotoFields DEF States, OpenStates
<1>5. QED
  BY <1>1, <1>3, <1>4 DEF OpenSucceeded, OnLayerOpen, m, OpeningStates, OpenStates

LEMMA OnOpenSuccessRefines == ASSUME IInv, OnOpenSuccess PROVE MonitorNext
<1> DEFINE m == OpenSucceeded(Fresh)
           l == Raise(m, "reading")
<1>1. /\ alive /\ alive' \in BOOLEAN /\ OpenPending
      /\ "opening" \in Fresh.flags /\ "closing" \notin Fresh.flags
  BY FreshFields DEF OnOpenSuccess, Callback, OpenPending
<1>2. m \in Connections /\ m.flags = {"open"} /\ m.bad = {}
  BY <1>1, FreshFields, OpenSucceededFields
<1>3. Becomes(l)
  BY DEF OnOpenSuccess
<1> HIDE DEF m
<1>4. l = [m EXCEPT !.flags = {"open"} \cup {"reading"}] /\ l.bad = {}
  BY <1>2 DEF Raise, Connections
<1>5. {"reading"} \in SUBSET {"reading", "writing"} /\ IsLayerUp(m) /\ "closing" \notin m.flags
  BY <1>2 DEF IsLayerUp
<1>6. l \in Used(m)
  BY <1>4, <1>5 DEF Used
<1>7. Survives(l)
  BY <1>1, <1>4 DEF Survives
<1>8. QED
  BY <1>1, <1>3, <1>6, <1>7 DEF OpenCallback, MonitorNext, m

\* A callback that may find the layer down.
LEMMA SettlesSurvives ==
  ASSUME NEW l, Callback, Settles(l)
  PROVE  alive /\ Becomes(l) /\ Survives(l)
BY DEF Callback, Settles, Survives

LEMMA StepRefines == ASSUME IInv, [Next]_vars PROVE [MonitorNext]_connVars
<1>1. CASE BeginTransaction \/ EnterTransaction \/ Pause \/ Resume \/ UNCHANGED vars
  BY <1>1 DEF BeginTransaction, EnterTransaction, Pause, Resume, vars, connVars
<1>2. CASE OnOpenFailed
  BY <1>2, SettlesSurvives DEF OnOpenFailed, OpenCallback, MonitorNext
<1>3. CASE TransferEnd
  <2>1. PICK f \in {"reading", "writing"}, failed \in BOOLEAN : OnTransferEnd(f, failed)
    BY <1>3 DEF TransferEnd
  <2>2. PICK how \in Outcomes :
          Settles(IF failed THEN TransferFailed(Fresh, f, how) ELSE TransferIgnored(Fresh, f, how))
    BY <2>1 DEF OnTransferEnd
  <2>3. /\ Callback /\ f \in {"reading", "writing"} \cap line.flags
        /\ failed \/ "closing" \in line.flags
    BY <2>1 DEF OnTransferEnd
  <2>4. CASE failed
    BY <2>2, <2>3, <2>4, SettlesSurvives DEF TransferCallback, MonitorNext
  <2>5. CASE ~failed
    BY <2>2, <2>3, <2>5, SettlesSurvives DEF TransferCallback, MonitorNext
  <2>6. QED
    BY <2>4, <2>5
<1>4. CASE OnOpenTimer
  BY <1>4, SettlesSurvives DEF OnOpenTimer, OpenTimeout, MonitorNext
<1>5. CASE OnFinalShutdown
  BY <1>5, FreshFields DEF OnFinalShutdown, Callback, FinalShutdown, Survives, MonitorNext
<1>6. QED
  BY <1>1, <1>2, <1>3, <1>4, <1>5, CallRefines, TransmitRefines, OnReceiveRefines,
     OnSendSuccessRefines, OnOpenSuccessRefines DEF Next

LEMMA LineInvariant == Spec => []IInv
<1>1. Init => IInv
  BY InvInit DEF Init
<1>2. IInv /\ [Next]_vars => IInv'
  BY StepRefines, InvStep
<1>3. QED
  BY <1>1, <1>2, PTL DEF Spec

\* A port with its stacks, its application and its queue is one of the owners of Monitor:
\* LinkLayerRouter asks of the connection only what any owner may ask.
THEOREM RefinesMonitor == Spec => MonitorSpec
<1>1. Init => MonitorInit
  BY DEF Init
<1>2. IInv /\ [Next]_vars => [MonitorNext]_connVars
  BY StepRefines
<1>3. QED
  BY <1>1, <1>2, LineInvariant, PTL DEF Spec, MonitorSpec

\* Under the router too, no event reaches a state of the monitor that excludes it, and the
\* monitor's state fits the flags of the layer.
THEOREM PortMonitorCorrect == Spec => []MonitorAgrees
BY RefinesMonitor, MonitorCorrect, PTL
-----------------------------------------------------------------------------
(* SuspendTimerSource *)

\* mIsPaused is TRUE only while the io_service waits in Pause, and stays so for as long
\* as a transaction has set mPausing; a Pause that is left over finds mPausing FALSE.
PauseInv ==
  /\ user \in {"out", "waiting", "inside"}
  /\ paused <=> held
  /\ user # "out" => pausing
  /\ UserRunsAlone

LEMMA PauseInvariant == Spec => []PauseInv
<1>1. Init => PauseInv
  BY DEF Init, PauseInv, UserRunsAlone
<1>2. PauseInv /\ [Next]_vars => PauseInv'
  <2> SUFFICES ASSUME PauseInv, [Next]_vars PROVE PauseInv'
    OBVIOUS
  <2> USE DEF PauseInv, UserRunsAlone
  <2>1. CASE BeginTransaction
    BY <2>1 DEF BeginTransaction
  <2>2. CASE EnterTransaction
    BY <2>2 DEF EnterTransaction, pauseVars
  <2>3. CASE Pause
    BY <2>3 DEF Pause
  <2>4. CASE Resume
    BY <2>4 DEF Resume
  <2>5. CASE Call
    BY <2>5 DEF Call, Transaction
  <2>6. CASE UNCHANGED <<user, pauseVars>>
    BY <2>6 DEF pauseVars
  <2>7. QED
    BY <2>1, <2>2, <2>3, <2>4, <2>5, <2>6
       DEF Next, vars, Callback, Transmit, OnOpenSuccess, OnOpenFailed, OnReceive, OnSendSuccess,
           TransferEnd, OnTransferEnd, OnOpenTimer, OnFinalShutdown
<1>3. QED
  BY <1>1, <1>2, PTL DEF Spec

\* The application is inside a transaction only while the io_service waits in Pause, for
\* any number of posted calls of Pause.
THEOREM ExclusionCorrect == Spec => []UserRunsAlone
<1>1. PauseInv => UserRunsAlone
  BY DEF PauseInv
<1>2. QED
  BY <1>1, PauseInvariant, PTL

-----------------------------------------------------------------------------
(* What the operations do to the layer, as far as the router sees it *)

\* The states of a port with a stack, and of one without.
Connected == {"Opening", "OpeningClosing", "Open", "Waiting", "Closing"}
Disconnected == {"Init", "OpeningSuspending", "Suspending", "Suspended"}

\* An open layer that is not closing reads: closing it never ends at once.
Reads(l) == IsLayerUp(l) /\ "closing" \notin l.flags => "reading" \in l.flags

SameGroup(l, m) ==
  /\ l.state \in Connected => m.state \in Connected
  /\ l.state \in Disconnected => m.state \in Disconnected

\* The states an attempt to open may leave: the layer is not up.
LEMMA AsyncOpenFields ==
  ASSUME NEW l \in Connections, l.flags = {}, ~l.timer, l.state \in OpeningStates,
         NEW how \in AllOutcomes
  PROVE  /\ ~IsLayerUp(AsyncOpen(l, how))
         /\ l.state = "Opening" => AsyncOpen(l, how).state \in {"Opening", "Waiting"}
<1> DEFINE m == Raise(l, "opening")
           w == Goto(l, "Waiting")
           e == Goto(l, "Suspended")
<1>1. m \in Connections /\ m.state = l.state /\ m.flags = {"opening"}
  BY FlagFields DEF Flags
<1>2. Error(m, "open").state = l.state /\ Error(m, "open").flags = {"opening"}
  BY <1>1, ErrorFields
<1>3. w \in Connections /\ w.flags = {} /\ ~w.timer /\ w.state = "Waiting"
  BY GotoFields DEF States
<1>4. e.flags = {}
  BY GotoFields DEF States
<1> HIDE DEF m, w, e
<1>5. StartOpenTimer(w).state = "Waiting" /\ StartOpenTimer(w).flags = {}
  BY <1>3, TimerFields
<1>6. CASE how = "pending"
  BY <1>1, <1>6 DEF AsyncOpen, IsLayerUp, m
<1>7. CASE how = "unresolved"
  BY <1>4, <1>5, <1>7 DEF AsyncOpen, IsLayerUp, OnOpenFailure, OpeningStates, w, e
<1>8. CASE how = "refused"
  BY <1>2, <1>8 DEF AsyncOpen, IsLayerUp, m
<1>9. QED
  BY <1>6, <1>7, <1>8 DEF AllOutcomes

LEMMA StartFields ==
  ASSUME NEW l, Good(l), NEW how \in AllOutcomes
  PROVE  LET m == Start(l, how) IN
         /\ l.state \in Connected => m = l
         /\ l.state \in Disconnected => m.state \in Connected
         /\ IsLayerUp(l) <=> IsLayerUp(m)
         /\ IsLayerUp(l) => m.flags = l.flags
         /\ IsOpen(m) => IsOpen(l)
<1>1. l \in Connections
  BY DEF Good
<1>2. CASE l.state \notin DOMAIN OnStartRequest
  BY <1>2 DEF Start, Starting, OnStartRequest, Connected, Disconnected
<1>3. CASE l.state \in {"Init", "Suspended"}
  <2> DEFINE m == Goto(l, "Opening")
  <2>1. l.flags = {} /\ ~l.timer
    BY <1>1, <1>3 DEF Good, Fits, Connections, Flags, OpeningStates, ClosingOpeningStates, OpenStates,
       ClosingStates, WaitStates
  <2>2. m \in Connections /\ m.state = "Opening" /\ m.flags = {} /\ ~m.timer
    BY <1>1, <2>1, GotoFields DEF States
  <2>3. Start(l, how) = AsyncOpen(m, how)
    BY <1>3 DEF Start, Starting, OnStartRequest
  <2> HIDE DEF m
  <2>4. ~IsLayerUp(AsyncOpen(m, how)) /\ AsyncOpen(m, how).state \in {"Opening", "Waiting"}
    BY <2>2, AsyncOpenFields DEF OpeningStates
  <2>5. QED
    BY <1>3, <2>1, <2>3, <2>4 DEF Connected, Disconnected, IsLayerUp, IsOpen
<1>4. CASE l.state \in DOMAIN OnStartRequest /\ l.state \notin {"Init", "Suspended"}
  <2> DEFINE t == OnStartRequest[l.state]
  <2>1. /\ t \in States
        /\ l.state \notin Connected
        /\ l.state \in Disconnected => t \in Connected
        /\ t \in {"Open", "OpenOne"} => l.state = "OpenOne"
    BY <1>4 DEF OnStartRequest, States, Connected, Disconnected
  <2>2. Start(l, how) = Goto(l, t)
    BY <1>4 DEF Start, Starting
  <2> HIDE DEF t
  <2>3. Goto(l, t).state = t /\ Goto(l, t).flags = l.flags
    BY <1>1, <2>1, GotoFields
  <2>4. QED
    BY <2>1, <2>2, <2>3 DEF IsLayerUp, IsOpen
<1>5. QED
  BY <1>2, <1>3, <1>4

\* A request to stop raises closing on a layer that is up, and leaves it up.
LEMMA StoppingFields ==
  ASSUME NEW l, Good(l), Reads(l), NEW next, StopTable(next), OpenStates \subseteq DOMAIN next,
         NEW how \in AllOutcomes
  PROVE  LET m == Stopping(l, next, how) IN
         /\ IsLayerUp(l) <=> IsLayerUp(m)
         /\ IsLayerUp(l) => m.flags = l.flags \cup {"closing"}
         /\ l.state \in DOMAIN next => m.state = next[l.state]
         /\ ~IsOpen(m)
<1>1. l \in Connections /\ l.flags \subseteq Flags
  BY DEF Good, Connections
<1>2. CASE l.state \notin DOMAIN next
  <2>1. Stopping(l, next, how) = l
    BY <1>2 DEF Stopping
  <2>2. l.state \notin OpenStates
    BY <1>2
  <2>3. IsLayerUp(l) => "closing" \in l.flags
    BY <2>2 DEF Good, Fits, IsLayerUp
  <2>4. QED
    BY <1>2, <2>1, <2>2, <2>3 DEF IsOpen, OpenStates
<1>3. CASE l.state \in DOMAIN next
  <2> DEFINE t == next[l.state]
             m == Goto(l, t)
             n == Raise(m, "closing")
  <2>0. /\ t \in States
        /\ l.state \in OpeningStates \cup ClosingOpeningStates => t \in ClosingOpeningStates
        /\ l.state \in OpenStates \cup ClosingStates => t \in ClosingStates
        /\ l.state \in WaitStates \cup IdleStates => t \in IdleStates
    BY <1>3 DEF StopTable
  <2>01. l.state \in OpeningStates \cup ClosingOpeningStates \cup OpenStates \cup ClosingStates
                       \cup WaitStates \cup IdleStates
    BY <1>1, StateGroups DEF Connections
  <2>1. /\ t \in States /\ t \notin OpenStates
        /\ l.state \in OpenStates => t \in ClosingStates
        /\ l.state \in OpeningStates => t \in ClosingOpeningStates
    <3> HIDE DEF t
    <3>1. QED
      BY <2>0, <2>01 DEF OpeningStates, ClosingOpeningStates, OpenStates, ClosingStates, WaitStates,
         IdleStates
  <2>2. m \in Connections /\ m.state = t /\ m.flags = l.flags
    BY <1>1, <2>1, GotoFields
  <2>3. n \in Connections /\ n.state = t /\ n.flags = l.flags \cup {"closing"}
    BY <2>2, FlagFields DEF Flags
  <2>4. CASE l.state \in OpeningStates \cup OpenStates
    <3>1. Stopping(l, next, how) = AsyncClose(m, how)
      BY <1>3, <2>4 DEF Stopping, OpeningStates, OpenStates
    <3>2. Error(m, "close").state = t /\ Error(m, "close").flags = l.flags
      BY <2>2, ErrorFields
    <3> HIDE DEF m, n, t
    <3>3. CASE l.state \in OpeningStates
      <4>1. "opening" \in l.flags /\ "open" \notin l.flags /\ "closing" \notin l.flags
        BY <3>3 DEF Good, Fits, OpeningStates, ClosingOpeningStates, OpenStates, ClosingStates
      <4>2. CanClose(m) /\ ~Closed(n)
        BY <2>2, <2>3, <4>1 DEF CanClose, Closed
      <4>3. AsyncClose(m, how) = n
        BY <4>2 DEF AsyncClose, CheckForClose, n
      <4>4. QED
        BY <2>1, <2>3, <3>1, <4>1, <4>3 DEF IsLayerUp, IsOpen, OpenStates, t
    <3>4. CASE l.state \in OpenStates /\ "closing" \notin l.flags
      <4>1. "open" \in l.flags /\ "reading" \in l.flags
        BY <3>4 DEF Good, Fits, Reads, IsLayerUp
      <4>2. CanClose(m) /\ ~Closed(n)
        BY <2>2, <2>3, <3>4, <4>1 DEF CanClose, Closed
      <4>3. AsyncClose(m, how) = n
        BY <4>2 DEF AsyncClose, CheckForClose, n
      <4>4. QED
        BY <2>1, <2>3, <3>1, <4>1, <4>3 DEF IsLayerUp, IsOpen, OpenStates, t
    <3>5. CASE l.state \in OpenStates /\ "closing" \in l.flags
      <4>1. AsyncClose(m, how) = Error(m, "close")
        BY <2>2, <3>5 DEF AsyncClose, CanClose
      <4>2. QED
        BY <2>1, <3>1, <3>2, <3>5, <4>1 DEF IsLayerUp, IsOpen, OpenStates, t
    <3>6. QED
      BY <2>4, <3>3, <3>4, <3>5
  <2>5. CASE l.state \in WaitStates
    <3>1. Stopping(l, next, how) = Goto(CancelOpenTimer(l), t)
      BY <1>3, <2>5 DEF Stopping, WaitStates
    <3>2. l.timer /\ "open" \notin l.flags
      BY <2>5 DEF Good, Fits, WaitStates, OpenStates, ClosingStates
    <3>3. CancelOpenTimer(l) \in Connections /\ CancelOpenTimer(l).flags = l.flags
      BY <1>1, <3>2, TimerFields
    <3>4. Goto(CancelOpenTimer(l), t).state = t /\ Goto(CancelOpenTimer(l), t).flags = l.flags
      BY <2>1, <3>3, GotoFields
    <3> HIDE DEF t
    <3>5. QED
      BY <2>1, <3>1, <3>2, <3>4 DEF IsLayerUp, IsOpen, OpenStates, t
  <2>6. CASE l.state \notin OpeningStates \cup OpenStates \cup WaitStates
    <3>1. Stopping(l, next, how) = m
      BY <1>3, <2>6 DEF Stopping, OpeningStates, OpenStates, WaitStates
    <3>2. IsLayerUp(l) => "closing" \in l.flags
      BY <2>6 DEF Good, Fits, IsLayerUp
    <3> HIDE DEF t, m
    <3>3. QED
      BY <2>1, <2>2, <3>1, <3>2 DEF IsLayerUp, IsOpen, OpenStates, t
  <2>7. QED
    BY <2>4, <2>5, <2>6
<1>4. QED
  BY <1>2, <1>3

LEMMA OpenFailedFields ==
  ASSUME NEW l, Good(l), "opening" \in l.flags
  PROVE  ~IsLayerUp(l) /\ ~IsLayerUp(OpenFailed(l)) /\ SameGroup(l, OpenFailed(l))
<1> DEFINE m == Settle(Lower(l, "opening"))
           w == Goto(m, "Waiting")
<1>1. /\ l \in Connections /\ "open" \notin l.flags /\ ~l.timer
      /\ l.state \in OpeningStates \cup ClosingOpeningStates
  BY DEF Good, Fits, OpeningStates, ClosingOpeningStates, OpenStates, ClosingStates, WaitStates
<1>2. Lower(l, "opening") \in Connections /\ Lower(l, "opening").state = l.state
      /\ Lower(l, "opening").flags = l.flags \ {"opening"} /\ ~Lower(l, "opening").timer
  BY <1>1, FlagFields DEF Flags
<1>3. m \in Connections /\ m.state = l.state /\ "open" \notin m.flags /\ ~m.timer
  BY <1>1, <1>2, SettleFields
<1> HIDE DEF m
<1>4. \A s \in {"Suspended", "Shutdown"} : Goto(m, s).state = s /\ Goto(m, s).flags = m.flags
  BY <1>3, GotoFields DEF States
<1>5. w \in Connections /\ w.state = "Waiting" /\ w.flags = m.flags /\ ~w.timer
  BY <1>3, GotoFields DEF States
<1> HIDE DEF w
<1>6. StartOpenTimer(w).state = "Waiting" /\ StartOpenTimer(w).flags = m.flags
  BY <1>5, TimerFields
<1>7. CASE l.state \in {"Opening", "OpeningClosing"}
  BY <1>1, <1>3, <1>6, <1>7 DEF OpenFailed, OnOpenFailure, IsLayerUp, SameGroup, Connected,
     Disconnected, m, w
<1>8. CASE l.state \in {"OpeningOne", "OpeningSuspending"}
  <2>1. OpenFailed(l) = Goto(m, "Suspended")
    BY <1>3, <1>8 DEF OpenFailed, OnOpenFailure, m
  <2>2. QED
    BY <1>1, <1>3, <1>4, <1>8, <2>1 DEF IsLayerUp, SameGroup, Connected, Disconnected
<1>9. CASE l.state = "OpeningStopping"
  <2>1. OpenFailed(l) = Goto(m, "Shutdown")
    BY <1>3, <1>9 DEF OpenFailed, OnOpenFailure, m
  <2>2. QED
    BY <1>1, <1>3, <1>4, <1>9, <2>1 DEF IsLayerUp, SameGroup, Connected, Disconnected
<1>10. QED
  BY <1>1, <1>7, <1>8, <1>9 DEF OpeningStates, ClosingOpeningStates

LEMMA LayerCloseFields ==
  ASSUME NEW l \in Connections, ~l.timer, l.flags = {}, l.state \in OpenStates \cup ClosingStates,
         NEW how \in AllOutcomes
  PROVE  ~IsLayerUp(OnLayerClose(l, how)) /\ SameGroup(l, OnLayerClose(l, how))
<1>1. CASE l.state \in {"Open", "Closing"}
  <2> DEFINE m == Goto(l, "Opening")
  <2>1. m \in Connections /\ m.state = "Opening" /\ m.flags = {} /\ ~m.timer
    BY GotoFields DEF States
  <2> HIDE DEF m
  <2>2. ~IsLayerUp(AsyncOpen(m, how)) /\ AsyncOpen(m, how).state \in {"Opening", "Waiting"}
    BY <2>1, AsyncOpenFields DEF OpeningStates
  <2>3. QED
    BY <1>1, <2>2 DEF OnLayerClose, SameGroup, Connected, Disconnected, m
<1>2. \A s \in {"Suspended", "Shutdown"} : Goto(l, s).state = s /\ Goto(l, s).flags = l.flags
  BY GotoFields DEF States
<1>3. CASE l.state \in {"OpenOne", "Suspending"}
  BY <1>2, <1>3 DEF OnLayerClose, IsLayerUp, SameGroup, Connected, Disconnected
<1>4. CASE l.state = "ShutingDown"
  BY <1>2, <1>4 DEF OnLayerClose, IsLayerUp, SameGroup, Connected, Disconnected
<1>5. QED
  BY <1>1, <1>3, <1>4 DEF OpenStates, ClosingStates

LEMMA CheckForCloseFields ==
  ASSUME NEW l \in Connections, ~l.timer, "opening" \notin l.flags,
         l.state \in OpenStates \cup ClosingStates, NEW how \in AllOutcomes
  PROVE  /\ SameGroup(l, CheckForClose(l, how))
         /\ IsLayerUp(CheckForClose(l, how)) => CheckForClose(l, how) = l /\ ~Closed(l)
<1>1. CASE Closed(l)
  <2>1. /\ Settle(l) \in Connections /\ Settle(l).state = l.state /\ ~Settle(l).timer
        /\ Settle(l).flags = {}
    BY <1>1, SettleFields DEF Closed, Connections, Flags
  <2>2. ~IsLayerUp(OnLayerClose(Settle(l), how)) /\ SameGroup(Settle(l), OnLayerClose(Settle(l), how))
    BY <2>1, LayerCloseFields
  <2>3. CheckForClose(l, how) = OnLayerClose(Settle(l), how)
    BY <1>1 DEF CheckForClose
  <2>4. QED
    BY <2>1, <2>2, <2>3 DEF SameGroup
<1>2. CASE ~Closed(l)
  BY <1>2 DEF CheckForClose, SameGroup
<1>3. QED
  BY <1>1, <1>2

\* The end of a transfer that leaves the layer up leaves it closing, for the other transfer.
TransferLeaves(l, f, m) ==
  /\ IsLayerUp(l)
  /\ SameGroup(l, m)
  /\ IsLayerUp(m) => /\ m.state = l.state
                     /\ "closing" \in m.flags
                     /\ \E g \in {"reading", "writing"} \ {f} : g \in l.flags

LEMMA TransferFields ==
  ASSUME NEW l, Good(l), NEW f \in {"reading", "writing"}, f \in l.flags, NEW how \in AllOutcomes
  PROVE  /\ TransferLeaves(l, f, TransferFailed(l, f, how))
         /\ "closing" \in l.flags => TransferLeaves(l, f, TransferIgnored(l, f, how))
<1> DEFINE m == Lower(l, f)
           n == Raise(m, "closing")
<1>1. /\ l \in Connections /\ "open" \in l.flags /\ "opening" \notin l.flags /\ ~l.timer
      /\ l.state \in OpenStates \cup ClosingStates
  BY DEF Good, Fits, OpeningStates, ClosingOpeningStates, OpenStates, ClosingStates, WaitStates
<1>2. /\ m \in Connections /\ m.state = l.state /\ m.timer = l.timer /\ m.flags = l.flags \ {f}
  BY <1>1, FlagFields DEF Flags
<1> HIDE DEF m
<1>3. /\ n \in Connections /\ n.state = l.state /\ n.timer = l.timer
      /\ n.flags = m.flags \cup {"closing"}
  BY <1>2, FlagFields DEF Flags
<1> HIDE DEF n
<1>4. ASSUME NEW e \in {m, n}, "closing" \in e.flags
      PROVE  TransferLeaves(l, f, CheckForClose(e, how))
  <2>1. /\ e \in Connections /\ ~e.timer /\ "opening" \notin e.flags /\ e.state = l.state
        /\ e.flags \cap {"reading", "writing"} = (l.flags \ {f}) \cap {"reading", "writing"}
    BY <1>1, <1>2, <1>3, <1>4
  <2>2. /\ SameGroup(e, CheckForClose(e, how))
        /\ IsLayerUp(CheckForClose(e, how)) => CheckForClose(e, how) = e /\ ~Closed(e)
    BY <1>1, <2>1, CheckForCloseFields
  <2>3. ~Closed(e) => \E g \in {"reading", "writing"} \ {f} : g \in l.flags
    BY <1>4, <2>1 DEF Closed
  <2>4. QED
    BY <1>1, <1>4, <2>1, <2>2, <2>3 DEF TransferLeaves, SameGroup, IsLayerUp
<1>5. TransferLeaves(l, f, TransferFailed(l, f, how))
  <2>1. CASE CanClose(m)
    <3>1. TransferFailed(l, f, how) = CheckForClose(n, how)
      BY <2>1 DEF TransferFailed, m, n
    <3>2. QED
      BY <1>3, <1>4, <3>1
  <2>2. CASE ~CanClose(m)
    <3>1. TransferFailed(l, f, how) = CheckForClose(m, how)
      BY <2>2 DEF TransferFailed, m
    <3>2. "closing" \in m.flags
      BY <1>1, <1>2, <2>2 DEF CanClose
    <3>3. QED
      BY <1>4, <3>1, <3>2
  <2>3. QED
    BY <2>1, <2>2
<1>6. ASSUME "closing" \in l.flags PROVE TransferLeaves(l, f, TransferIgnored(l, f, how))
  <2>1. TransferIgnored(l, f, how) = CheckForClose(m, how) /\ "closing" \in m.flags
    BY <1>2, <1>6 DEF TransferIgnored, m
  <2>2. QED
    BY <1>4, <2>1
<1>7. QED
  BY <1>5, <1>6

LEMMA OpenTimerFields ==
  ASSUME NEW l, Good(l), l.timer, NEW how \in AllOutcomes
  PROVE  /\ ~IsLayerUp(l) /\ ~IsLayerUp(OnOpenTimerExpiration(l, how))
         /\ SameGroup(l, OnOpenTimerExpiration(l, how))
<1> DEFINE m == [l EXCEPT !.timer = FALSE]
<1>1. l \in Connections /\ l.flags = {} /\ l.state \in WaitStates
  BY DEF Good, Fits, Connections, Flags, OpeningStates, ClosingOpeningStates, OpenStates,
     ClosingStates, WaitStates
<1>2. m \in Connections /\ m.state = l.state /\ ~m.timer /\ m.flags = {}
  BY <1>1 DEF Connections
<1> HIDE DEF m
<1>3. \A s \in OpeningStates :
        /\ Goto(m, s) \in Connections /\ Goto(m, s).state = s /\ Goto(m, s).flags = {}
        /\ ~Goto(m, s).timer
  BY <1>2, GotoFields DEF States, OpeningStates
<1>4. \A s \in OpeningStates :
        /\ ~IsLayerUp(AsyncOpen(Goto(m, s), how))
        /\ s = "Opening" => AsyncOpen(Goto(m, s), how).state \in {"Opening", "Waiting"}
  BY <1>3, AsyncOpenFields
<1>5. CASE l.state = "Waiting"
  <2>1. OnOpenTimerExpiration(l, how) = AsyncOpen(Goto(m, "Opening"), how)
    BY <1>2, <1>5 DEF OnOpenTimerExpiration, OnOpenTimeout, m
  <2>2. QED
    BY <1>1, <1>4, <1>5, <2>1 DEF IsLayerUp, SameGroup, Connected, Disconnected, OpeningStates
<1>6. CASE l.state = "WaitingOne"
  <2>1. OnOpenTimerExpiration(l, how) = AsyncOpen(Goto(m, "OpeningOne"), how)
    BY <1>2, <1>6 DEF OnOpenTimerExpiration, OnOpenTimeout, m
  <2>2. QED
    BY <1>1, <1>4, <1>6, <2>1 DEF IsLayerUp, SameGroup, Connected, Disconnected, OpeningStates
<1>7. QED
  BY <1>1, <1>5, <1>6 DEF WaitStates

-----------------------------------------------------------------------------
(* The inductive invariant of the port *)

PortTypes ==
  /\ {bound, stacks, up, late} \subseteq SUBSET Contexts
  /\ queue \in Seq(Contexts) /\ Len(queue) <= MaxQueue
  /\ {transmitting, removing, pausing, paused, held} \subseteq BOOLEAN
  /\ user \in {"out", "waiting", "inside"} /\ posts \in 0..MaxPosts
  /\ fault \subseteq {"not up", "write", "down", "orphaned", "unbound", "deleted"}

\* A thread that has ended does not wait in Pause.
ThreadInv == ~alive => ~held

\* The contexts that were told, and those that came too late, while the thread runs.
ContextInv ==
  /\ late \subseteq bound
  /\ alive /\ IsLayerUp(line) => up = bound \ late
  /\ alive /\ ~IsLayerUp(line) => up = {} /\ late = {}
  /\ "not up" \in fault => ~alive /\ late # {}

\* Of a layer that closes without a write, all contexts are gone or late.
QueueInv ==
  /\ "down" \notin fault
  /\ "write" \in fault => removing
  /\ alive /\ ~IsLayerUp(line) => queue = <<>> /\ ~transmitting
  /\ alive /\ IsLayerUp(line) /\ "closing" \notin line.flags =>
        (transmitting <=> "writing" \in line.flags) /\ (transmitting <=> queue # <<>>)
  /\ alive /\ IsLayerUp(line) /\ "closing" \in line.flags /\ ~transmitting /\ ~removing =>
        up = {} /\ ~IsOpen(line)

PortInv == /\ PortTypes /\ ThreadInv /\ Reads(line) /\ ContextInv /\ QueueInv
           /\ BoundMeansConnecting

Settled == IInv /\ PauseInv /\ PortInv

LEMMA BecomesFields ==
  ASSUME NEW l \in Connections, Becomes(l)
  PROVE  line'.state = l.state /\ line'.flags = l.flags
BY DEF Becomes, Connections

LEMMA SendingFlags ==
  ASSUME NEW l \in Connections, NEW q, NEW busy
  PROVE  /\ Sending(l, q, busy) \in Connections
         /\ Sending(l, q, busy).state = l.state
         /\ Sending(l, q, busy).flags = IF q # <<>> /\ ~busy /\ CanWrite(l)
                                        THEN l.flags \cup {"writing"} ELSE l.flags
<1>1. /\ Raise(l, "writing") \in Connections /\ Raise(l, "writing").state = l.state
      /\ Raise(l, "writing").flags = l.flags \cup {"writing"}
  BY FlagFields DEF Flags
<1>2. QED
  BY <1>1 DEF Sending

LEMMA PauseKeeps ==
  ASSUME Settled, BeginTransaction \/ EnterTransaction \/ Pause \/ Resume \/ UNCHANGED vars
  PROVE  PortInv'
<1>0. /\ posts \in 0..MaxPosts /\ {pausing, paused, held} \subseteq BOOLEAN
      /\ user \in {"out", "waiting", "inside"} /\ (~alive => ~held)
  BY DEF Settled, PortInv, PortTypes, ThreadInv
<1>1. /\ UNCHANGED <<line, alive, bound, stacks, up, late, queue, transmitting, removing, fault>>
      /\ posts' \in 0..MaxPosts /\ {pausing', paused', held'} \subseteq BOOLEAN
      /\ user' \in {"out", "waiting", "inside"} /\ ThreadInv'
  <2>1. CASE BeginTransaction
    BY <1>0, <2>1, BoundsAssumption DEF BeginTransaction, routeVars, ThreadInv
  <2>2. CASE EnterTransaction
    BY <1>0, <2>2 DEF EnterTransaction, routeVars, pauseVars, ThreadInv
  <2>3. CASE Pause
    BY <1>0, <2>3, BoundsAssumption DEF Pause, routeVars, ThreadInv
  <2>4. CASE Resume
    BY <1>0, <2>4 DEF Resume, routeVars, ThreadInv
  <2>5. CASE UNCHANGED vars
    BY <1>0, <2>5 DEF vars, routeVars, pauseVars, ThreadInv
  <2>6. QED
    BY <2>1, <2>2, <2>3, <2>4, <2>5
<1>2. QED
  BY <1>1 DEF Settled, PortInv, PortTypes, Reads, ContextInv, QueueInv, BoundMeansConnecting,
     IsLayerUp, IsOpen

\* During a call the thread waits in Pause, and the connection becomes l.
LEMMA InsideAlive == ASSUME Settled, Transaction PROVE alive /\ alive' /\ held' = held
BY DEF Settled, PauseInv, PortInv, ThreadInv, UserRunsAlone, Transaction

LEMMA AddContextKeeps ==
  ASSUME Settled, Transaction, NEW c \in Contexts, NEW how \in Outcomes, AddContext(c, how)
  PROVE  PortInv'
<1> DEFINE l == Start(Fresh, how)
<1>1. alive /\ alive' /\ IInv
  BY InsideAlive DEF Settled
<1>2. /\ Fresh \in Connections /\ Good(Fresh) /\ Fresh.flags = line.flags /\ Fresh.state = line.state
      /\ how \in AllOutcomes
  BY <1>1, FreshFields, OutcomesAll
<1>3. Good(l)
  BY <1>2, RequestGood
<1>4. /\ line.state \in Connected => l.state = line.state
      /\ line.state \in Disconnected => l.state \in Connected
      /\ IsLayerUp(line) <=> IsLayerUp(l)
      /\ IsLayerUp(line) => l.flags = line.flags
      /\ IsOpen(l) => IsOpen(line)
  BY <1>2, StartFields DEF IsLayerUp, IsOpen
<1>5. line'.state = l.state /\ line'.flags = l.flags
  BY <1>1, <1>3, BecomesGood DEF AddContext, IInv
<1> HIDE DEF l
<1>6. /\ line.state \in Connected \cup Disconnected => line'.state \in Connected
      /\ IsLayerUp(line) <=> IsLayerUp(line)'
      /\ IsLayerUp(line) => line'.flags = line.flags
      /\ IsOpen(line)' => IsOpen(line)
      /\ IsOpen(line) => IsLayerUp(line)
  BY <1>1, <1>4, <1>5 DEF IsLayerUp, IsOpen, IInv, Good, Fits, OpenStates
<1>7. PortTypes' /\ ThreadInv'
  <2>1. /\ bound' \in SUBSET Contexts /\ stacks' \in SUBSET Contexts /\ up' \in SUBSET Contexts
        /\ late' \in SUBSET Contexts
    BY DEF AddContext, Settled, PortInv, PortTypes
  <2>2. UNCHANGED <<queue, transmitting, removing, fault, held, paused, posts>>
        /\ user' = "out" /\ pausing' = FALSE
    BY DEF AddContext, Transaction
  <2>3. QED
    BY <1>1, <2>1, <2>2 DEF Settled, PortInv, PortTypes, ThreadInv
<1>8. Reads(line)'
  BY <1>6 DEF Reads, Settled, PortInv, IsLayerUp
<1>9. ContextInv'
  <2>1. ContextInv /\ c \notin bound
    BY DEF AddContext, Settled, PortInv
  <2>2. fault' = fault /\ bound' = bound \cup {c}
    BY DEF AddContext
  <2>3. CASE IsLayerUp(line) /\ IsOpen(line)
    BY <1>1, <1>6, <2>1, <2>2, <2>3 DEF AddContext, ContextInv
  <2>4. CASE IsLayerUp(line) /\ ~IsOpen(line)
    BY <1>1, <1>6, <2>1, <2>2, <2>4 DEF AddContext, ContextInv
  <2>5. CASE ~IsLayerUp(line)
    BY <1>1, <1>6, <2>1, <2>2, <2>5 DEF AddContext, ContextInv
  <2>6. QED
    BY <2>3, <2>4, <2>5
<1>10. QueueInv'
  <2>1. QueueInv /\ UNCHANGED <<queue, transmitting, removing, fault>>
    BY DEF AddContext, Settled, PortInv
  <2>2. ~IsOpen(line) => up' = up
    BY DEF AddContext
  <2>3. IsLayerUp(line) => line'.flags = line.flags
    BY <1>6
  <2>4. CASE IsLayerUp(line)
    BY <1>1, <1>6, <2>1, <2>2, <2>3, <2>4 DEF QueueInv
  <2>5. CASE ~IsLayerUp(line)
    BY <1>1, <1>6, <2>1, <2>5 DEF QueueInv
  <2>6. QED
    BY <2>4, <2>5
<1>11. BoundMeansConnecting'
  BY <1>6 DEF AddContext, Settled, PortInv, BoundMeansConnecting, Connected, Disconnected
<1>12. QED
  BY <1>7, <1>8, <1>9, <1>10, <1>11 DEF PortInv

LEMMA StopTableDomains ==
  /\ OpenStates \subseteq DOMAIN OnSuspendRequest /\ OpenStates \subseteq DOMAIN OnShutdownRequest
  /\ \A s \in Connected : s \in DOMAIN OnSuspendRequest /\ OnSuspendRequest[s] \in Disconnected
BY DEF OpenStates, OnSuspendRequest, OnShutdownRequest, Connected, Disconnected

LEMMA RemoveContextKeeps ==
  ASSUME Settled, Transaction, NEW c \in Contexts, NEW how \in Outcomes, RemoveContext(c, how)
  PROVE  PortInv'
<1> DEFINE l == Suspend(Fresh, how)
<1>1. alive /\ alive' /\ IInv /\ PortInv /\ Reads(line)
  BY InsideAlive DEF Settled, PortInv
<1>2. /\ Fresh \in Connections /\ Good(Fresh) /\ Fresh.flags = line.flags /\ Fresh.state = line.state
      /\ how \in AllOutcomes /\ Reads(Fresh)
  BY <1>1, FreshFields, OutcomesAll DEF Reads, IsLayerUp
<1>3. Good(l)
  BY <1>2, RequestGood
<1>4. /\ IsLayerUp(line) <=> IsLayerUp(l)
      /\ IsLayerUp(line) => l.flags = line.flags \cup {"closing"}
      /\ line.state \in Connected => l.state \in Disconnected
      /\ ~IsOpen(l)
  <2>1. /\ IsLayerUp(Fresh) <=> IsLayerUp(l)
        /\ IsLayerUp(Fresh) => l.flags = Fresh.flags \cup {"closing"}
        /\ Fresh.state \in DOMAIN OnSuspendRequest => l.state = OnSuspendRequest[Fresh.state]
        /\ ~IsOpen(l)
    BY <1>2, StoppingFields, StopTables, StopTableDomains DEF Suspend
  <2>2. QED
    BY <1>2, <2>1, StopTableDomains DEF IsLayerUp
<1> HIDE DEF l
<1>5. /\ bound' = bound \ {c} /\ stacks' = stacks \ {c} /\ up' = up \ {c} /\ late' = late \ {c}
      /\ UNCHANGED <<queue, transmitting, removing, held, paused, posts>>
      /\ fault' \in {fault, fault \cup {"orphaned"}} /\ user' = "out" /\ pausing' = FALSE
  BY DEF RemoveContext, Transaction
<1>6. PortTypes' /\ ThreadInv'
  <2>1. /\ bound' \in SUBSET Contexts /\ stacks' \in SUBSET Contexts /\ up' \in SUBSET Contexts
        /\ late' \in SUBSET Contexts
    BY <1>1, <1>5 DEF PortInv, PortTypes
  <2>2. QED
    BY <1>1, <1>5, <2>1 DEF PortInv, PortTypes, ThreadInv
<1>7. CASE bound = {c}
  <2>1. line'.state = l.state /\ line'.flags = l.flags
    BY <1>1, <1>3, <1>7, BecomesGood DEF RemoveContext, IInv, l
  <2>2. /\ IsLayerUp(line) <=> IsLayerUp(line)'
        /\ IsLayerUp(line) => "closing" \in line'.flags
        /\ line.state \in Connected => line'.state \in Disconnected
        /\ ~IsOpen(line)'
    BY <1>4, <2>1 DEF IsLayerUp, IsOpen
  <2>3. Reads(line)'
    BY <2>2 DEF Reads
  <2>4. ContextInv' /\ up' = {}
    BY <1>1, <1>5, <1>7, <2>2 DEF ContextInv, PortInv
  <2>5. QueueInv'
    BY <1>1, <1>5, <2>2, <2>4 DEF QueueInv, PortInv
  <2>6. BoundMeansConnecting'
    BY <1>1, <1>5, <1>7, <2>2 DEF PortInv, BoundMeansConnecting, Connected, Disconnected
  <2>7. QED
    BY <1>6, <2>3, <2>4, <2>5, <2>6 DEF PortInv
<1>8. CASE bound # {c}
  <2>1. line' = line
    BY <1>1, <1>8, FreshIsStutter DEF RemoveContext
  <2>2. ContextInv'
    BY <1>1, <1>5, <2>1 DEF ContextInv, PortInv, IsLayerUp
  <2>3. QueueInv'
    BY <1>1, <1>5, <2>1 DEF QueueInv, PortInv, IsLayerUp, IsOpen
  <2>4. BoundMeansConnecting'
    BY <1>1, <1>5, <1>8, <2>1 DEF PortInv, BoundMeansConnecting
  <2>5. Reads(line)'
    BY <1>1, <2>1 DEF Reads, IsLayerUp
  <2>6. QED
    BY <1>6, <2>2, <2>3, <2>4, <2>5 DEF PortInv
<1>9. QED
  BY <1>7, <1>8

LEMMA RemovePortKeeps ==
  ASSUME Settled, Transaction, NEW how \in Outcomes, RemovePort(how)
  PROVE  PortInv'
<1> DEFINE l == Shutdown(Fresh, how)
<1>1. alive /\ alive' /\ IInv /\ PortInv /\ Reads(line)
  BY InsideAlive DEF Settled, PortInv
<1>2. /\ Fresh \in Connections /\ Good(Fresh) /\ Fresh.flags = line.flags /\ Fresh.state = line.state
      /\ how \in AllOutcomes /\ Reads(Fresh)
  BY <1>1, FreshFields, OutcomesAll DEF Reads, IsLayerUp
<1>3. Good(l)
  BY <1>2, RequestGood
<1>4. /\ IsLayerUp(line) <=> IsLayerUp(l)
      /\ IsLayerUp(line) => l.flags = line.flags \cup {"closing"}
  <2>1. /\ IsLayerUp(Fresh) <=> IsLayerUp(l)
        /\ IsLayerUp(Fresh) => l.flags = Fresh.flags \cup {"closing"}
    BY <1>2, StoppingFields, StopTables, StopTableDomains DEF Shutdown
  <2>2. QED
    BY <1>2, <2>1 DEF IsLayerUp
<1> HIDE DEF l
<1>5. line'.state = l.state /\ line'.flags = l.flags
  BY <1>1, <1>3, BecomesGood DEF RemovePort, IInv, l
<1>6. /\ UNCHANGED <<bound, stacks, up, late, queue, transmitting, held, paused, posts>>
      /\ fault' \in {fault, fault \cup {"deleted"}} /\ removing' = TRUE
      /\ user' = "out" /\ pausing' = FALSE
  BY <1>4 DEF RemovePort, Transaction, l
<1>7. /\ IsLayerUp(line) <=> IsLayerUp(line)'
      /\ IsLayerUp(line) => "closing" \in line'.flags
  BY <1>4, <1>5 DEF IsLayerUp
<1>8. PortTypes' /\ ThreadInv'
  BY <1>1, <1>6 DEF PortInv, PortTypes, ThreadInv
<1>9. Reads(line)'
  BY <1>7 DEF Reads
<1>10. ContextInv'
  BY <1>1, <1>6, <1>7 DEF ContextInv, PortInv
<1>11. QueueInv'
  BY <1>1, <1>6, <1>7 DEF QueueInv, PortInv
<1>12. BoundMeansConnecting'
  BY <1>6 DEF BoundMeansConnecting
<1>13. QED
  BY <1>8, <1>9, <1>10, <1>11, <1>12 DEF PortInv

\* A callback of the thread: what it finds.
LEMMA CallbackFinds ==
  ASSUME Settled, Callback
  PROVE  /\ alive /\ ~held /\ IInv /\ PortInv
         /\ UNCHANGED <<removing, user, pausing, paused, posts, held>>
         /\ Fresh \in Connections /\ Good(Fresh) /\ Fresh.flags = line.flags /\ Fresh.state = line.state
         /\ line.flags \subseteq Flags
BY FreshFields DEF Settled, Callback, pauseVars, IInv, Good, Connections

LEMMA TransmitKeeps ==
  ASSUME Settled, NEW c \in Contexts, Transmit(c)
  PROVE  PortInv'
<1> DEFINE q == Append(queue, c)
<1>1. /\ alive /\ ~held /\ IInv /\ PortInv
      /\ UNCHANGED <<removing, user, pausing, paused, posts, held, bound, stacks, up, late>>
      /\ Fresh \in Connections /\ Fresh.flags = line.flags /\ Fresh.state = line.state
  BY CallbackFinds DEF Transmit
<1>2. c \in up /\ IsLayerUp(line)
  BY <1>1 DEF Transmit, PortInv, ContextInv
<1>3. q \in Seq(Contexts) /\ Len(q) <= MaxQueue /\ q # <<>>
  <2>1. queue \in Seq(Contexts) /\ Len(queue) < MaxQueue
    BY <1>1 DEF Transmit, PortInv, PortTypes
  <2>2. Len(q) = Len(queue) + 1 /\ q \in Seq(Contexts)
    BY <2>1
  <2>3. QED
    BY <2>1, <2>2, BoundsAssumption
<1>4. /\ queue' = q /\ transmitting' = TRUE
      /\ alive' = ~SendThrows(line, q, transmitting)
      /\ fault' = IF alive' THEN fault ELSE fault \cup {"write"}
  BY <1>2 DEF Transmit
<1>5. /\ line'.state = line.state
      /\ line'.flags = IF ~transmitting /\ CanWrite(line) THEN line.flags \cup {"writing"} ELSE line.flags
  <2> DEFINE m == Sending(Fresh, q, transmitting)
  <2>1. /\ m \in Connections /\ m.state = Fresh.state
        /\ m.flags = IF q # <<>> /\ ~transmitting /\ CanWrite(Fresh)
                     THEN Fresh.flags \cup {"writing"} ELSE Fresh.flags
    BY <1>1, SendingFlags
  <2>2. Becomes(m)
    BY <1>2 DEF Transmit
  <2> HIDE DEF m
  <2>3. line'.state = m.state /\ line'.flags = m.flags
    BY <2>1, <2>2, BecomesFields
  <2>4. QED
    BY <1>1, <1>3, <2>1, <2>3 DEF CanWrite
<1>6. SendThrows(line, q, transmitting) <=> ~transmitting /\ ~CanWrite(line)
  BY <1>3 DEF SendThrows
<1> HIDE DEF q
<1>7. /\ IsLayerUp(line)'
      /\ "closing" \in line'.flags <=> "closing" \in line.flags
      /\ "reading" \in line'.flags <=> "reading" \in line.flags
      /\ IsOpen(line)' <=> IsOpen(line)
  BY <1>2, <1>5 DEF IsLayerUp, IsOpen
<1>8. PortTypes' /\ ThreadInv'
  BY <1>1, <1>3, <1>4 DEF PortInv, PortTypes, ThreadInv
<1>9. Reads(line)'
  BY <1>1, <1>2, <1>7 DEF PortInv, Reads
<1>10. ContextInv'
  BY <1>1, <1>2, <1>4, <1>7 DEF PortInv, ContextInv
<1>11. QueueInv'
  <2>1. QueueInv
    BY <1>1 DEF PortInv
  <2>2. CASE "closing" \notin line.flags
    <3>1. /\ transmitting <=> "writing" \in line.flags
          /\ "open" \in line.flags
      BY <1>1, <1>2, <2>1, <2>2 DEF QueueInv, IsLayerUp
    <3>2. transmitting \/ CanWrite(line)
      BY <2>2, <3>1 DEF CanWrite
    <3>3. alive' /\ fault' = fault /\ "writing" \in line'.flags
      BY <1>4, <1>5, <1>6, <3>1, <3>2
    <3>4. QED
      BY <1>1, <1>3, <1>4, <1>7, <2>1, <2>2, <3>3 DEF QueueInv
  <2>3. CASE "closing" \in line.flags
    <3>1. transmitting \/ removing
      BY <1>1, <1>2, <2>1, <2>3 DEF QueueInv
    <3>2. alive' \/ removing
      BY <1>4, <1>6, <3>1
    <3>3. QED
      BY <1>1, <1>4, <1>7, <2>1, <2>3, <3>2 DEF QueueInv
  <2>4. QED
    BY <2>2, <2>3
<1>12. BoundMeansConnecting'
  BY <1>1, <1>5 DEF PortInv, BoundMeansConnecting
<1>13. QED
  BY <1>8, <1>9, <1>10, <1>11, <1>12 DEF PortInv

LEMMA OnReceiveKeeps ==
  ASSUME Settled, OnReceive
  PROVE  PortInv'
<1>1. /\ alive /\ ~held /\ IInv /\ PortInv
      /\ UNCHANGED <<removing, user, pausing, paused, posts, held, bound, stacks, up, late>>
      /\ Fresh \in Connections /\ Fresh.flags = line.flags /\ Fresh.state = line.state
  BY CallbackFinds DEF OnReceive
<1>2. /\ "reading" \in line.flags /\ "closing" \notin line.flags /\ IsLayerUp(line)
      /\ "open" \in line.flags
  BY <1>1, UpFlags DEF OnReceive, IsLayerUp
<1> DEFINE m == Lower(Fresh, "reading")
<1>3. PICK reply \in Seq(bound \cap up) :
        LET q == queue \o reply
            sent == Sending(m, q, transmitting)
        IN  /\ Len(q) <= MaxQueue
            /\ queue' = q /\ transmitting' = (transmitting \/ q # <<>>)
            /\ Becomes(IF CanRead(sent) THEN Raise(sent, "reading") ELSE sent)
            /\ alive' = ~SendThrows(line, q, transmitting)
            /\ fault' = IF alive' THEN fault ELSE fault \cup {"write"}
  BY ReceiveResponds DEF Respond
<1>4. m \in Connections /\ m.state = line.state /\ m.flags = line.flags \ {"reading"}
  BY <1>1, FlagFields DEF Flags
<1> HIDE DEF m
<1> DEFINE q == queue \o reply
           sent == Sending(m, q, transmitting)
<1>5. reply \in Seq(Contexts) /\ queue \in Seq(Contexts)
  <2>1. bound \subseteq Contexts /\ queue \in Seq(Contexts)
    BY <1>1 DEF PortInv, PortTypes
  <2>2. QED
    BY <1>3, <2>1
<1>6. q \in Seq(Contexts) /\ (queue # <<>> => q # <<>>)
  BY <1>5
<1>7. /\ sent \in Connections /\ sent.state = m.state
      /\ sent.flags = IF q # <<>> /\ ~transmitting /\ CanWrite(m)
                      THEN m.flags \cup {"writing"} ELSE m.flags
  BY <1>4, SendingFlags
<1>8. /\ Len(q) <= MaxQueue
      /\ queue' = q /\ transmitting' = (transmitting \/ q # <<>>)
      /\ Becomes(IF CanRead(sent) THEN Raise(sent, "reading") ELSE sent)
      /\ alive' = ~SendThrows(line, q, transmitting)
      /\ fault' = IF alive' THEN fault ELSE fault \cup {"write"}
  BY <1>3
<1> HIDE DEF q, sent
<1>9. CanRead(sent)
  BY <1>2, <1>4, <1>7 DEF CanRead
<1>10. /\ Raise(sent, "reading") \in Connections /\ Raise(sent, "reading").state = sent.state
       /\ Raise(sent, "reading").flags = sent.flags \cup {"reading"}
  BY <1>7, FlagFields DEF Flags
<1>11. line'.state = line.state /\ line'.flags = sent.flags \cup {"reading"}
  BY <1>4, <1>7, <1>8, <1>9, <1>10, BecomesFields
<1>12. /\ transmitting <=> "writing" \in line.flags
       /\ transmitting <=> queue # <<>>
  BY <1>1, <1>2 DEF PortInv, QueueInv
<1>13. ~SendThrows(line, q, transmitting)
  BY <1>2, <1>12 DEF SendThrows, CanWrite
<1>14. alive' /\ fault' = fault
  BY <1>8, <1>13
<1>15. "writing" \in line'.flags <=> transmitting \/ q # <<>>
  BY <1>2, <1>4, <1>7, <1>11, <1>12 DEF CanWrite
<1>16. /\ IsLayerUp(line)' /\ "closing" \notin line'.flags /\ "reading" \in line'.flags
  BY <1>2, <1>4, <1>7, <1>11 DEF IsLayerUp
<1>17. PortTypes' /\ ThreadInv'
  <2>1. transmitting' \in BOOLEAN
    BY <1>8
  <2>2. QED
    BY <1>1, <1>6, <1>8, <1>14, <2>1 DEF PortInv, PortTypes, ThreadInv
<1>18. Reads(line)'
  BY <1>16 DEF Reads
<1>19. ContextInv'
  BY <1>1, <1>2, <1>14, <1>16 DEF PortInv, ContextInv
<1>20. QueueInv'
  BY <1>1, <1>6, <1>8, <1>12, <1>14, <1>15, <1>16 DEF PortInv, QueueInv
<1>21. BoundMeansConnecting'
  BY <1>1, <1>11 DEF PortInv, BoundMeansConnecting
<1>22. QED
  BY <1>17, <1>18, <1>19, <1>20, <1>21 DEF PortInv

LEMMA OnSendSuccessKeeps ==
  ASSUME Settled, OnSendSuccess
  PROVE  PortInv'
<1> DEFINE m == Lower(Fresh, "writing")
           rest == Tail(queue)
           busy == FALSE
           sent == Sending(m, rest, busy)
<1>1. /\ alive /\ ~held /\ IInv /\ PortInv
      /\ UNCHANGED <<removing, user, pausing, paused, posts, held, bound, stacks, up, late>>
      /\ Fresh \in Connections /\ Fresh.flags = line.flags /\ Fresh.state = line.state
  BY CallbackFinds DEF OnSendSuccess
<1>2. /\ "writing" \in line.flags /\ "closing" \notin line.flags /\ IsLayerUp(line)
      /\ "open" \in line.flags /\ "reading" \in line.flags
  BY <1>1, UpFlags DEF OnSendSuccess, IsLayerUp, PortInv, Reads
<1>3. /\ queue' = rest /\ transmitting' = (rest # <<>>)
      /\ Becomes(sent)
      /\ alive' = ~SendThrows(m, rest, busy)
      /\ fault' = fault \cup (IF Head(queue) \in bound THEN {} ELSE {"unbound"})
                        \cup (IF alive' THEN {} ELSE {"write"})
  BY DEF OnSendSuccess
<1>4. m \in Connections /\ m.state = line.state /\ m.flags = line.flags \ {"writing"}
  BY <1>1, FlagFields DEF Flags
<1>5. ~busy
  OBVIOUS
<1> HIDE DEF m, busy
<1>6. queue # <<>> /\ queue \in Seq(Contexts) /\ Len(queue) <= MaxQueue
  BY <1>1, <1>2 DEF PortInv, QueueInv, PortTypes
<1>7. rest \in Seq(Contexts) /\ Len(rest) <= MaxQueue
  BY <1>6, BoundsAssumption
<1> HIDE DEF rest
<1>8. CanWrite(m) /\ ~SendThrows(m, rest, busy)
  BY <1>2, <1>4 DEF CanWrite, SendThrows
<1>9. /\ sent \in Connections /\ sent.state = m.state
      /\ sent.flags = IF rest # <<>> /\ ~busy /\ CanWrite(m) THEN m.flags \cup {"writing"} ELSE m.flags
  BY <1>4, SendingFlags
<1> HIDE DEF sent
<1>10. line'.state = line.state /\ line'.flags = sent.flags
  BY <1>3, <1>4, <1>9, BecomesFields
<1>11. alive' /\ fault' \in {fault, fault \cup {"unbound"}}
  BY <1>3, <1>8
<1>12. /\ IsLayerUp(line)' /\ "closing" \notin line'.flags /\ "reading" \in line'.flags
       /\ "writing" \in line'.flags <=> rest # <<>>
  BY <1>2, <1>4, <1>5, <1>8, <1>9, <1>10 DEF IsLayerUp
<1>13. PortTypes' /\ ThreadInv'
  <2>1. transmitting' \in BOOLEAN
    BY <1>3
  <2>2. QED
    BY <1>1, <1>3, <1>7, <1>11, <2>1 DEF PortInv, PortTypes, ThreadInv
<1>14. Reads(line)'
  BY <1>12 DEF Reads
<1>15. ContextInv'
  BY <1>1, <1>2, <1>11, <1>12 DEF PortInv, ContextInv
<1>16. QueueInv'
  BY <1>1, <1>3, <1>11, <1>12 DEF PortInv, QueueInv
<1>17. BoundMeansConnecting'
  BY <1>1, <1>10 DEF PortInv, BoundMeansConnecting
<1>18. QED
  BY <1>13, <1>14, <1>15, <1>16, <1>17 DEF PortInv

LEMMA OnOpenSuccessKeeps ==
  ASSUME Settled, OnOpenSuccess
  PROVE  PortInv'
<1> DEFINE m == OpenSucceeded(Fresh)
           l == Raise(m, "reading")
<1>1. /\ alive /\ ~held /\ IInv /\ PortInv
      /\ UNCHANGED <<removing, user, pausing, paused, posts, held, bound, stacks, late, queue,
                     transmitting, fault>>
      /\ Good(Fresh) /\ Fresh.flags = line.flags /\ Fresh.state = line.state
  BY CallbackFinds DEF OnOpenSuccess
<1>2. /\ "opening" \in line.flags /\ "closing" \notin line.flags /\ up' = bound
      /\ alive' = (up = {}) /\ Becomes(l)
  BY DEF OnOpenSuccess, OpenPending
<1>3. ~IsLayerUp(line) /\ line.state \in OpeningStates
  BY <1>1, <1>2 DEF IInv, Good, Fits, IsLayerUp, OpeningStates, ClosingOpeningStates, OpenStates,
     ClosingStates
<1>4. m \in Connections /\ m.flags = {"open"} /\ (line.state = "Opening" => m.state = "Open")
  BY <1>1, <1>2, OpenSucceededFields
<1> HIDE DEF m
<1>5. l \in Connections /\ l.state = m.state /\ l.flags = {"open", "reading"}
  BY <1>4, FlagFields DEF Flags
<1> HIDE DEF l
<1>6. line'.state = m.state /\ line'.flags = {"open", "reading"}
  BY <1>2, <1>5, BecomesFields
<1>7. alive' /\ late = {} /\ queue = <<>> /\ ~transmitting
  BY <1>1, <1>2, <1>3 DEF PortInv, ContextInv, QueueInv
<1>8. /\ IsLayerUp(line)' /\ "closing" \notin line'.flags /\ "reading" \in line'.flags
      /\ "writing" \notin line'.flags
  BY <1>6 DEF IsLayerUp
<1>9. PortTypes' /\ ThreadInv'
  BY <1>1, <1>2, <1>7 DEF PortInv, PortTypes, ThreadInv
<1>10. Reads(line)'
  BY <1>8 DEF Reads
<1>11. ContextInv'
  BY <1>1, <1>2, <1>7, <1>8 DEF PortInv, ContextInv
<1>12. QueueInv'
  BY <1>1, <1>7, <1>8 DEF PortInv, QueueInv
<1>13. BoundMeansConnecting'
  BY <1>1, <1>3, <1>4, <1>6 DEF PortInv, BoundMeansConnecting, OpeningStates
<1>14. QED
  BY <1>9, <1>10, <1>11, <1>12, <1>13 DEF PortInv

\* A callback that leaves the layer up leaves it closing, with a transfer that has not
\* ended; one that finds it down tells the contexts.
LEMMA SettlesKeeps ==
  ASSUME Settled, Callback, NEW l, Settles(l), Good(l), SameGroup(Fresh, l),
         \/ ~IsLayerUp(line) /\ ~IsLayerUp(l)
         \/ \E f \in {"reading", "writing"} : f \in line.flags /\ TransferLeaves(Fresh, f, l)
  PROVE  PortInv'
<1>1. /\ alive /\ ~held /\ IInv /\ PortInv
      /\ UNCHANGED <<removing, user, pausing, paused, posts, held>>
      /\ Fresh.flags = line.flags /\ Fresh.state = line.state
  BY CallbackFinds
<1>2. /\ Becomes(l) /\ UNCHANGED <<bound, stacks>>
      /\ IF IsLayerUp(line) /\ ~IsLayerUp(l)
         THEN GoDown
         ELSE UNCHANGED <<up, late, queue, transmitting, fault>>
      /\ alive' => fault' = fault
  BY DEF Settles
<1>3. line'.state = l.state /\ line'.flags = l.flags
  BY <1>1, <1>2, BecomesGood DEF IInv
<1>4. BoundMeansConnecting'
  BY <1>1, <1>2, <1>3 DEF PortInv, BoundMeansConnecting, SameGroup, Connected, Disconnected
<1>5. CASE ~IsLayerUp(line) /\ ~IsLayerUp(l)
  <2>1. UNCHANGED <<up, late, queue, transmitting, fault>>
    BY <1>2, <1>5
  <2>2. ~IsLayerUp(line)'
    BY <1>3, <1>5 DEF IsLayerUp
  <2>3. PortTypes' /\ ThreadInv'
    BY <1>1, <1>2, <2>1 DEF PortInv, PortTypes, ThreadInv
  <2>4. Reads(line)'
    BY <2>2 DEF Reads
  <2>5. ContextInv'
    BY <1>1, <1>2, <1>5, <2>1, <2>2 DEF PortInv, ContextInv
  <2>6. QueueInv'
    BY <1>1, <1>5, <2>1, <2>2 DEF PortInv, QueueInv
  <2>7. QED
    BY <1>4, <2>3, <2>4, <2>5, <2>6 DEF PortInv
<1>6. CASE IsLayerUp(line) /\ ~IsLayerUp(l)
  <2>1. /\ transmitting' = FALSE /\ queue' = <<>>
        /\ IF bound \subseteq up
           THEN up' = up \ bound /\ late' = {} /\ fault' = fault
           ELSE /\ \E told \in SUBSET (bound \cap up) : up' = up \ told
                /\ fault' = fault \cup {"not up"} /\ late' = late
    BY <1>2, <1>6 DEF GoDown
  <2>2. ~IsLayerUp(line)'
    BY <1>3, <1>6 DEF IsLayerUp
  <2>3. up = bound \ late /\ late \subseteq bound /\ "not up" \notin fault
    BY <1>1, <1>6 DEF PortInv, ContextInv
  <2>4. PortTypes' /\ ThreadInv'
    <3>1. /\ up' \subseteq up /\ late' \subseteq late
          /\ fault' \subseteq {"not up", "write", "down", "orphaned", "unbound", "deleted"}
      BY <1>1, <2>1 DEF PortInv, PortTypes
    <3>2. <<>> \in Seq(Contexts) /\ Len(<<>>) <= MaxQueue
      BY BoundsAssumption
    <3>3. QED
      BY <1>1, <1>2, <2>1, <3>1, <3>2 DEF PortInv, PortTypes, ThreadInv
  <2>5. Reads(line)'
    BY <2>2 DEF Reads
  <2>6. ContextInv'
    <3>1. CASE bound \subseteq up
      BY <1>2, <2>1, <2>2, <2>3, <3>1 DEF ContextInv
    <3>2. CASE ~(bound \subseteq up)
      <4>1. late # {} /\ fault' # fault
        BY <2>1, <2>3, <3>2
      <4>2. ~alive'
        BY <1>2, <4>1
      <4>3. QED
        BY <1>2, <2>1, <2>3, <3>2, <4>1, <4>2 DEF ContextInv
    <3>3. QED
      BY <3>1, <3>2
  <2>7. QueueInv'
    <3>1. fault' \in {fault, fault \cup {"not up"}} /\ queue' = <<>> /\ ~transmitting'
      BY <2>1
    <3>2. "down" \notin fault' /\ ("write" \in fault' => removing')
      BY <1>1, <3>1 DEF PortInv, QueueInv
    <3>3. QED
      BY <2>2, <3>1, <3>2 DEF QueueInv
  <2>8. QED
    BY <1>4, <2>4, <2>5, <2>6, <2>7 DEF PortInv
<1>7. CASE IsLayerUp(l)
  <2>1. PICK f \in {"reading", "writing"} : f \in line.flags /\ TransferLeaves(Fresh, f, l)
    BY <1>7
  <2>2. /\ IsLayerUp(line) /\ l.state = line.state /\ "closing" \in l.flags
        /\ \E g \in {"reading", "writing"} \ {f} : g \in line.flags
    BY <1>1, <1>7, <2>1 DEF TransferLeaves, IsLayerUp
  <2>3. UNCHANGED <<up, late, queue, transmitting, fault>>
    BY <1>2, <1>7
  <2>4. /\ IsLayerUp(line)' /\ "closing" \in line'.flags /\ "writing" \in line.flags
        /\ IsOpen(line)' <=> IsOpen(line)
    BY <1>3, <1>7, <2>1, <2>2 DEF IsLayerUp, IsOpen
  <2>5. PortTypes' /\ ThreadInv'
    BY <1>1, <1>2, <2>3 DEF PortInv, PortTypes, ThreadInv
  <2>6. Reads(line)'
    BY <2>4 DEF Reads
  <2>7. ContextInv'
    BY <1>1, <1>2, <2>2, <2>3, <2>4 DEF PortInv, ContextInv
  <2>8. QueueInv'
    BY <1>1, <2>2, <2>3, <2>4 DEF PortInv, QueueInv
  <2>9. QED
    BY <1>4, <2>5, <2>6, <2>7, <2>8 DEF PortInv
<1>8. QED
  BY <1>5, <1>6, <1>7

LEMMA PortStep == ASSUME Settled, [Next]_vars PROVE PortInv'
<1>1. CASE Call
  <2>1. PICK how \in Outcomes :
          (\E c \in Contexts : AddContext(c, how) \/ RemoveContext(c, how)) \/ RemovePort(how)
    BY <1>1 DEF Call
  <2>2. Transaction
    BY <1>1 DEF Call
  <2>3. QED
    BY <2>1, <2>2, AddContextKeeps, RemoveContextKeeps, RemovePortKeeps
<1>2. CASE OnOpenFailed
  <2>1. Callback /\ "opening" \in line.flags /\ Settles(OpenFailed(Fresh))
    BY <1>2 DEF OnOpenFailed, OpenPending
  <2>2. Good(Fresh) /\ Fresh.flags = line.flags
    BY <2>1, CallbackFinds
  <2>3. /\ Good(OpenFailed(Fresh)) /\ ~IsLayerUp(line) /\ ~IsLayerUp(OpenFailed(Fresh))
        /\ SameGroup(Fresh, OpenFailed(Fresh))
    BY <2>1, <2>2, OpenFailedGood, OpenFailedFields DEF IsLayerUp
  <2>4. QED
    BY <2>1, <2>3, SettlesKeeps
<1>3. CASE TransferEnd
  <2>1. PICK f \in {"reading", "writing"}, failed \in BOOLEAN : OnTransferEnd(f, failed)
    BY <1>3 DEF TransferEnd
  <2>2. PICK how \in Outcomes :
          Settles(IF failed THEN TransferFailed(Fresh, f, how) ELSE TransferIgnored(Fresh, f, how))
    BY <2>1 DEF OnTransferEnd
  <2>3. Callback /\ f \in line.flags /\ (failed \/ "closing" \in line.flags)
    BY <2>1 DEF OnTransferEnd
  <2>4. Good(Fresh) /\ Fresh.flags = line.flags /\ how \in AllOutcomes
    BY <2>3, CallbackFinds, OutcomesAll
  <2>5. PICK l : /\ Settles(l) /\ Good(l) /\ TransferLeaves(Fresh, f, l)
    <3>1. CASE failed
      BY <2>2, <2>3, <2>4, <3>1, TransferGood, TransferFields
    <3>2. CASE ~failed
      BY <2>2, <2>3, <2>4, <3>2, TransferGood, TransferFields
    <3>3. QED
      BY <3>1, <3>2
  <2>6. SameGroup(Fresh, l)
    BY <2>5 DEF TransferLeaves
  <2>7. QED
    BY <2>3, <2>5, <2>6, SettlesKeeps
<1>4. CASE OnOpenTimer
  <2>1. PICK how \in Outcomes : Settles(OnOpenTimerExpiration(Fresh, how))
    BY <1>4 DEF OnOpenTimer
  <2>2. Callback /\ line.timer
    BY <1>4 DEF OnOpenTimer
  <2>3. Good(Fresh) /\ Fresh.flags = line.flags /\ Fresh.timer /\ how \in AllOutcomes
    BY <2>2, FreshFields, OutcomesAll DEF Settled
  <2> DEFINE l == OnOpenTimerExpiration(Fresh, how)
  <2>4. Good(l) /\ ~IsLayerUp(line) /\ ~IsLayerUp(l) /\ SameGroup(Fresh, l)
    BY <2>3, OpenTimeoutGood, OpenTimerFields DEF IsLayerUp
  <2> HIDE DEF l
  <2>5. Settles(l)
    BY <2>1 DEF l
  <2>6. QED
    BY <2>2, <2>4, <2>5, SettlesKeeps
<1>5. CASE OnFinalShutdown
  <2>1. /\ alive /\ PortInv /\ Good(Fresh) /\ Fresh.flags = line.flags /\ Fresh.state = line.state
        /\ UNCHANGED <<removing, user, pausing, paused, posts, held>>
    BY <1>5, CallbackFinds DEF OnFinalShutdown
  <2>2. UNCHANGED <<alive, bound, stacks, up, late, queue, transmitting, fault>>
    BY <1>5 DEF OnFinalShutdown, routeVars
  <2>3. DoFinalShutdown(Fresh) \in Connections /\ DoFinalShutdown(Fresh).flags = line.flags
        /\ DoFinalShutdown(Fresh).state = line.state
    BY <2>1 DEF DoFinalShutdown, Good, Connections
  <2>4. line'.state = line.state /\ line'.flags = line.flags
    BY <1>5, <2>3, BecomesFields DEF OnFinalShutdown
  <2>5. QED
    BY <2>1, <2>2, <2>4 DEF PortInv, PortTypes, ThreadInv, Reads, ContextInv, QueueInv,
       BoundMeansConnecting, IsLayerUp, IsOpen
<1>6. QED
  BY <1>1, <1>2, <1>3, <1>4, <1>5, PauseKeeps, TransmitKeeps, OnReceiveKeeps, OnSendSuccessKeeps,
     OnOpenSuccessKeeps DEF Next

LEMMA PortInvariant == Spec => []PortInv
<1>1. Init => PortInv
  <2>1. <<>> \in Seq(Contexts) /\ Len(<<>>) <= MaxQueue /\ 0 \in 0..MaxPosts
    BY BoundsAssumption
  <2>2. ASSUME Init PROVE line.flags = {} /\ line.state = "Init" /\ alive
    BY <2>2 DEF Init, MonitorInit, NewConnection
  <2>3. Init => PortTypes
    BY <2>1 DEF Init, PortTypes
  <2>4. Init => ThreadInv /\ Reads(line) /\ ContextInv /\ QueueInv
    BY <2>2 DEF Init, ThreadInv, Reads, ContextInv, QueueInv, IsLayerUp
  <2>5. Init => BoundMeansConnecting
    BY <2>2 DEF Init, BoundMeansConnecting
  <2>6. QED
    BY <2>3, <2>4, <2>5 DEF PortInv
<1>2. IInv /\ PauseInv /\ PortInv /\ [Next]_vars => PortInv'
  BY PortStep DEF Settled
<1>3. QED
  BY <1>1, <1>2, LineInvariant, PauseInvariant, PTL DEF Spec

\* Every bound context was told of the layer what it needs to know; one that is told down
\* without having been up exists only after a binding to a closing layer; and the port
\* with a stack is open or on its way to be.
THEOREM StacksCorrect == Spec => []StacksMatchLayer
<1>1. IInv /\ PortInv => StacksMatchLayer
  BY DEF IInv, Good, PortInv, PortTypes, ContextInv, StacksMatchLayer, TypeOK, ConnectionTypeOK,
     ContextsMatchLayer
<1>2. QED
  BY <1>1, LineInvariant, PortInvariant, PTL

\* The queue and mTransmitting fit the write of the layer, and no frame is left of the last
\* connection.
THEOREM QueueCorrect == Spec => []QueueMatchesWrite
<1>1. PortInv => QueueMatchesWrite
  BY DEF PortInv, QueueInv, QueueMatchesWrite
<1>2. QED
  BY <1>1, PortInvariant, PTL

\* The owners of the frames that wait.
LEMMA OwnersStep ==
  ASSUME Settled, FramesOfBoundStacks, [Next]_vars
  PROVE  FramesOfBoundStacks'
<1>1. queue \in Seq(Contexts) /\ (OnSendSuccess => queue # <<>>)
  <2>1. ASSUME OnSendSuccess PROVE queue # <<>>
    <3>1. alive /\ IInv /\ PortInv /\ "writing" \in line.flags /\ "closing" \notin line.flags
      BY <2>1, CallbackFinds DEF OnSendSuccess
    <3>2. QED
      BY <3>1, UpFlags DEF PortInv, QueueInv, IsLayerUp
  <2>2. QED
    BY <2>1 DEF Settled, PortInv, PortTypes
<1>2. ASSUME UNCHANGED queue, bound \subseteq bound',
             fault' \subseteq fault \cup {"not up", "write", "down", "deleted"}, fault \subseteq fault'
      PROVE  FramesOfBoundStacks'
  BY <1>2 DEF FramesOfBoundStacks, Queued
<1>3. ASSUME queue' = <<>>, fault' \in {fault, fault \cup {"not up"}}
      PROVE  FramesOfBoundStacks'
  <2>1. \A c \in Contexts : ~Queued(c)'
    <3>1. queue' = <<>>
      BY <1>3
    <3>2. QED
      BY <3>1 DEF Queued
  <2>2. QED
    BY <1>3, <2>1 DEF FramesOfBoundStacks
<1>4. ASSUME NEW l, Settles(l) PROVE FramesOfBoundStacks'
  <2>1. CASE IsLayerUp(line) /\ ~IsLayerUp(l)
    BY <1>3, <1>4, <2>1 DEF Settles, GoDown
  <2>2. CASE ~(IsLayerUp(line) /\ ~IsLayerUp(l))
    BY <1>2, <1>4, <2>2 DEF Settles
  <2>3. QED
    BY <2>1, <2>2
<1>5. CASE Call
  <2>1. PICK how \in Outcomes :
          (\E c \in Contexts : AddContext(c, how) \/ RemoveContext(c, how)) \/ RemovePort(how)
    BY <1>5 DEF Call
  <2>2. CASE \E c \in Contexts : AddContext(c, how)
    BY <1>2, <2>2 DEF AddContext
  <2>3. ASSUME NEW c \in Contexts, RemoveContext(c, how) PROVE FramesOfBoundStacks'
    <3>1. /\ bound' = bound \ {c} /\ queue' = queue
          /\ fault' = fault \cup (IF Queued(c) THEN {"orphaned"} ELSE {})
      BY <2>3 DEF RemoveContext
    <3>2. CASE Queued(c)
      BY <3>1, <3>2 DEF FramesOfBoundStacks
    <3>3. CASE ~Queued(c)
      BY <3>1, <3>3 DEF FramesOfBoundStacks, Queued
    <3>4. QED
      BY <3>2, <3>3
  <2>4. CASE RemovePort(how)
    <3> DEFINE l == Shutdown(Fresh, how)
    <3>1. CASE l.bad # {}
      BY <1>2, <2>4, <3>1 DEF RemovePort
    <3>2. CASE l.bad = {} /\ IsLayerUp(line) /\ ~IsLayerUp(l)
      BY <1>3, <2>4, <3>2 DEF RemovePort, GoDown
    <3>3. CASE l.bad = {} /\ ~(IsLayerUp(line) /\ ~IsLayerUp(l))
      BY <1>2, <2>4, <3>3 DEF RemovePort
    <3>4. QED
      BY <3>1, <3>2, <3>3
  <2>5. QED
    BY <2>1, <2>2, <2>3, <2>4
<1>6. ASSUME NEW c \in Contexts, Transmit(c) PROVE FramesOfBoundStacks'
  <2>1. CASE IsLayerUp(line)
    <3>1. /\ queue' = Append(queue, c) /\ c \in bound /\ bound' = bound
          /\ fault' \in {fault, fault \cup {"write"}}
      BY <1>6, <2>1 DEF Transmit
    <3>2. \A d \in Contexts : Queued(d)' => Queued(d) \/ d = c
      BY <1>1, <3>1 DEF Queued
    <3>3. QED
      BY <3>1, <3>2 DEF FramesOfBoundStacks
  <2>2. CASE ~IsLayerUp(line)
    BY <1>2, <1>6, <2>2 DEF Transmit
  <2>3. QED
    BY <2>1, <2>2
<1>7. CASE OnReceive
  <2>1. PICK reply \in Seq(bound \cap up) :
          /\ queue' = queue \o reply
          /\ fault' \in {fault, fault \cup {"write"}}
    BY <1>7, ReceiveResponds DEF Respond
  <2>2. bound' = bound
    BY <1>7 DEF OnReceive
  <2>3. \A d \in Contexts : Queued(d)' => Queued(d) \/ d \in bound
    BY <1>1, <2>1 DEF Queued
  <2>4. QED
    BY <2>1, <2>2, <2>3 DEF FramesOfBoundStacks
<1>8. CASE OnSendSuccess
  <2>1. /\ queue' = Tail(queue) /\ bound' = bound
        /\ fault' \subseteq fault \cup {"unbound", "write"} /\ fault \subseteq fault'
        /\ "unbound" \in fault' => "unbound" \in fault \/ Head(queue) \notin bound
    BY <1>8 DEF OnSendSuccess
  <2>2. Head(queue) \in Contexts /\ Queued(Head(queue))
    BY <1>1, <1>8 DEF Queued
  <2>3. \A d \in Contexts : Queued(d)' => Queued(d)
    <3>1. Len(Tail(queue)) = Len(queue) - 1 /\ \A i \in 1..Len(queue) - 1 : Tail(queue)[i] = queue[i + 1]
      BY <1>1, <1>8
    <3>2. QED
      BY <1>1, <2>1, <3>1 DEF Queued
  <2>4. QED
    BY <2>1, <2>2, <2>3 DEF FramesOfBoundStacks
<1>9. CASE OnOpenSuccess
  BY <1>2, <1>9 DEF OnOpenSuccess
<1>10. CASE OnOpenFailed \/ TransferEnd \/ OnOpenTimer
  <2>1. \E l : Settles(l)
    BY <1>10 DEF OnOpenFailed, TransferEnd, OnTransferEnd, OnOpenTimer
  <2>2. QED
    BY <1>4, <2>1
<1>11. CASE OnFinalShutdown \/ BeginTransaction \/ EnterTransaction \/ Pause \/ Resume
            \/ UNCHANGED vars
  BY <1>2, <1>11 DEF OnFinalShutdown, BeginTransaction, EnterTransaction, Pause, Resume, routeVars, vars
<1>12. QED
  BY <1>5, <1>6, <1>7, <1>8, <1>9, <1>10, <1>11 DEF Next

\* LinkLayerRouter: its stacks and its queue fit the layer under them, and the assertion of
\* _OnSendSuccess holds until a stack is removed of which a frame waits.
THEOREM PortCorrect == Spec => []PortMatchesLayer
<1>1. Init => FramesOfBoundStacks
  BY DEF Init, FramesOfBoundStacks, Queued
<1>2. IInv /\ PauseInv /\ PortInv /\ FramesOfBoundStacks /\ [Next]_vars => FramesOfBoundStacks'
  BY OwnersStep DEF Settled
<1>3. StacksMatchLayer /\ QueueMatchesWrite /\ FramesOfBoundStacks => PortMatchesLayer
  BY DEF PortMatchesLayer
<1>4. QED
  BY <1>1, <1>2, <1>3, LineInvariant, PauseInvariant, PortInvariant, StacksCorrect, QueueCorrect, PTL
     DEF Spec

-----------------------------------------------------------------------------
(* The tunnel (Vto): what each router knows *)

TunnelStates(r) ==
  IF r = "client" THEN {"Init", "OpeningOne", "OpeningSuspending", "OpenOne", "Suspending", "Suspended"}
  ELSE {"Opening", "OpeningClosing", "Open", "Closing", "Waiting"}

\* A router's connection is in a state that its requests lead to.
Sound(s) ==
  /\ s \in Routers /\ Good(s.conn) /\ s.conn.bad \subseteq {"close", "open"}
  /\ s.conn.state \in TunnelStates(s.role)
  /\ "open" \in s.conn.bad => s.role = "server" /\ s.conn.state \in {"Opening", "OpeningClosing"}

\* mLocalConnected: at the client it is set from the attempt on; at the server it stays set
\* when the attempt to listen again is refused.
Knows(s) ==
  IF s.role = "client" THEN s.local <=> s.conn.flags # {}
  ELSE /\ IsLayerUp(s.conn) => s.local
       /\ s.local => IsLayerUp(s.conn) \/ "open" \in s.conn.bad

-----------------------------------------------------------------------------
(* The two streams *)

\* Objects, and the chunks that are still to come.
Items == [type : {"data", "opened", "closed"}, ses : Nat, n : Nat]

Before(a, b) == a.ses < b.ses \/ (a.ses = b.ses /\ a.n < b.n)

\* The chunks of a sequence come in the order in which they were read.
Ascending(q) ==
  \A i, j \in DOMAIN q : i < j /\ q[i].type = "data" /\ q[j].type = "data" => Before(q[i], q[j])

\* What the server sends next after x.
Follows(x, y) ==
  CASE x.type = "opened" -> y.type = "closed" \/ (y.type = "data" /\ y.n = 1)
    [] x.type = "data" -> y.type = "closed" \/ (y.type = "data" /\ y.ses = x.ses /\ y.n = x.n + 1)
    [] x.type = "closed" -> y.type \in {"opened", "closed"}

Chain(q) == \A i \in DOMAIN q : i + 1 \in DOMAIN q => Follows(q[i], q[i + 1])

\* What a router has for its peer.
Out(s) == s.queue \o s.toVto

\* The next chunk of a connection; what the server sends next if the connection stays as it is.
Coming(ses, m) == Data(ses, m + 1)
Sends(s, ses, m) == IF s.local THEN Coming(ses, m) ELSE Opened

\* What the client wrote last, while its connection may be written to.
Live(s) == CanClose(s.conn)
Latest(s) == IF IsLayerUp(s.conn) /\ s.wrote # <<>> THEN s.wrote[Len(s.wrote)] ELSE Opened
Lead(s) == IF Live(s) THEN <<Latest(s)>> ELSE <<>>

\* The client's connection, while it may be written to, is the one of the last news; what it
\* wrote is the beginning of one stream.
Tuned(s) ==
  /\ s.toPhys # <<>> => (s.inst <=> s.toPhys[Len(s.toPhys)].type # "closed")
  /\ Live(s) => s.remote /\ (s.toPhys = <<>> => s.inst)
  /\ s.thrown => s.toPhys = <<>> /\ ~Live(s)
  /\ \A i \in DOMAIN s.wrote : s.wrote[i] = Data(s.wrote[1].ses, i)

\* The streams as seen by one router, between what is before its own objects (the objects of
\* the peer that its own follow) and what is behind those that it has received: both keep the
\* order of the chunks ("order"), and the server's is what the client's device gets ("stream").
Views == {"order", "stream"}

Flow(view, s, pre, rest, ses, m) ==
  IF view = "order"
  THEN /\ Ascending((s.wrote \o s.toPhys) \o rest)
       /\ Ascending(pre \o (Out(s) \o <<Coming(ses, m)>>))
  ELSE IF s.role = "server" THEN Chain(pre \o (Out(s) \o <<Sends(s, ses, m)>>))
  ELSE Chain((Lead(s) \o s.toPhys) \o rest) /\ Tuned(s)
-----------------------------------------------------------------------------
(* Sequences of objects *)

LEMMA ObjectsAreItems == /\ Objects \subseteq Items /\ Opened \in Objects /\ Closing \in Objects
                         /\ \A ses, n \in Nat : Data(ses, n) \in Items
BY TunnelAssumption DEF Objects, Items, Opened, Closing, Data, Sides

LEMMA ObjectSeqs == \A q \in Seq(Objects) : q \in Seq(Items)
BY ObjectsAreItems, SeqMonotonic

LEMMA ChunkSeqs ==
  \A q \in Seq(Chunks) : q \in Seq(Objects) /\ \A i \in DOMAIN q : q[i].type = "data"
<1>1. \A q \in Seq(Chunks) : q \in Seq(Objects)
  BY SeqMonotonic DEF Chunks
<1>2. \A q \in Seq(Chunks) : \A i \in DOMAIN q : q[i] \in Chunks
  OBVIOUS
<1> QED
  BY <1>1, <1>2 DEF Chunks

LEMMA Associative == \A a, b, c \in Seq(Items) : (a \o b) \o c = a \o (b \o c)
BY ConcatAssociative

LEMMA Empty == \A a \in Seq(Items) : a \o <<>> = a /\ <<>> \o a = a
BY ConcatEmptySeq

\* Where the elements of two sequences in a row are
LEMMA Joined ==
  ASSUME NEW a \in Seq(Items), NEW b \in Seq(Items)
  PROVE  /\ a \o b \in Seq(Items) /\ Len(a \o b) = Len(a) + Len(b)
         /\ \A i \in DOMAIN a : i \in DOMAIN (a \o b) /\ (a \o b)[i] = a[i]
         /\ \A i \in DOMAIN b : Len(a) + i \in DOMAIN (a \o b) /\ (a \o b)[Len(a) + i] = b[i]
         /\ \A i \in DOMAIN (a \o b) : i \in DOMAIN a \/ (i - Len(a) \in DOMAIN b /\ (a \o b)[i] = b[i - Len(a)])
<1>1. Len(a) \in Nat /\ Len(b) \in Nat
  OBVIOUS
<1>2. a \o b \in Seq(Items) /\ Len(a \o b) = Len(a) + Len(b) /\ DOMAIN (a \o b) = 1 .. Len(a) + Len(b)
  OBVIOUS
<1>3. DOMAIN a = 1 .. Len(a) /\ DOMAIN b = 1 .. Len(b)
  OBVIOUS
<1>4. \A i \in 1 .. Len(a) : (a \o b)[i] = a[i]
  OBVIOUS
<1>5. \A i \in 1 .. Len(b) : (a \o b)[Len(a) + i] = b[i]
  OBVIOUS
<1>6. \A i \in 1 .. Len(a) + Len(b) : i \in 1 .. Len(a) \/ (i - Len(a) \in 1 .. Len(b) /\ (a \o b)[i] = b[i - Len(a)])
  <2> TAKE i \in 1 .. Len(a) + Len(b)
  <2>1. i \in 1 .. Len(a) \/ i - Len(a) \in 1 .. Len(b)
    BY <1>1
  <2>2. i - Len(a) \in 1 .. Len(b) => Len(a) + (i - Len(a)) = i
    BY <1>1
  <2>3. QED
    BY <1>5, <2>1, <2>2
<1>7. /\ \A i \in 1 .. Len(a) : i \in 1 .. Len(a) + Len(b)
      /\ \A i \in 1 .. Len(b) : Len(a) + i \in 1 .. Len(a) + Len(b)
  BY <1>1
<1> QED
  BY <1>2, <1>3, <1>4, <1>5, <1>6, <1>7

\* What stands behind something stays in order without it.
LEMMA AscendingParts ==
  ASSUME NEW a \in Seq(Items), NEW b \in Seq(Items)
  PROVE  Ascending(a \o b) <=>
           /\ Ascending(a) /\ Ascending(b)
           /\ \A i \in DOMAIN a, j \in DOMAIN b :
                a[i].type = "data" /\ b[j].type = "data" => Before(a[i], b[j])
<1>1. Len(a) \in Nat /\ Len(b) \in Nat /\ DOMAIN a = 1 .. Len(a) /\ DOMAIN b = 1 .. Len(b)
  OBVIOUS
<1>2. \A i \in DOMAIN a, j \in DOMAIN b : i < Len(a) + j
  BY <1>1
<1>3. \A i, j \in DOMAIN b : i < j => Len(a) + i < Len(a) + j
  BY <1>1
<1>4. ASSUME Ascending(a \o b)
      PROVE  /\ Ascending(a) /\ Ascending(b)
             /\ \A i \in DOMAIN a, j \in DOMAIN b :
                  a[i].type = "data" /\ b[j].type = "data" => Before(a[i], b[j])
  <2> DEFINE c == a \o b
  <2>1. /\ \A i \in DOMAIN a : i \in DOMAIN c /\ c[i] = a[i]
        /\ \A i \in DOMAIN b : Len(a) + i \in DOMAIN c /\ c[Len(a) + i] = b[i]
    BY Joined
  <2> HIDE DEF c
  <2>2. Ascending(c)
    BY <1>4 DEF c
  <2>3. Ascending(a)
    BY <2>1, <2>2 DEF Ascending
  <2>4. Ascending(b)
    <3> SUFFICES ASSUME NEW i \in DOMAIN b, NEW j \in DOMAIN b, i < j, b[i].type = "data", b[j].type = "data"
                 PROVE  Before(b[i], b[j])
      BY DEF Ascending
    <3>1. /\ Len(a) + i \in DOMAIN c /\ c[Len(a) + i] = b[i]
          /\ Len(a) + j \in DOMAIN c /\ c[Len(a) + j] = b[j]
      BY <2>1
    <3>2. i < j => Len(a) + i < Len(a) + j
      BY <1>3
    <3>3. QED
      BY <2>2, <3>1, <3>2 DEF Ascending
  <2>5. ASSUME NEW i \in DOMAIN a, NEW j \in DOMAIN b, a[i].type = "data", b[j].type = "data"
        PROVE  Before(a[i], b[j])
    <3>1. /\ i \in DOMAIN c /\ c[i] = a[i] /\ Len(a) + j \in DOMAIN c /\ c[Len(a) + j] = b[j]
          /\ i < Len(a) + j
      BY <1>2, <2>1
    <3>2. QED
      BY <2>2, <2>5, <3>1 DEF Ascending
  <2> QED
    BY <2>3, <2>4, <2>5
<1>5. ASSUME Ascending(a), Ascending(b),
             \A i \in DOMAIN a, j \in DOMAIN b :
                a[i].type = "data" /\ b[j].type = "data" => Before(a[i], b[j])
      PROVE  Ascending(a \o b)
  <2> SUFFICES ASSUME NEW i \in DOMAIN (a \o b), NEW j \in DOMAIN (a \o b), i < j,
                      (a \o b)[i].type = "data", (a \o b)[j].type = "data"
               PROVE  Before((a \o b)[i], (a \o b)[j])
    BY DEF Ascending
  <2>1. i \in 1 .. Len(a) + Len(b) /\ j \in 1 .. Len(a) + Len(b)
    OBVIOUS
  <2>2. CASE i \in DOMAIN a /\ j \in DOMAIN a
    BY <1>5, <2>2, Joined DEF Ascending
  <2>3. CASE i \in DOMAIN a /\ j \notin DOMAIN a
    BY <1>5, <2>3, Joined
  <2>4. CASE i \notin DOMAIN a
    <3>1. j \notin DOMAIN a
      BY <1>1, <2>1, <2>4
    <3>2. i - Len(a) \in DOMAIN b /\ j - Len(a) \in DOMAIN b /\ i - Len(a) < j - Len(a)
      BY <1>1, <2>1, <2>4, <3>1
    <3>3. (a \o b)[i] = b[i - Len(a)] /\ (a \o b)[j] = b[j - Len(a)]
      BY <2>4, <3>1, Joined
    <3>4. QED
      BY <1>5, <3>2, <3>3 DEF Ascending
  <2>5. QED
    BY <2>2, <2>3, <2>4
<1> QED
  BY <1>4, <1>5

LEMMA AscendingWithout ==
  ASSUME NEW a \in Seq(Items), NEW b \in Seq(Items), NEW c \in Seq(Items), Ascending((a \o b) \o c)
  PROVE  Ascending(a \o c) /\ Ascending(b \o c) /\ Ascending(c) /\ Ascending(a \o b)
<1>1. a \o b \in Seq(Items)
  BY Joined
<1>2. Ascending(a \o b) /\ Ascending(c)
      /\ \A i \in DOMAIN (a \o b), j \in DOMAIN c :
           (a \o b)[i].type = "data" /\ c[j].type = "data" => Before((a \o b)[i], c[j])
  BY <1>1, AscendingParts
<1>3. Ascending(a) /\ Ascending(b)
  BY <1>2, AscendingParts
<1>4. Ascending(a \o c)
  BY <1>2, <1>3, AscendingParts, Joined
<1>5. Ascending(b \o c)
  <2>1. \A i \in DOMAIN b : Len(a) + i \in DOMAIN (a \o b) /\ (a \o b)[Len(a) + i] = b[i]
    BY Joined
  <2>2. \A i \in DOMAIN b, j \in DOMAIN c :
          b[i].type = "data" /\ c[j].type = "data" => Before(b[i], c[j])
    BY <1>2, <2>1
  <2>3. QED
    BY <1>2, <1>3, <2>2, AscendingParts
<1> QED
  BY <1>2, <1>4, <1>5

LEMMA OneItem ==
  ASSUME NEW x \in Items
  PROVE  /\ <<x>> \in Seq(Items) /\ Len(<<x>>) = 1 /\ DOMAIN <<x>> = {1} /\ <<x>>[1] = x
         /\ Ascending(<<x>>) /\ Chain(<<x>>)
<1>1. <<x>> \in Seq(Items) /\ Len(<<x>>) = 1 /\ <<x>>[1] = x
  OBVIOUS
<1>2. DOMAIN <<x>> = {1}
  OBVIOUS
<1> QED
  BY <1>1, <1>2 DEF Ascending, Chain

\* News are in any order; a later chunk may stand for the last one, or behind it.
LEMMA AscendingNews ==
  ASSUME NEW a \in Seq(Items), NEW b \in Seq(Items), NEW x \in Items, x.type # "data", Ascending(a \o b)
  PROVE  Ascending(a \o (<<x>> \o b))
<1>1. <<x>> \o b \in Seq(Items)
  BY OneItem, Joined
<1>2. Ascending(<<x>> \o b)
  BY AscendingParts, OneItem
<1>3. \A i \in DOMAIN a, j \in DOMAIN (<<x>> \o b) :
        a[i].type = "data" /\ (<<x>> \o b)[j].type = "data" => Before(a[i], (<<x>> \o b)[j])
  <2> TAKE i \in DOMAIN a, j \in DOMAIN (<<x>> \o b)
  <2>1. CASE j \in DOMAIN <<x>>
    BY <2>1, OneItem, Joined
  <2>2. CASE j \notin DOMAIN <<x>>
    BY <2>2, OneItem, Joined, AscendingParts
  <2>3. QED
    BY <2>1, <2>2
<1> QED
  BY <1>1, <1>2, <1>3, AscendingParts

LEMMA BeforeTransitive ==
  ASSUME NEW x \in Items, NEW y \in Items, NEW z \in Items, Before(x, y), Before(y, z)
  PROVE  Before(x, z)
BY DEF Before, Items

LEMMA AscendingLater ==
  ASSUME NEW a \in Seq(Items), NEW x \in Items, NEW y \in Items, x.type = "data", y.type = "data",
         Before(x, y), Ascending(a \o <<x>>)
  PROVE  Ascending(a \o <<y>>) /\ Ascending(a \o (<<x>> \o <<y>>))
<1> DEFINE u == <<x>>
           v == <<y>>
<1>1. /\ u \in Seq(Items) /\ DOMAIN u = {1} /\ u[1] = x /\ Ascending(u)
      /\ v \in Seq(Items) /\ DOMAIN v = {1} /\ v[1] = y /\ Ascending(v)
  BY OneItem
<1> HIDE DEF u, v
<1>2. Ascending(a \o u)
  BY DEF u
<1>3. \A i \in DOMAIN a : a[i] \in Items /\ (a[i].type = "data" => Before(a[i], x))
  BY <1>1, <1>2, AscendingParts
<1>4. \A i \in DOMAIN a : a[i].type = "data" => Before(a[i], y)
  BY <1>3, BeforeTransitive
<1>5. Ascending(a) /\ Ascending(a \o v)
  BY <1>1, <1>2, <1>4, AscendingParts
<1>6. u \o v \in Seq(Items) /\ Ascending(u \o v)
  BY <1>1, Joined, AscendingParts
<1>7. \A j \in DOMAIN (u \o v) : (u \o v)[j] \in {x, y}
  BY <1>1, Joined
<1>8. \A i \in DOMAIN a, j \in DOMAIN (u \o v) : a[i].type = "data" => Before(a[i], (u \o v)[j])
  BY <1>3, <1>4, <1>7
<1>9. Ascending(a \o (u \o v))
  BY <1>5, <1>6, <1>8, AscendingParts
<1> QED
  BY <1>5, <1>9 DEF u, v

\* Chains: parts, and what joins them
LEMMA ChainParts ==
  ASSUME NEW a \in Seq(Items), NEW b \in Seq(Items)
  PROVE  Chain(a \o b) <=>
           /\ Chain(a) /\ Chain(b)
           /\ a # <<>> /\ b # <<>> => Follows(a[Len(a)], b[1])
<1> DEFINE c == a \o b
           m == Len(a)
           n == Len(b)
<1>1. m \in Nat /\ n \in Nat /\ DOMAIN a = 1 .. m /\ DOMAIN b = 1 .. n
  OBVIOUS
<1>2. DOMAIN c = 1 .. m + n
  OBVIOUS
<1>3. /\ \A i \in DOMAIN a : c[i] = a[i]
      /\ \A i \in DOMAIN b : c[m + i] = b[i]
  BY Joined
<1>4. (a # <<>> <=> m > 0) /\ (b # <<>> <=> n > 0)
  BY EmptySeq
<1> HIDE DEF c, m, n
<1>5. ASSUME Chain(c)
      PROVE  Chain(a) /\ Chain(b) /\ (m > 0 /\ n > 0 => Follows(a[m], b[1]))
  <2>1. ASSUME NEW i \in DOMAIN a, i + 1 \in DOMAIN a
        PROVE  Follows(a[i], a[i + 1])
    <3>1. i \in DOMAIN c /\ i + 1 \in DOMAIN c
      BY <1>1, <1>2, <2>1
    <3>2. QED
      BY <1>3, <1>5, <2>1, <3>1 DEF Chain
  <2>2. ASSUME NEW i \in DOMAIN b, i + 1 \in DOMAIN b
        PROVE  Follows(b[i], b[i + 1])
    <3>1. m + i \in DOMAIN c /\ (m + i) + 1 \in DOMAIN c /\ (m + i) + 1 = m + (i + 1)
      BY <1>1, <1>2, <2>2
    <3>2. QED
      BY <1>3, <1>5, <2>2, <3>1 DEF Chain
  <2>3. ASSUME m > 0, n > 0
        PROVE  Follows(a[m], b[1])
    <3>1. m \in DOMAIN c /\ m + 1 \in DOMAIN c /\ m \in DOMAIN a /\ 1 \in DOMAIN b
      BY <1>1, <1>2, <2>3
    <3>2. QED
      BY <1>3, <1>5, <3>1 DEF Chain
  <2>4. QED
    BY <2>1, <2>2, <2>3 DEF Chain
<1>6. ASSUME Chain(a), Chain(b), m > 0 /\ n > 0 => Follows(a[m], b[1])
      PROVE  Chain(c)
  <2> SUFFICES ASSUME NEW i \in DOMAIN c, i + 1 \in DOMAIN c
               PROVE  Follows(c[i], c[i + 1])
    BY DEF Chain
  <2>1. CASE i + 1 \in DOMAIN a
    <3>1. i \in DOMAIN a
      BY <1>1, <1>2, <2>1
    <3>2. QED
      BY <1>3, <1>6, <2>1, <3>1 DEF Chain
  <2>2. CASE i \in DOMAIN a /\ i + 1 \notin DOMAIN a
    <3>1. i = m /\ m > 0 /\ n > 0 /\ 1 \in DOMAIN b
      BY <1>1, <1>2, <2>2
    <3>2. QED
      BY <1>3, <1>6, <2>2, <3>1
  <2>3. CASE i \notin DOMAIN a
    <3>1. PICK j \in DOMAIN b : i = m + j /\ j + 1 \in DOMAIN b /\ i + 1 = m + (j + 1)
      <4>1. i - m \in DOMAIN b /\ i = m + (i - m) /\ (i - m) + 1 \in DOMAIN b /\ i + 1 = m + ((i - m) + 1)
        BY <1>1, <1>2, <2>3
      <4>2. QED
        BY <4>1
    <3>2. QED
      BY <1>3, <1>6, <3>1 DEF Chain
  <2>4. QED
    BY <1>1, <1>2, <2>1, <2>2, <2>3
<1> QED
  BY <1>4, <1>5, <1>6 DEF c, m, n

\* The end of a chain may be another that follows wherever the first does.
LEMMA ChainEnd ==
  ASSUME NEW a \in Seq(Items), NEW x \in Items, NEW y \in Items, Chain(a \o <<x>>),
         \A z \in Items : Follows(z, x) => Follows(z, y)
  PROVE  Chain(a \o <<y>>)
<1> DEFINE u == <<x>>
           v == <<y>>
<1>1. /\ u \in Seq(Items) /\ u # <<>> /\ u[1] = x
      /\ v \in Seq(Items) /\ v # <<>> /\ v[1] = y /\ Chain(v)
  BY OneItem
<1> HIDE DEF u, v
<1>2. Chain(a) /\ (a # <<>> => Follows(a[Len(a)], x))
  BY <1>1, ChainParts DEF u
<1>3. a # <<>> => a[Len(a)] \in Items
  OBVIOUS
<1>4. Chain(a \o v)
  BY <1>1, <1>2, <1>3, ChainParts
<1> QED
  BY <1>4 DEF v

\* It may be continued.
LEMMA ChainGrows ==
  ASSUME NEW a \in Seq(Items), NEW x \in Items, NEW y \in Items, Chain(a \o <<x>>), Follows(x, y)
  PROVE  Chain(a \o (<<x>> \o <<y>>))
<1> DEFINE u == <<x>>
           v == <<y>>
           w == u \o v
<1>1. /\ u \in Seq(Items) /\ u # <<>> /\ u[1] = x /\ Len(u) = 1 /\ Chain(u) /\ DOMAIN u = {1}
      /\ v \in Seq(Items) /\ v # <<>> /\ v[1] = y /\ Chain(v)
  BY OneItem
<1> HIDE DEF u, v
<1>2. Chain(a) /\ (a # <<>> => Follows(a[Len(a)], x))
  BY <1>1, ChainParts DEF u
<1>3. w \in Seq(Items) /\ Chain(w) /\ Len(w) = 1 + Len(v) /\ w[1] = x
  BY <1>1, ChainParts, Joined
<1>4. w # <<>>
  BY <1>1, <1>3, EmptySeq
<1> HIDE DEF w
<1>5. Chain(a \o w)
  BY <1>2, <1>3, <1>4, ChainParts
<1> QED
  BY <1>5 DEF w, u, v

\* A second closing may be left out behind a closing.
LEMMA ChainWithout ==
  ASSUME NEW a \in Seq(Items), NEW x \in Items, NEW b \in Seq(Items), x.type = "closed",
         Chain(a \o (<<x>> \o b)), a # <<>> => a[Len(a)].type = "closed"
  PROVE  Chain(a \o b)
<1> DEFINE u == <<x>>
           w == u \o b
<1>1. u \in Seq(Items) /\ u # <<>> /\ u[1] = x /\ Len(u) = 1
  BY OneItem
<1> HIDE DEF u
<1>2. w \in Seq(Items)
  BY <1>1, Joined
<1>3. Chain(a) /\ Chain(w)
  BY <1>2, ChainParts DEF w, u
<1>4. Chain(b) /\ (b # <<>> => Follows(x, b[1]))
  BY <1>1, <1>3, ChainParts
<1>5. a # <<>> /\ b # <<>> => Follows(a[Len(a)], b[1])
  <2> HAVE a # <<>> /\ b # <<>>
  <2>1. b[1].type \in {"opened", "closed"}
    BY <1>4 DEF Follows
  <2>2. QED
    BY <2>1 DEF Follows
<1> QED
  BY <1>3, <1>4, <1>5, ChainParts

LEMMA ChainBehind ==
  ASSUME NEW a \in Seq(Items), NEW b \in Seq(Items), NEW c \in Seq(Items), Chain((a \o b) \o c)
  PROVE  Chain(c) /\ Chain(b \o c)
<1>1. a \o b \in Seq(Items) /\ b \o c \in Seq(Items) /\ (a \o b) \o c = a \o (b \o c)
  BY Joined, ConcatAssociative
<1>2. Chain(c)
  BY <1>1, ChainParts
<1>3. Chain(b \o c)
  BY <1>1, ChainParts
<1> QED
  BY <1>2, <1>3

\* A sequence in two parts
LEMMA Split ==
  ASSUME NEW q \in Seq(Objects), NEW k \in 0 .. Len(q)
  PROVE  /\ SubSeq(q, 1, k) \in Seq(Objects) /\ SubSeq(q, k + 1, Len(q)) \in Seq(Objects)
         /\ Len(SubSeq(q, 1, k)) = k
         /\ SubSeq(q, 1, k) \o SubSeq(q, k + 1, Len(q)) = q
<1>1. Len(q) \in Nat /\ k \in Nat /\ k <= Len(q) /\ \A i \in 1 .. Len(q) : q[i] \in Objects
  OBVIOUS
<1> DEFINE n == Len(q)
<1> HIDE DEF n
<1>2. /\ 1 \in 1 .. n + 1 /\ k \in 1 - 1 .. n /\ n \in k .. n
      /\ \A i \in 1 .. k : q[i] \in Objects
      /\ \A i \in k + 1 .. n : q[i] \in Objects
  BY <1>1 DEF n
<1>3. SubSeq(q, 1, k) \in Seq(Objects) /\ Len(SubSeq(q, 1, k)) = k
  BY <1>1, <1>2, SubSeqProperties
<1>4. SubSeq(q, k + 1, n) \in Seq(Objects)
  BY <1>1, <1>2, SubSeqProperties DEF n
<1>5. SubSeq(q, 1, k) \o SubSeq(q, k + 1, n) = SubSeq(q, 1, n)
  BY <1>2, ConcatAdjacentSubSeq DEF n
<1>6. SubSeq(q, 1, n) = q
  BY SubSeqFull DEF n
<1> QED
  BY <1>3, <1>4, <1>5, <1>6 DEF n
-----------------------------------------------------------------------------
(* What a router asks of its connection *)

LEMMA WaysAreOutcomes == \A r \in Sides : Ways(r) \subseteq AllOutcomes
BY DEF Ways, AllOutcomes, Sides

\* The connection of a router in each of its states
StateFlags(l) ==
  /\ l.state \in {"Init", "Suspended", "Waiting"} => l.flags = {}
  /\ l.state \in {"Opening", "OpeningOne"} => l.flags = {"opening"}
  /\ l.state \in {"OpeningClosing", "OpeningSuspending"} => l.flags = {"opening", "closing"}
  /\ l.state \in {"Open", "OpenOne"} => "open" \in l.flags /\ "opening" \notin l.flags
  /\ l.state \in {"Closing", "Suspending"} =>
       {"open", "closing"} \subseteq l.flags /\ "opening" \notin l.flags

LEMMA TunnelFlags ==
  ASSUME NEW l, Good(l), NEW r \in Sides, l.state \in TunnelStates(r)
  PROVE  StateFlags(l) /\ (l.timer <=> l.state = "Waiting")
BY DEF StateFlags, Good, Fits, TunnelStates, Sides, Connections, Flags, OpeningStates, ClosingOpeningStates, OpenStates,
       ClosingStates, WaitStates

\* The layer is down, and its owner will hear of it now.
Quiet(r, l) == IF r = "client" THEN l.state = "Suspended" ELSE l.state \in {"Opening", "Waiting"}

\* AsyncClose from a state that closes
LEMMA AsyncCloseTunnel ==
  ASSUME NEW l, l \in Connections, l.bad = {}, NEW how \in AllOutcomes,
         l.state \in {"OpeningClosing", "OpeningSuspending", "Closing", "Suspending"},
         l.state \in {"OpeningClosing", "OpeningSuspending"} => l.flags = {"opening"},
         l.state \in {"Closing", "Suspending"} => "open" \in l.flags /\ "opening" \notin l.flags,
         l.state = "Closing" => how \in {"pending", "refused"}
  PROVE  LET k == AsyncClose(l, how) IN
         \/ k.bad = {"close"} /\ k.state = l.state /\ k.flags = l.flags /\ "closing" \in l.flags
         \/ k.bad = {} /\ k.state = l.state /\ k.flags = l.flags \cup {"closing"}
         \/ /\ k.bad = {} /\ "open" \in l.flags
            /\ \/ l.state = "Closing" /\ k.state = "Opening" /\ k.flags = {"opening"}
               \/ l.state = "Suspending" /\ k.state = "Suspended" /\ k.flags = {}
         \/ /\ k.bad = {"open"} /\ "open" \in l.flags
            /\ l.state = "Closing" /\ k.state = "Opening" /\ k.flags = {"opening"}
<1> DEFINE m == Raise(l, "closing")
<1>1. /\ m \in Connections /\ m.state = l.state /\ m.bad = {} /\ m.flags = l.flags \cup {"closing"}
  BY FlagFields DEF Flags
<1> HIDE DEF m
<1>2. CASE ~CanClose(l)
  <2>1. "closing" \in l.flags
    BY <1>2 DEF CanClose
  <2>2. Error(l, "close").bad = {"close"} /\ Error(l, "close").state = l.state /\ Error(l, "close").flags = l.flags
    BY ErrorFields DEF Error, Connections
  <2>3. QED
    BY <1>2, <2>1, <2>2 DEF AsyncClose
<1>3. CASE CanClose(l) /\ ~Closed(m)
  BY <1>1, <1>3 DEF AsyncClose, CheckForClose, m
<1>4. CASE CanClose(l) /\ Closed(m)
  <2> DEFINE n == Settle(m)
  <2>1. /\ n \in Connections /\ n.state = l.state /\ n.bad = {} /\ n.flags = m.flags \ {"closing", "open"}
    BY <1>1, <1>4, SettleFields
  <2>2. l.state \in {"Closing", "Suspending"} /\ "open" \in l.flags /\ n.flags = {}
    BY <1>1, <1>4, <2>1 DEF Closed, Connections, Flags
  <2> HIDE DEF n
  <2>3. AsyncClose(l, how) = OnLayerClose(n, how)
    BY <1>4 DEF AsyncClose, CheckForClose, m, n
  <2>4. CASE l.state = "Closing"
    <3> DEFINE g == Goto(n, "Opening")
    <3>1. g \in Connections /\ g.state = "Opening" /\ g.flags = {} /\ g.bad = {}
      BY <2>1, <2>2, GotoFields DEF States
    <3> HIDE DEF g
    <3>2. /\ Raise(g, "opening").state = "Opening" /\ Raise(g, "opening").flags = {"opening"}
          /\ Raise(g, "opening").bad = {}
      BY <3>1, FlagFields DEF Flags
    <3>3. /\ how = "pending" => OnLayerClose(n, how) = Raise(g, "opening")
          /\ how = "refused" => OnLayerClose(n, how) = Error(Raise(g, "opening"), "open")
      BY <2>1, <2>4, <3>1 DEF OnLayerClose, AsyncOpen, g
    <3>4. /\ Error(Raise(g, "opening"), "open").state = "Opening"
          /\ Error(Raise(g, "opening"), "open").flags = {"opening"}
          /\ Error(Raise(g, "opening"), "open").bad = {"open"}
      BY <3>1, <3>2, FlagFields DEF Flags, Error, Connections
    <3>5. QED
      BY <2>2, <2>3, <2>4, <3>2, <3>3, <3>4
  <2>5. CASE l.state = "Suspending"
    <3>1. OnLayerClose(n, how) = Goto(n, "Suspended")
      BY <2>1, <2>5 DEF OnLayerClose
    <3>2. QED
      BY <2>1, <2>2, <2>3, <2>5, <3>1, GotoFields DEF States
  <2>6. QED
    BY <2>2, <2>4, <2>5
<1> QED
  BY <1>2, <1>3, <1>4

\* The connection after a request to close it, in a router that is not in the middle of a call.
Stops(r, l, k) ==
  /\ Good(k) /\ k.state \in TunnelStates(r) /\ k.bad \subseteq {"close", "open"}
  /\ r = "client" => ~CanClose(k)
  /\ "close" \in k.bad => k.flags = l.flags /\ "open" \notin k.bad
  /\ "open" \in k.bad => r = "server" /\ IsLayerUp(l) /\ k.state = "Opening"
  /\ IsLayerUp(k) => IsLayerUp(l)
  /\ IsLayerUp(l) /\ ~IsLayerUp(k) => "close" \notin k.bad /\ Quiet(r, k)
  /\ l.state \in {"Opening", "OpeningClosing"} => k.state \in {"Opening", "OpeningClosing"}
  /\ IsLayerUp(k) \/ ~IsLayerUp(l) => (k.flags = {} <=> l.flags = {})

LEMMA CloseStops ==
  ASSUME NEW l, Good(l), l.bad = {}, NEW r \in Sides, l.state \in TunnelStates(r), NEW how \in Ways(r)
  PROVE  /\ Stops(r, l, Close(l, how))
         /\ r = "client" => Stops(r, l, Suspend(l, how))
         /\ l.state \in {"Init", "Suspended", "Waiting"} => Close(l, how) = l
<1>0. /\ l \in Connections /\ how \in AllOutcomes
      /\ r = "server" => how \in {"pending", "refused"}
  BY WaysAreOutcomes DEF Good, Ways, Sides
<1>1. StateFlags(l)
  BY TunnelFlags
<1>2. ASSUME NEW next \in {OnCloseRequest, OnSuspendRequest}, next = OnSuspendRequest => r = "client",
             NEW k, k = Stopping(l, next, how), Good(k)
      PROVE  Stops(r, l, k)
  <2>1. CASE l.state \notin DOMAIN next
    <3>1. k = l
      BY <1>2, <2>1 DEF Stopping
    <3>2. r = "client" => ~CanClose(l)
      BY <1>1, <2>1 DEF TunnelStates, OnCloseRequest, OnSuspendRequest, StateFlags, CanClose
    <3>3. QED
      BY <1>2, <3>1, <3>2 DEF Stops
  <2>2. CASE l.state \in DOMAIN next
    <3> DEFINE g == Goto(l, next[l.state])
    <3>1. /\ l.state \in {"OpeningOne", "OpenOne", "Opening", "Open"}
          /\ l.state = "OpeningOne" => r = "client" /\ next[l.state] = "OpeningSuspending"
          /\ l.state = "OpenOne" => r = "client" /\ next[l.state] = "Suspending"
          /\ l.state = "Opening" => r = "server" /\ next[l.state] = "OpeningClosing"
          /\ l.state = "Open" => r = "server" /\ next[l.state] = "Closing"
      BY <1>2, <2>2 DEF TunnelStates, OnCloseRequest, OnSuspendRequest, Sides
    <3>2. /\ g \in Connections /\ g.state = next[l.state] /\ g.flags = l.flags /\ g.bad = {}
      BY <1>0, <3>1, GotoFields DEF States
    <3> HIDE DEF g
    <3>3. k = AsyncClose(g, how)
      BY <1>2, <2>2, <3>1 DEF Stopping, g
    <3>4. \/ k.bad = {"close"} /\ k.state = g.state /\ k.flags = g.flags /\ "closing" \in g.flags
          \/ k.bad = {} /\ k.state = g.state /\ k.flags = g.flags \cup {"closing"}
          \/ /\ k.bad = {} /\ "open" \in g.flags
             /\ \/ g.state = "Closing" /\ k.state = "Opening" /\ k.flags = {"opening"}
                \/ g.state = "Suspending" /\ k.state = "Suspended" /\ k.flags = {}
          \/ /\ k.bad = {"open"} /\ "open" \in g.flags
             /\ g.state = "Closing" /\ k.state = "Opening" /\ k.flags = {"opening"}
      BY <1>0, <1>1, <3>1, <3>2, <3>3, AsyncCloseTunnel DEF StateFlags
    <3>5. l.flags # {}
      BY <1>1, <3>1 DEF StateFlags
    <3>6. QED
      BY <1>1, <1>2, <3>1, <3>2, <3>4, <3>5 DEF Stops, TunnelStates, StateFlags, IsLayerUp, CanClose, Quiet
  <2>3. QED
    BY <2>1, <2>2
<1>3. Good(Close(l, how)) /\ Good(Suspend(l, how))
  BY <1>0, RequestGood
<1>4. l.state \in {"Init", "Suspended", "Waiting"} => Close(l, how) = l
  BY DEF Close, Stopping, OnCloseRequest
<1>5. Stops(r, l, Close(l, how))
  <2>1. Close(l, how) = Stopping(l, OnCloseRequest, how)
    BY DEF Close
  <2>2. OnCloseRequest # OnSuspendRequest
    <3>1. "Closing" \in DOMAIN OnSuspendRequest /\ "Closing" \notin DOMAIN OnCloseRequest
      BY DEF OnCloseRequest, OnSuspendRequest
    <3>2. QED
      BY <3>1
  <2>3. QED
    BY <1>2, <1>3, <2>1, <2>2
<1>6. r = "client" => Stops(r, l, Suspend(l, how))
  <2>1. Suspend(l, how) = Stopping(l, OnSuspendRequest, how)
    BY DEF Suspend
  <2>2. QED
    BY <1>2, <1>3, <2>1
<1> QED
  BY <1>4, <1>5, <1>6

\* The request to open, which only a client makes
LEMMA StartOneOpens ==
  ASSUME NEW l, Good(l), l.bad = {}, l.state \in TunnelStates("client"), NEW how \in Ways("client")
  PROVE  LET k == StartOne(l, how) IN
         /\ Good(k) /\ k.state \in TunnelStates("client") /\ k.bad = {}
         /\ l.state \notin {"Init", "Suspended"} => k = l /\ l.flags # {}
         /\ l.state \in {"Init", "Suspended"} =>
              /\ ~IsLayerUp(l) /\ ~IsLayerUp(k)
              /\ how = "pending" => k.flags = {"opening"}
              /\ how = "unresolved" => k.state = "Suspended"
<1> DEFINE k == StartOne(l, how)
<1>0. l \in Connections /\ how \in AllOutcomes /\ how \in {"pending", "unresolved"} /\ "client" \in Sides
  BY WaysAreOutcomes DEF Good, Ways, Sides, AllOutcomes
<1>1. StateFlags(l) /\ Good(k)
  BY <1>0, TunnelFlags, RequestGood
<1>2. CASE l.state \notin {"Init", "Suspended"}
  <2>1. l.state \notin DOMAIN OnStartOneRequest
    BY <1>2 DEF TunnelStates, OnStartOneRequest
  <2>2. k = l
    BY <2>1 DEF StartOne, Starting
  <2>3. l.flags # {}
    BY <1>1, <1>2 DEF TunnelStates, StateFlags
  <2>4. QED
    BY <1>1, <1>2, <2>2, <2>3
<1>3. CASE l.state \in {"Init", "Suspended"}
  <2> DEFINE g == Goto(l, "OpeningOne")
  <2>1. g \in Connections /\ g.state = "OpeningOne" /\ g.flags = {} /\ g.bad = {}
    BY <1>0, <1>1, <1>3, GotoFields DEF States, StateFlags
  <2>2. k = AsyncOpen(g, how)
    BY <1>3 DEF StartOne, Starting, OnStartOneRequest
  <2> HIDE DEF g, k
  <2>3. CASE how = "pending"
    <3>1. k = Raise(g, "opening")
      BY <2>1, <2>2, <2>3 DEF AsyncOpen
    <3>2. k.flags = {"opening"} /\ k.state = "OpeningOne" /\ k.bad = {}
      BY <2>1, <3>1, FlagFields DEF Flags
    <3>3. QED
      BY <1>1, <1>3, <2>3, <3>2 DEF k, TunnelStates, StateFlags, IsLayerUp
  <2>4. CASE how = "unresolved"
    <3>1. k = Goto(g, "Suspended")
      BY <2>1, <2>2, <2>4 DEF AsyncOpen, OnOpenFailure
    <3>2. k.flags = {} /\ k.state = "Suspended" /\ k.bad = {}
      BY <2>1, <3>1, GotoFields DEF States
    <3>3. QED
      BY <1>1, <1>3, <2>4, <3>2 DEF k, TunnelStates, StateFlags, IsLayerUp
  <2>5. QED
    BY <1>0, <2>3, <2>4
<1> QED
  BY <1>2, <1>3
-----------------------------------------------------------------------------
(* What the operations of a router keep *)

\* The context of a router: what is before its objects and behind those it has received.
Context(pre, rest, ses, m) == pre \in Seq(Items) /\ rest \in Seq(Items) /\ ses \in Nat /\ m \in Nat

\* The order is kept as long as no fragment is repeated, the stream as long as, besides, none
\* is dropped.
Covers(view) == repeats = 0 /\ (view = "stream" => drops = 0)

Flows(view, s, pre, rest, ses, m) == Covers(view) => Flow(view, s, pre, rest, ses, m)

\* A connection is counted when it is there.
Counted(s, ses) == IsLayerUp(s.conn) => ses # 0

Fine(view, s, pre, rest, ses, m) == Sound(s) /\ Knows(s) /\ Counted(s, ses) /\ Flows(view, s, pre, rest, ses, m)

LEMMA RouterTypes ==
  ASSUME NEW s \in Routers
  PROVE  /\ s.role \in Sides /\ s.conn \in Connections
         /\ s.local \in BOOLEAN /\ s.remote \in BOOLEAN /\ s.inst \in BOOLEAN /\ s.thrown \in BOOLEAN
         /\ s.toPhys \in Seq(Objects) /\ s.toVto \in Seq(Objects) /\ s.queue \in Seq(Objects)
         /\ s.wrote \in Seq(Objects) /\ s.wrote \in Seq(Chunks)
         /\ s.toPhys \in Seq(Items) /\ s.toVto \in Seq(Items) /\ s.queue \in Seq(Items)
         /\ s.wrote \in Seq(Items)
BY ObjectSeqs, ChunkSeqs DEF Routers

LEMMA LeadTypes ==
  ASSUME NEW s \in Routers
  PROVE  /\ Latest(s) \in Items /\ Lead(s) \in Seq(Items) /\ Lead(s) \o s.toPhys \in Seq(Items)
         /\ Out(s) \in Seq(Items)
<1>1. Latest(s) \in Items
  <2>1. s.wrote # <<>> => s.wrote[Len(s.wrote)] \in Items
    BY RouterTypes
  <2>2. QED
    BY <2>1, ObjectsAreItems DEF Latest
<1>2. Lead(s) \in Seq(Items)
  BY <1>1, OneItem DEF Lead
<1> QED
  BY <1>1, <1>2, RouterTypes, Joined DEF Out

LEMMA SendsTypes ==
  ASSUME NEW s, NEW ses \in Nat, NEW m \in Nat
  PROVE  Coming(ses, m) \in Items /\ Coming(ses, m).type = "data" /\ Sends(s, ses, m) \in Items
BY ObjectsAreItems DEF Coming, Sends, Data

\* The router t has an object x more for its peer than s has.
Grows(s, t, x) == t.queue = s.queue /\ t.toVto = Append(s.toVto, x)

\* What t has for its peer, after pre, is what s has with x behind it, whatever follows.
Extended(s, t, x, pre) ==
  /\ pre \o Out(s) \in Seq(Items)
  /\ \A y \in Items : /\ pre \o (Out(s) \o <<y>>) = (pre \o Out(s)) \o <<y>>
                      /\ pre \o (Out(t) \o <<y>>) = (pre \o Out(s)) \o (<<x>> \o <<y>>)

\* An object more for the peer.
LEMMA OutGrows ==
  ASSUME NEW s \in Routers, NEW t \in Routers, NEW x \in Items, NEW pre \in Seq(Items), Grows(s, t, x)
  PROVE  Extended(s, t, x, pre)
<1> DEFINE u == <<x>>
           a == pre \o Out(s)
<1>1. Out(t) = Out(s) \o u
  <2>1. t.toVto = s.toVto \o <<x>>
    BY RouterTypes, AppendIsConcat DEF Grows
  <2>2. u \in Seq(Items) /\ s.queue \in Seq(Items) /\ s.toVto \in Seq(Items)
    BY RouterTypes, OneItem
  <2> HIDE DEF u
  <2>3. (s.queue \o s.toVto) \o u = s.queue \o (s.toVto \o u)
    BY <2>2, Associative
  <2>4. QED
    BY <2>1, <2>3 DEF Out, u, Grows
<1>2. u \in Seq(Items) /\ Out(s) \in Seq(Items) /\ a \in Seq(Items)
  BY OneItem, LeadTypes, Joined
<1>3. ASSUME NEW y \in Items
      PROVE  /\ pre \o (Out(s) \o <<y>>) = a \o <<y>>
             /\ pre \o (Out(t) \o <<y>>) = a \o (u \o <<y>>)
  <2> DEFINE v == <<y>>
             o == Out(s)
  <2>1. v \in Seq(Items) /\ u \o v \in Seq(Items)
    BY <1>2, OneItem, Joined
  <2> HIDE DEF v, u, o
  <2>2. pre \o (o \o v) = (pre \o o) \o v
    BY <1>2, <2>1, Associative DEF o
  <2>3. (o \o u) \o v = o \o (u \o v)
    BY <1>2, <2>1, Associative DEF o
  <2>4. pre \o (o \o (u \o v)) = (pre \o o) \o (u \o v)
    BY <1>2, <2>1, Associative DEF o
  <2>5. QED
    BY <1>1, <2>2, <2>3, <2>4 DEF v, o
<1> QED
  BY <1>2, <1>3 DEF Extended

\* The flows of a router that changed only where they do not look, or that dropped what it
\* had received when its connection was closed.
LEMMA FlowKept ==
  ASSUME NEW s \in Routers, NEW t \in Routers, NEW view \in Views, NEW pre, NEW rest, NEW ses, NEW m,
         Context(pre, rest, ses, m), NEW more \in Seq(Items), Flow(view, s, pre, more \o rest, ses, m),
         t.role = s.role, t.wrote = s.wrote, Out(t) = Out(s), t.local = s.local,
         t.inst = s.inst,
         \/ t.toPhys = s.toPhys /\ t.remote = s.remote /\ more = <<>>
         \/ t.toPhys = <<>> /\ (t.role = "client" => ~Live(t)),
         t.role = "client" /\ t.thrown => t.toPhys = <<>> /\ ~Live(t),
         t.role = "client" /\ Live(t) => Live(s) /\ Latest(t) = Latest(s)
  PROVE  Flow(view, t, pre, rest, ses, m)
<1>0. /\ pre \in Seq(Items) /\ rest \in Seq(Items) /\ more \o rest \in Seq(Items)
      /\ more = <<>> => more \o rest = rest
  BY Joined, Empty DEF Context
<1>1. /\ s.wrote \in Seq(Items) /\ s.toPhys \in Seq(Items) /\ t.toPhys \in Seq(Items)
      /\ Lead(s) \in Seq(Items) /\ Lead(t) \in Seq(Items)
      /\ s.wrote \o s.toPhys \in Seq(Items) /\ Lead(s) \o s.toPhys \in Seq(Items)
  BY RouterTypes, LeadTypes, Joined
<1>2. CASE view = "order"
  <2>1. /\ Ascending((s.wrote \o s.toPhys) \o (more \o rest))
        /\ Ascending(pre \o (Out(s) \o <<Coming(ses, m)>>))
    BY <1>2 DEF Flow
  <2>3. Ascending((t.wrote \o t.toPhys) \o rest)
    <3>1. CASE t.toPhys = s.toPhys /\ more = <<>>
      BY <1>0, <2>1, <3>1
    <3>2. CASE t.toPhys = <<>>
      <4>1. t.wrote \o t.toPhys = s.wrote
        BY <1>1, <3>2, Empty
      <4>2. Ascending(s.wrote \o (more \o rest))
        BY <1>0, <1>1, <2>1, AscendingWithout
      <4>3. s.wrote \o (more \o rest) = (s.wrote \o more) \o rest
        <5>1. /\ s.wrote \in Seq(Items) /\ more \in Seq(Items) /\ rest \in Seq(Items)
          BY <1>0, <1>1
        <5>2. QED
          BY <5>1, Associative
      <4>4. Ascending(s.wrote \o rest)
        BY <1>0, <1>1, <4>2, <4>3, AscendingWithout
      <4>5. QED
        BY <4>1, <4>4
    <3>3. QED
      BY <3>1, <3>2
  <2>4. QED
    BY <1>2, <2>1, <2>3 DEF Flow
<1>4. CASE view = "stream" /\ s.role = "server"
  <2>1. Sends(t, ses, m) = Sends(s, ses, m)
    BY DEF Sends
  <2>2. QED
    BY <1>4, <2>1 DEF Flow
<1>3. CASE view = "stream" /\ s.role # "server"
  <2>0. s.role = "client" /\ t.role = "client"
    BY <1>3, RouterTypes DEF Sides
  <2>1. Chain((Lead(s) \o s.toPhys) \o (more \o rest)) /\ Tuned(s)
    BY <1>3 DEF Flow
  <2>2. Tuned(t)
    <3>1. t.thrown => t.toPhys = <<>> /\ ~Live(t)
      BY <2>0
    <3>2. Live(t) => Live(s) /\ t.toPhys = s.toPhys /\ t.remote = s.remote
      BY <2>0
    <3>3. t.toPhys # <<>> => t.toPhys = s.toPhys
      OBVIOUS
    <3>4. QED
      BY <2>1, <3>1, <3>2, <3>3 DEF Tuned
  <2>3. Chain((Lead(t) \o t.toPhys) \o rest)
    <3>1. CASE Live(t)
      <4>1. Lead(t) = Lead(s) /\ t.toPhys = s.toPhys /\ more = <<>>
        BY <2>0, <3>1 DEF Lead
      <4>2. QED
        BY <1>0, <2>1, <4>1
    <3>2. CASE ~Live(t) /\ t.toPhys = s.toPhys /\ more = <<>>
      <4>1. Lead(t) \o t.toPhys = s.toPhys
        BY <1>1, <3>2, Empty DEF Lead
      <4>2. Chain(s.toPhys \o (more \o rest))
        BY <1>0, <1>1, <2>1, ChainBehind
      <4>3. QED
        BY <1>0, <3>2, <4>1, <4>2
    <3>3. CASE ~Live(t) /\ t.toPhys = <<>>
      <4>1. Lead(t) \o t.toPhys = <<>> /\ (Lead(t) \o t.toPhys) \o rest = rest
        BY <1>0, <1>1, <3>3, Empty DEF Lead
      <4> DEFINE after == more \o rest
      <4>5. after \in Seq(Items) /\ Chain((Lead(s) \o s.toPhys) \o after)
        BY <1>0, <2>1
      <4> HIDE DEF after
      <4>6. Chain(after)
        BY <1>1, <4>5, ChainBehind
      <4>2. Chain(more \o rest)
        BY <4>6 DEF after
      <4>3. Chain(rest)
        BY <1>0, <4>2, ChainParts
      <4>4. QED
        BY <4>1, <4>3
    <3>4. QED
      BY <2>0, <3>1, <3>2, <3>3
  <2>4. QED
    BY <1>3, <2>0, <2>2, <2>3 DEF Flow
<1> QED
  BY <1>2, <1>3, <1>4 DEF Views

\* News for the peer.
LEMMA FlowNews ==
  ASSUME NEW s \in Routers, NEW t, NEW view \in Views, NEW pre, NEW rest, NEW ses, NEW m,
         Context(pre, rest, ses, m), Flow(view, s, pre, rest, ses, m), NEW b \in BOOLEAN, NEW x \in {Opened, Closing},
         t = [s EXCEPT !.local = b, !.toVto = Append(@, x)],
         view = "stream" /\ s.role = "server" => \/ x = Closing /\ ~b
                                                 \/ x = Opened /\ b /\ ~s.local /\ m = 0
  PROVE  Flow(view, t, pre, rest, ses, m)
<1>0. /\ x \in Objects /\ x \in Items /\ x.type # "data"
      /\ pre \in Seq(Items) /\ rest \in Seq(Items) /\ ses \in Nat /\ m \in Nat
  BY ObjectsAreItems DEF Context, Opened, Closing
<1>1. /\ t \in Routers /\ t.role = s.role /\ t.wrote = s.wrote /\ t.toPhys = s.toPhys /\ t.conn = s.conn
      /\ t.queue = s.queue /\ t.toVto = Append(s.toVto, x) /\ t.local = b
      /\ t.inst = s.inst /\ t.remote = s.remote /\ t.thrown = s.thrown
  <2>1. Append(s.toVto, x) \in Seq(Objects)
    BY <1>0, RouterTypes, AppendProperties
  <2>2. QED
    BY <2>1 DEF Routers
<1> DEFINE u == <<x>>
           a == pre \o Out(s)
<1>3. /\ u \in Seq(Items) /\ a \in Seq(Items)
      /\ \A y \in Items : /\ pre \o (Out(s) \o <<y>>) = a \o <<y>>
                          /\ pre \o (Out(t) \o <<y>>) = a \o (u \o <<y>>)
  <2>1. /\ pre \o Out(s) \in Seq(Items)
        /\ \A z \in Items : /\ pre \o (Out(s) \o <<z>>) = (pre \o Out(s)) \o <<z>>
                            /\ pre \o (Out(t) \o <<z>>) = (pre \o Out(s)) \o (<<x>> \o <<z>>)
    <3>1. Grows(s, t, x)
      BY <1>1 DEF Grows
    <3>2. Extended(s, t, x, pre)
      BY <1>0, <1>1, <3>1, OutGrows
    <3>3. QED
      BY <3>2 DEF Extended
  <2>2. QED
    BY <1>0, <2>1, OneItem
<1> HIDE DEF a
<1>5. CASE view = "order"
  <2>1. Ascending(pre \o (Out(s) \o <<Coming(ses, m)>>)) /\ Ascending((s.wrote \o s.toPhys) \o rest)
    BY <1>5 DEF Flow
  <2>2. Coming(ses, m) \in Items
    BY <1>0, SendsTypes
  <2>3. Ascending(a \o (<<x>> \o <<Coming(ses, m)>>))
    BY <1>0, <1>3, <2>1, <2>2, OneItem, AscendingNews
  <2>4. QED
    BY <1>1, <1>3, <1>5, <2>1, <2>2, <2>3 DEF Flow
<1>4. CASE view = "stream" /\ s.role = "server"
  <2>1. Chain(pre \o (Out(s) \o <<Sends(s, ses, m)>>))
    BY <1>4 DEF Flow
  <2>2. Sends(s, ses, m) \in Items /\ Sends(t, ses, m) \in Items
    BY <1>0, SendsTypes
  <2>3. Chain(a \o <<Sends(s, ses, m)>>)
    BY <1>3, <2>1, <2>2
  <2>4. \A z \in Items : Follows(z, Sends(s, ses, m)) => Follows(z, x)
    <3>1. Sends(s, ses, m).type \in {"data", "opened"} /\ (x # Closing => Sends(s, ses, m) = x)
      BY <1>4 DEF Sends, Coming, Data, Opened
    <3>2. x = Closing => x.type = "closed"
      BY DEF Closing
    <3>3. QED
      BY <3>1, <3>2 DEF Follows, Items
  <2>5. Chain(a \o <<x>>)
    BY <1>0, <1>3, <2>2, <2>3, <2>4, ChainEnd
  <2>6. Follows(x, Sends(t, ses, m))
    <3>1. CASE x = Closing /\ ~b
      <4>1. x.type = "closed" /\ Sends(t, ses, m) = Opened /\ Opened.type = "opened"
        BY <1>1, <3>1 DEF Sends, Opened, Closing
      <4>2. QED
        BY <4>1 DEF Follows
    <3>2. CASE x = Opened /\ b /\ m = 0
      <4>1. /\ x.type = "opened" /\ Sends(t, ses, m) = Data(ses, 1)
            /\ Data(ses, 1).type = "data" /\ Data(ses, 1).n = 1
        BY <1>1, <3>2 DEF Sends, Opened, Coming, Data
      <4>2. QED
        BY <4>1 DEF Follows
    <3>3. QED
      BY <1>4, <3>1, <3>2
  <2>7. Chain(a \o (<<x>> \o <<Sends(t, ses, m)>>))
    BY <1>0, <1>3, <2>2, <2>5, <2>6, ChainGrows
  <2>8. QED
    BY <1>1, <1>3, <1>4, <2>2, <2>7 DEF Flow
<1>6. CASE view = "stream" /\ s.role # "server"
  <2>1. Chain((Lead(s) \o s.toPhys) \o rest) /\ Tuned(s)
    BY <1>6 DEF Flow
  <2>2. Lead(t) = Lead(s) /\ Tuned(t)
    BY <1>1, <2>1 DEF Lead, Live, Latest, Tuned
  <2>3. QED
    BY <1>1, <1>6, <2>1, <2>2 DEF Flow
<1> QED
  BY <1>4, <1>5, <1>6 DEF Views

\* Routers that differ in their transfers and in the queues to the peer at most.
Alike(s, t) ==
  /\ t.role = s.role /\ t.local = s.local /\ t.remote = s.remote /\ t.inst = s.inst
  /\ t.toPhys = s.toPhys /\ t.wrote = s.wrote /\ t.thrown = s.thrown
  /\ t.conn.state = s.conn.state /\ t.conn.bad = s.conn.bad
  /\ t.conn.flags = {} <=> s.conn.flags = {}
  /\ (Live(t) <=> Live(s)) /\ (IsLayerUp(t.conn) <=> IsLayerUp(s.conn))

LEMMA AlikeKeeps ==
  ASSUME NEW s, NEW t, NEW view \in Views, NEW pre, NEW rest, NEW ses, NEW m, Context(pre, rest, ses, m),
         Sound(s), Sound(t), Flows(view, s, pre, rest, ses, m), Alike(s, t), Out(t) = Out(s)
  PROVE  Flows(view, t, pre, rest, ses, m) /\ (Knows(s) => Knows(t))
<1>1. s \in Routers /\ t \in Routers
  BY DEF Sound
<1>2. Latest(t) = Latest(s)
  BY DEF Alike, Latest
<1>3. ASSUME Flow(view, s, pre, rest, ses, m)
      PROVE  Flow(view, t, pre, rest, ses, m)
  <2>4. CASE view = "order"
    <3>1. t.wrote = s.wrote /\ t.toPhys = s.toPhys
      BY DEF Alike
    <3>2. QED
      BY <1>3, <2>4, <3>1 DEF Flow
  <2>1. CASE view = "stream" /\ t.role = "server"
    <3>1. Sends(t, ses, m) = Sends(s, ses, m) /\ s.role = "server"
      BY <2>1 DEF Alike, Sends
    <3>2. QED
      BY <1>3, <2>1, <3>1 DEF Flow
  <2>2. CASE view = "stream" /\ t.role # "server"
    <3>1. Lead(t) = Lead(s) /\ s.role # "server" /\ t.toPhys = s.toPhys
      BY <1>2, <2>2 DEF Alike, Lead
    <3>2. Tuned(s)
      BY <1>3, <2>2, <3>1 DEF Flow
    <3>3. Tuned(t)
      BY <3>2 DEF Tuned, Alike
    <3>4. QED
      BY <1>3, <2>2, <3>1, <3>3 DEF Flow
  <2>3. QED
    BY <2>1, <2>2, <2>4 DEF Views
<1>4. Knows(s) => Knows(t)
  BY DEF Knows, Alike
<1> QED
  BY <1>3, <1>4 DEF Flows

LEMMA TransferStarts ==
  ASSUME NEW l, Good(l), NEW f \in {"reading", "writing"}, "open" \in l.flags, "closing" \notin l.flags
  PROVE  /\ Good(Raise(l, f)) /\ Raise(l, f).state = l.state /\ Raise(l, f).bad = l.bad
         /\ Raise(l, f).flags # {} /\ l.flags # {}
         /\ CanClose(l) /\ CanClose(Raise(l, f)) /\ IsLayerUp(l) /\ IsLayerUp(Raise(l, f))
<1>1. l \in Connections
  BY DEF Good
<1>2. /\ Raise(l, f) \in Connections /\ Raise(l, f).state = l.state /\ Raise(l, f).bad = l.bad
      /\ Raise(l, f).timer = l.timer /\ Raise(l, f).flags = l.flags \cup {f}
  BY <1>1, FlagFields DEF Flags
<1>3. Good(Raise(l, f))
  BY <1>2 DEF Good, Fits, Clean, OpeningStates, ClosingOpeningStates, OpenStates, ClosingStates, WaitStates
<1> QED
  BY <1>2, <1>3 DEF CanClose, IsLayerUp

\* VtoRouter::CheckForPhysRead
LEMMA PhysReadKeeps ==
  ASSUME NEW s, Sound(s)
  PROVE  LET t == CheckForPhysRead(s) IN Sound(t) /\ Alike(s, t) /\ Out(t) = Out(s)
<1> DEFINE t == CheckForPhysRead(s)
<1>1. s \in Routers /\ Good(s.conn)
  BY DEF Sound
<1>2. CASE CanRead(s.conn) /\ Len(s.toVto) < ReadLimit /\ ~s.thrown
  <2> DEFINE k == Raise(s.conn, "reading")
  <2>1. t = [s EXCEPT !.conn = k]
    BY <1>2 DEF CheckForPhysRead
  <2>2. /\ Good(k) /\ k.state = s.conn.state /\ k.bad = s.conn.bad /\ k.flags # {} /\ s.conn.flags # {}
        /\ CanClose(k) /\ CanClose(s.conn) /\ IsLayerUp(k) /\ IsLayerUp(s.conn)
    BY <1>1, <1>2, TransferStarts DEF CanRead
  <2> HIDE DEF k, t
  <2>3. /\ t \in Routers /\ t.conn = k
        /\ t.role = s.role /\ t.local = s.local /\ t.remote = s.remote /\ t.inst = s.inst
        /\ t.toPhys = s.toPhys /\ t.wrote = s.wrote /\ t.thrown = s.thrown
        /\ t.queue = s.queue /\ t.toVto = s.toVto
    BY <1>1, <2>1, <2>2 DEF Routers, Good
  <2>4. QED
    BY <2>2, <2>3 DEF t, Sound, Alike, Live, Out
<1>3. CASE ~(CanRead(s.conn) /\ Len(s.toVto) < ReadLimit /\ ~s.thrown)
  BY <1>3 DEF CheckForPhysRead, Alike
<1> QED
  BY <1>2, <1>3

\* The loop of CheckForVtoWrite ends before the one chunk that finds the queue full, if any.
LEMMA MovedFits ==
  ASSUME NEW s \in Routers
  PROVE  Moved(s) \in 0 .. Len(s.toVto)
<1> DEFINE L == Len(s.toVto)
           q == Len(s.queue)
           w == (WriterSize - q) + 1
           Fits2(k) == (\A i \in 1 .. k : ~Stays(s, i)) /\ (k < L => Stays(s, k + 1))
<1>1. L \in Nat /\ q \in Nat /\ WriterSize \in Nat
  BY RouterTypes, TunnelAssumption
<1>2. \A i \in 1 .. L : Stays(s, i) => i = w
  BY <1>1 DEF Stays, NumChunksAvailable
<1> HIDE DEF L, w
<1>3. CASE w \in 1 .. L /\ Stays(s, w)
  <2>1. w - 1 \in 0 .. L /\ (w - 1) + 1 = w /\ \A i \in 1 .. (w - 1) : i \in 1 .. L /\ i # w
    BY <1>1, <1>3
  <2>2. Fits2(w - 1)
    BY <1>2, <1>3, <2>1
  <2>3. QED
    BY <2>1, <2>2 DEF Moved, L
<1>4. CASE ~(w \in 1 .. L /\ Stays(s, w))
  <2>1. Fits2(L) /\ L \in 0 .. L
    BY <1>1, <1>2, <1>4
  <2>2. QED
    BY <2>1 DEF Moved, L
<1> QED
  BY <1>3, <1>4

\* VtoRouter::CheckForVtoWrite
LEMMA VtoWriteKeeps ==
  ASSUME NEW s, Sound(s)
  PROVE  LET t == CheckForVtoWrite(s) IN Sound(t) /\ Alike(s, t) /\ Out(t) = Out(s)
<1>1. s \in Routers
  BY DEF Sound
<1>2. CASE ~s.thrown
  <2> DEFINE k == Moved(s)
             a == SubSeq(s.toVto, 1, k)
             b == SubSeq(s.toVto, k + 1, Len(s.toVto))
             u == [s EXCEPT !.queue = @ \o a, !.toVto = b]
  <2>1. k \in 0 .. Len(s.toVto)
    BY <1>1, MovedFits
  <2>2. /\ s.queue \in Seq(Objects) /\ s.toVto \in Seq(Objects)
    BY <1>1, RouterTypes
  <2> HIDE DEF k
  <2>3. a \in Seq(Objects) /\ b \in Seq(Objects) /\ a \o b = s.toVto
    BY <2>1, <2>2, Split
  <2> HIDE DEF a, b
  <2>4. s.queue \o a \in Seq(Objects)
    BY <2>2, <2>3, ConcatProperties
  <2>5. /\ u \in Routers /\ u.conn = s.conn
        /\ u.role = s.role /\ u.local = s.local /\ u.remote = s.remote /\ u.inst = s.inst
        /\ u.toPhys = s.toPhys /\ u.wrote = s.wrote /\ u.thrown = s.thrown
        /\ u.queue = s.queue \o a /\ u.toVto = b
    BY <1>1, <2>3, <2>4 DEF Routers
  <2>6. CheckForVtoWrite(s) = CheckForPhysRead(u)
    BY <1>2 DEF CheckForVtoWrite, u, a, b, k
  <2> HIDE DEF u
  <2>7. Out(u) = Out(s)
    <3>1. (s.queue \o a) \o b = s.queue \o (a \o b)
      <4>1. s.queue \in Seq(Items) /\ a \in Seq(Items) /\ b \in Seq(Items)
        BY <2>2, <2>3, ObjectSeqs
      <4>2. QED
        BY <4>1, Associative
    <3>2. QED
      BY <2>3, <2>5, <3>1 DEF Out
  <2>8. Sound(u) /\ Alike(s, u)
    BY <2>5 DEF Sound, Alike, Live
  <2>9. QED
    BY <2>6, <2>7, <2>8, PhysReadKeeps DEF Alike
<1>3. CASE s.thrown
  BY <1>3 DEF CheckForVtoWrite, Alike
<1> QED
  BY <1>1, <1>2, <1>3, RouterTypes

LEMMA Nothing == <<>> \in Seq(Objects) /\ <<>> \in Seq(Items) /\ <<>> \in Seq(Chunks)
OBVIOUS

LEMMA DownIs == \A s \in Routers : \A how : Down(how)[s] = NotConnected(s, how, TooDeep)
BY DEF Down

\* A router tells its peer.
LEMMA Tells ==
  ASSUME NEW s, NEW t, NEW view \in Views, NEW pre, NEW rest, NEW ses, NEW m, Context(pre, rest, ses, m),
         Sound(s), Flows(view, s, pre, rest, ses, m), NEW b \in BOOLEAN, NEW x \in {Opened, Closing},
         t = [s EXCEPT !.local = b, !.toVto = Append(@, x)],
         view = "stream" /\ s.role = "server" => \/ x = Closing /\ ~b
                                                 \/ x = Opened /\ b /\ ~s.local /\ m = 0
  PROVE  LET v == CheckForVtoWrite(t) IN
         Sound(v) /\ Flows(view, v, pre, rest, ses, m) /\ Alike(t, v) /\ t.conn = s.conn
<1> DEFINE v == CheckForVtoWrite(t)
<1>1. s \in Routers
  BY DEF Sound
<1>2. Flows(view, t, pre, rest, ses, m)
  BY <1>1, FlowNews DEF Flows
<1>3. t \in Routers /\ t.conn = s.conn /\ t.role = s.role
  <2>1. x \in Objects
    BY ObjectsAreItems
  <2>2. Append(s.toVto, x) \in Seq(Objects)
    BY <1>1, <2>1, RouterTypes, AppendProperties
  <2>3. QED
    BY <1>1, <2>2 DEF Routers
<1>4. Sound(t)
  BY <1>3 DEF Sound
<1>5. Sound(v) /\ Alike(t, v) /\ Out(v) = Out(t)
  BY <1>4, VtoWriteKeeps
<1>6. Flows(view, v, pre, rest, ses, m)
  BY <1>2, <1>4, <1>5, AlikeKeeps
<1> QED
  BY <1>3, <1>5, <1>6

LEMMA CalmFacts ==
  ASSUME NEW s, Sound(s)
  PROVE  /\ Good(Calm(s)) /\ Calm(s).bad = {} /\ Calm(s).state = s.conn.state
         /\ Calm(s).flags = s.conn.flags /\ Calm(s).state \in TunnelStates(s.role)
         /\ [Calm(s) EXCEPT !.bad = @ \cup s.conn.bad] = s.conn
BY DEF Sound, Calm, Good, Fits, Clean, Connections

\* The record after a request
LEMMA AfterRequest ==
  ASSUME NEW s, Sound(s), NEW k, Good(k), k.bad \subseteq {"close", "open"}, k.state \in TunnelStates(s.role)
  PROVE  LET c == [k EXCEPT !.bad = @ \cup s.conn.bad] IN
         /\ Good(c) /\ c.bad \subseteq {"close", "open"} /\ c.bad = k.bad \cup s.conn.bad /\ c.state = k.state /\ c.flags = k.flags
         /\ c \in Connections
BY DEF Sound, Good, Fits, Clean, Connections

\* OnPhysicalLayerCloseCallback and OnPhysicalLayerOpenFailureCallback of a router that was
\* connected: it drops what it has received and tells its peer, and asks for nothing.
LEMMA NotConnectedFine ==
  ASSUME NEW s, NEW view \in Views, NEW pre, NEW rest, NEW ses, NEW m, Context(pre, rest, ses, m),
         Sound(s), Flows(view, s, pre, rest, ses, m), ~s.thrown, s.local, Quiet(s.role, s.conn),
         NEW how \in Ways(s.role), NEW down
  PROVE  Fine(view, NotConnected(s, how, down), pre, rest, ses, m) /\ ~NotConnected(s, how, down).thrown
         /\ NotConnected(s, how, down).role = s.role
<1>1. s \in Routers /\ s.role \in Sides /\ StateFlags(s.conn)
  BY RouterTypes, TunnelFlags DEF Sound
<1>2. /\ ~IsLayerUp(s.conn)
      /\ s.role = "client" => s.conn.flags = {} /\ s.conn.state = "Suspended" /\ ~CanClose(s.conn)
  BY <1>1 DEF Quiet, StateFlags, IsLayerUp, CanClose
<1> DEFINE f == [s EXCEPT !.toPhys = <<>>]
           g == [f EXCEPT !.local = FALSE]
           t == [f EXCEPT !.local = FALSE, !.toVto = Append(@, Closing)]
           v == CheckForVtoWrite(t)
           w == CheckForVtoWrite(v)
<1>3. /\ f \in Routers /\ f.role = s.role /\ f.conn = s.conn /\ f.toPhys = <<>> /\ f.wrote = s.wrote
      /\ f.local = s.local /\ f.inst = s.inst /\ f.thrown = s.thrown
      /\ f.queue = s.queue /\ f.toVto = s.toVto
  BY <1>1, Nothing DEF Routers
<1>4. /\ g = [[s EXCEPT !.local = FALSE] EXCEPT !.toPhys = <<>>]
      /\ g \in Routers /\ g.role = s.role /\ g.conn = s.conn /\ g.local = FALSE /\ g.thrown = s.thrown
      /\ t = [g EXCEPT !.toVto = Append(@, Closing)]
  BY <1>1, Nothing DEF Routers
<1> HIDE DEF f
<1>5. Sound(f)
  BY <1>3 DEF Sound
<1>6. Flows(view, f, pre, rest, ses, m)
  <2>1. <<>> \in Seq(Items) /\ <<>> \o rest = rest
    BY Empty DEF Context
  <2>2. Flows(view, s, pre, <<>> \o rest, ses, m)
    BY <2>1
  <2>3. f.role = "client" => ~Live(f)
    BY <1>2, <1>3 DEF Live
  <2>4. Out(f) = Out(s)
    BY <1>3 DEF Out
  <2>5. QED
    BY <1>1, <1>3, <2>1, <2>2, <2>3, <2>4, FlowKept DEF Flows
<1>7. Sound(v) /\ Flows(view, v, pre, rest, ses, m) /\ Alike(t, v) /\ t.conn = s.conn
  BY <1>3, <1>5, <1>6, Tells
<1>8. t.role = s.role /\ t.toPhys = <<>> /\ t.local = FALSE /\ t.thrown = FALSE
  BY <1>3 DEF Routers
<1>9. SetLocalConnected(s, FALSE, how, down) = v
  <2>1. FlushBuffers([s EXCEPT !.local = FALSE]) = g
    <3>1. ~[s EXCEPT !.local = FALSE].thrown
      BY <1>1 DEF Routers
    <3>2. QED
      BY <1>4, <3>1 DEF FlushBuffers
  <2>2. s.role = "client" => AskClose(g, how, down) = g
    <3> HAVE s.role = "client"
    <3>1. Sound(g)
      BY <1>4 DEF Sound
    <3>2. Close(Calm(g), how) = Calm(g)
      <4>1. /\ Good(Calm(g)) /\ Calm(g).bad = {} /\ Calm(g).state = "Suspended"
            /\ Calm(g).state \in TunnelStates(s.role)
        BY <1>2, <1>4, <3>1, CalmFacts
      <4>2. QED
        BY <1>1, <4>1, CloseStops
    <3>3. Calm(g).bad = {} /\ ~IsLayerUp(g.conn) /\ [Calm(g) EXCEPT !.bad = @ \cup g.conn.bad] = g.conn
      BY <1>2, <1>4, <3>1, CalmFacts
    <3>4. Asked(g, Calm(g), FALSE, down) = [g EXCEPT !.conn = g.conn]
      BY <3>3 DEF Asked
    <3>5. [g EXCEPT !.conn = g.conn] = g
      BY <1>4 DEF Routers
    <3>6. QED
      BY <1>4, <3>2, <3>4, <3>5 DEF AskClose
  <2>3. NotifyRemoteSideOfState(g, FALSE) = v
    BY <1>4 DEF NotifyRemoteSideOfState
  <2>4. [s EXCEPT !.local = FALSE].role = s.role
    BY <1>1 DEF Routers
  <2>5. s.local # FALSE
    OBVIOUS
  <2> HIDE DEF g, v
  <2>6. QED
    BY <1>1, <2>1, <2>2, <2>3, <2>4, <2>5 DEF SetLocalConnected, Sides
<1> HIDE DEF v, t, g
<1>10. v.toPhys = <<>> /\ v.thrown = FALSE
  BY <1>7, <1>8 DEF Alike
<1>11. NotConnected(s, how, down) = w
  BY <1>9, <1>10 DEF NotConnected, CheckForPhysWrite
<1>12. Sound(w) /\ Alike(v, w) /\ Out(w) = Out(v)
  BY <1>7, VtoWriteKeeps
<1>13. Flows(view, w, pre, rest, ses, m)
  BY <1>7, <1>12, AlikeKeeps
<1> HIDE DEF w
<1>14. Knows(v)
  BY <1>2, <1>7, <1>8 DEF Knows, Alike
<1>15. Knows(w)
  BY <1>7, <1>12, <1>14, AlikeKeeps
<1> QED
  BY <1>2, <1>7, <1>8, <1>10, <1>11, <1>12, <1>13, <1>15 DEF Fine, Alike, Counted

\* A router that has dropped what it had received, with the state of the remote side
Emptied(s, g) ==
  /\ g \in Routers /\ g.toPhys = <<>>
  /\ g.role = s.role /\ g.conn = s.conn /\ g.local = s.local /\ g.inst = s.inst
  /\ g.toVto = s.toVto /\ g.queue = s.queue /\ g.wrote = s.wrote /\ g.thrown = s.thrown

\* What a router that drops what it has received finds after a request to close.
LEMMA AskedFine ==
  ASSUME NEW s, NEW view \in Views, NEW pre, NEW rest, NEW ses, NEW m, Context(pre, rest, ses, m), NEW more \in Seq(Items),
         Fine(view, s, pre, more \o rest, ses, m), ~s.thrown, NEW how \in Ways(s.role),
         NEW g, Emptied(s, g),
         NEW k, Stops(s.role, Calm(s), k)
  PROVE  /\ Fine(view, Asked(g, k, FALSE, Down(how)), pre, rest, ses, m)
         /\ Asked(g, k, FALSE, Down(how)).role = s.role
<1> DEFINE c == [k EXCEPT !.bad = @ \cup s.conn.bad]
           t == [g EXCEPT !.conn = c]
           u == [t EXCEPT !.thrown = TRUE]
<1>1. /\ Sound(s) /\ Knows(s) /\ Flows(view, s, pre, more \o rest, ses, m) /\ s \in Routers /\ s.role \in Sides
      /\ Good(Calm(s)) /\ Calm(s).flags = s.conn.flags
  BY RouterTypes, CalmFacts DEF Fine, Sound
<1>2. /\ Good(k) /\ k.state \in TunnelStates(s.role) /\ k.bad \subseteq {"close", "open"}
  BY DEF Stops
<1>3. /\ Good(c) /\ c.bad \subseteq {"close", "open"} /\ c.state = k.state /\ c.flags = k.flags
      /\ c \in Connections /\ c.bad = k.bad \cup s.conn.bad
  BY <1>1, <1>2, AfterRequest
<1> HIDE DEF c
<1>4. /\ g \in Routers /\ g.conn = s.conn /\ g.thrown = FALSE
      /\ t \in Routers /\ t.conn = c /\ t.role = s.role /\ t.wrote = s.wrote /\ t.local = s.local
      /\ t.inst = s.inst /\ t.toPhys = <<>> /\ t.thrown = FALSE /\ t.queue = s.queue /\ t.toVto = s.toVto
      /\ u \in Routers /\ u.conn = c /\ u.role = s.role /\ u.wrote = s.wrote /\ u.local = s.local
      /\ u.inst = s.inst /\ u.toPhys = <<>> /\ u.queue = s.queue /\ u.toVto = s.toVto
  BY <1>1, <1>3, Nothing DEF Routers, Emptied
<1> HIDE DEF t, u
<1>5. s.role = "client" => ~CanClose(c)
  BY <1>3 DEF Stops, CanClose
<1>10. "open" \in c.bad => s.role = "server" /\ c.state \in {"Opening", "OpeningClosing"}
  BY <1>1, <1>3, CalmFacts DEF Stops, Sound
<1>6. ASSUME NEW r \in {t, u}
      PROVE  Sound(r) /\ Flows(view, r, pre, rest, ses, m) /\ Counted(r, ses)
  <2>1. Sound(r)
    BY <1>2, <1>3, <1>4, <1>10 DEF Sound
  <2>2. r.role = "client" => ~Live(r)
    BY <1>4, <1>5 DEF Live
  <2>3. Out(r) = Out(s)
    BY <1>4 DEF Out
  <2>4. Flows(view, r, pre, rest, ses, m)
    BY <1>1, <1>4, <2>2, <2>3, FlowKept DEF Flows
  <2>5. Counted(r, ses)
    BY <1>1, <1>3, <1>4 DEF Fine, Counted, Stops, IsLayerUp, Calm
  <2>6. QED
    BY <2>1, <2>4, <2>5
<1>7. CASE k.bad # {}
  <2>1. Asked(g, k, FALSE, Down(how)) = u
    BY <1>4, <1>7 DEF Asked, t, u, c
  <2>2. \/ k.flags = s.conn.flags
        \/ "open" \in k.bad /\ s.role = "server" /\ IsLayerUp(s.conn)
    BY <1>1, <1>2, <1>7 DEF Stops, IsLayerUp
  <2>3. Knows(u)
    BY <1>1, <1>3, <1>4, <2>2 DEF Knows, IsLayerUp
  <2>4. QED
    BY <1>4, <1>6, <2>1, <2>3 DEF Fine
<1>8. CASE k.bad = {} /\ IsLayerUp(s.conn) /\ ~IsLayerUp(k)
  <2>1. how \in AllOutcomes
    BY <1>1, WaysAreOutcomes
  <2>2. Asked(g, k, FALSE, Down(how)) = Down(how)[t]
    BY <1>4, <1>8 DEF Asked, t, c
  <2>3. Down(how)[t] = NotConnected(t, how, TooDeep)
    <3>1. t \in Routers
      BY <1>4
    <3>2. QED
      BY <2>1, <3>1, DownIs
  <2>4. s.local
    BY <1>1, <1>8, RouterTypes DEF Knows, IsLayerUp
  <2>5. Quiet(t.role, t.conn)
    BY <1>1, <1>3, <1>4, <1>8 DEF Stops, Quiet, IsLayerUp
  <2>6. /\ Sound(t) /\ Flows(view, t, pre, rest, ses, m) /\ ~t.thrown /\ t.local /\ how \in Ways(t.role)
        /\ t.role = s.role
    BY <1>4, <1>6, <2>4
  <2>7. /\ Fine(view, NotConnected(t, how, TooDeep), pre, rest, ses, m)
        /\ NotConnected(t, how, TooDeep).role = t.role
    BY <2>5, <2>6, NotConnectedFine
  <2>8. QED
    BY <2>2, <2>3, <2>6, <2>7
<1>9. CASE k.bad = {} /\ ~(IsLayerUp(s.conn) /\ ~IsLayerUp(k))
  <2>1. Asked(g, k, FALSE, Down(how)) = t
    BY <1>4, <1>9 DEF Asked, t, c
  <2>2. (k.flags = {} <=> s.conn.flags = {}) /\ (IsLayerUp(k) <=> IsLayerUp(s.conn))
    BY <1>1, <1>9 DEF Stops, IsLayerUp
  <2>3. Knows(t)
    BY <1>1, <1>3, <1>4, <2>2 DEF Knows, IsLayerUp
  <2>4. QED
    BY <1>4, <1>6, <2>1, <2>3 DEF Fine
<1> QED
  BY <1>7, <1>8, <1>9

LEMMA ClosesFine ==
  ASSUME NEW s, NEW view \in Views, NEW pre, NEW rest, NEW ses, NEW m, Context(pre, rest, ses, m), NEW more \in Seq(Items),
         Fine(view, s, pre, more \o rest, ses, m), ~s.thrown, NEW how \in Ways(s.role),
         NEW g, Emptied(s, g)
  PROVE  /\ Fine(view, AskClose(g, how, Down(how)), pre, rest, ses, m) /\ AskClose(g, how, Down(how)).role = s.role
         /\ s.role = "client" => /\ Fine(view, AskSuspend(g, how, Down(how)), pre, rest, ses, m)
                                 /\ AskSuspend(g, how, Down(how)).role = s.role
<1>1. Sound(s) /\ s \in Routers /\ s.role \in Sides
  BY RouterTypes DEF Fine, Sound
<1>2. Calm(g) = Calm(s) /\ ~g.thrown
  BY <1>1, Nothing DEF Calm, Routers, Emptied
<1>3. /\ Stops(s.role, Calm(s), Close(Calm(s), how))
      /\ s.role = "client" => Stops(s.role, Calm(s), Suspend(Calm(s), how))
  <2>1. /\ Good(Calm(s)) /\ Calm(s).bad = {} /\ Calm(s).state \in TunnelStates(s.role)
    BY <1>1, CalmFacts
  <2>2. QED
    BY <1>1, <2>1, CloseStops
<1>4. AskClose(g, how, Down(how)) = Asked(g, Close(Calm(s), how), FALSE, Down(how))
  BY <1>2 DEF AskClose
<1>5. AskSuspend(g, how, Down(how)) = Asked(g, Suspend(Calm(s), how), FALSE, Down(how))
  BY <1>2 DEF AskSuspend
<1>6. ASSUME NEW k, Stops(s.role, Calm(s), k)
      PROVE  /\ Fine(view, Asked(g, k, FALSE, Down(how)), pre, rest, ses, m)
             /\ Asked(g, k, FALSE, Down(how)).role = s.role
  BY <1>6, AskedFine
<1> DEFINE k1 == Close(Calm(s), how)
           k2 == Suspend(Calm(s), how)
<1>7. /\ Fine(view, AskClose(g, how, Down(how)), pre, rest, ses, m)
      /\ AskClose(g, how, Down(how)).role = s.role
  <2>1. Stops(s.role, Calm(s), k1)
    BY <1>3
  <2> HIDE DEF k1
  <2>2. /\ Fine(view, Asked(g, k1, FALSE, Down(how)), pre, rest, ses, m)
        /\ Asked(g, k1, FALSE, Down(how)).role = s.role
    BY <1>6, <2>1
  <2>3. QED
    BY <1>4, <2>2 DEF k1
<1>8. s.role = "client" => /\ Fine(view, AskSuspend(g, how, Down(how)), pre, rest, ses, m)
                           /\ AskSuspend(g, how, Down(how)).role = s.role
  <2> HAVE s.role = "client"
  <2>1. Stops(s.role, Calm(s), k2)
    BY <1>3
  <2> HIDE DEF k2
  <2>2. /\ Fine(view, Asked(g, k2, FALSE, Down(how)), pre, rest, ses, m)
        /\ Asked(g, k2, FALSE, Down(how)).role = s.role
    BY <1>6, <2>1
  <2>3. QED
    BY <1>5, <2>2 DEF k2
<1> QED
  BY <1>7, <1>8

LEMMA HeadTail ==
  ASSUME NEW q \in Seq(Objects), q # <<>>
  PROVE  /\ Head(q) \in Objects /\ Head(q) \in Items /\ Tail(q) \in Seq(Objects) /\ Tail(q) \in Seq(Items)
         /\ q = <<Head(q)>> \o Tail(q)
         /\ Tail(q) # <<>> => Tail(q)[Len(Tail(q))] = q[Len(q)]
         /\ Tail(q) = <<>> => q[Len(q)] = Head(q)
<1>1. /\ Len(q) \in Nat \ {0} /\ Tail(q) \in Seq(Objects) /\ Head(q) \in Objects /\ Head(q) = q[1]
      /\ Len(Tail(q)) = Len(q) - 1
  OBVIOUS
<1>2. \A i \in 1 .. Len(q) - 1 : Tail(q)[i] = q[i + 1]
  OBVIOUS
<1>3. q = <<Head(q)>> \o Tail(q)
  <2>1. 1 \in 1 .. Len(q) /\ Len(q) \in 1 .. Len(q)
    BY <1>1
  <2>2. SubSeq(q, 1, Len(q)) = <<q[1]>> \o SubSeq(q, 1 + 1, Len(q))
    BY <2>1, SubSeqRecursiveFirst
  <2>3. SubSeq(q, 1, Len(q)) = q
    BY SubSeqFull
  <2>4. Tail(q) = SubSeq(q, 2, Len(q))
    BY TailIsSubSeq
  <2>5. 1 + 1 = 2
    OBVIOUS
  <2>6. QED
    BY <1>1, <2>2, <2>3, <2>4, <2>5
<1>4. Tail(q) # <<>> => Tail(q)[Len(Tail(q))] = q[Len(q)]
  <2> HAVE Tail(q) # <<>>
  <2>1. Len(q) - 1 \in 1 .. Len(q) - 1 /\ (Len(q) - 1) + 1 = Len(q)
    BY <1>1
  <2>2. QED
    BY <1>1, <1>2, <2>1
<1>5. Len(Tail(q)) = 0 => Len(q) = 1
  <2> DEFINE n == Len(q)
             k == Len(Tail(q))
  <2>1. n \in Nat \ {0} /\ k = n - 1
    BY <1>1
  <2> HIDE DEF n, k
  <2>2. k = 0 => n = 1
    BY <2>1
  <2>3. QED
    BY <2>2 DEF n, k
<1>6. Tail(q) = <<>> => q[Len(q)] = Head(q)
  <2> HAVE Tail(q) = <<>>
  <2>1. Len(Tail(q)) = 0
    BY <1>1, EmptySeq
  <2>2. Len(q) = 1
    BY <1>5, <2>1
  <2>3. QED
    BY <1>1, <2>2
<1> QED
  BY <1>1, <1>3, <1>4, <1>6, ObjectSeqs, ObjectsAreItems

\* The client's connection may not be written to when the news of another one come.
LEMMA NewsFindNoneLive ==
  ASSUME NEW s \in Routers, NEW view \in Views, NEW pre, NEW rest, NEW ses, NEW m, Context(pre, rest, ses, m),
         view = "stream", s.role = "client", Flow(view, s, pre, rest, ses, m), s.toPhys # <<>>, Head(s.toPhys) = Opened
  PROVE  ~Live(s)
<1>1. /\ Chain((Lead(s) \o s.toPhys) \o rest) /\ Tuned(s) /\ rest \in Seq(Items)
      /\ s.toPhys \in Seq(Items) /\ s.wrote \in Seq(Items) /\ Lead(s) \in Seq(Items)
  BY RouterTypes, LeadTypes DEF Flow, Context
<1>2. Chain(Lead(s) \o s.toPhys)
  <2>1. Lead(s) \o s.toPhys \in Seq(Items)
    BY <1>1, Joined
  <2>2. QED
    BY <1>1, <2>1, ChainParts
<1>3. SUFFICES ASSUME Live(s) PROVE FALSE
  OBVIOUS
<1> DEFINE u == <<Latest(s)>>
<1>4. u \in Seq(Items) /\ u # <<>> /\ Len(u) = 1 /\ u[1] = Latest(s) /\ Lead(s) = u
  BY <1>3, LeadTypes, OneItem DEF Lead
<1> HIDE DEF u
<1>5. Follows(Latest(s), s.toPhys[1])
  BY <1>1, <1>2, <1>4, ChainParts
<1>6. s.toPhys[1] = Opened
  BY <1>1
<1>7. Latest(s).type \in {"data", "opened"}
  <2>1. CASE IsLayerUp(s.conn) /\ s.wrote # <<>>
    <3>1. Len(s.wrote) \in DOMAIN s.wrote
      BY <1>1, <2>1
    <3>2. s.wrote[Len(s.wrote)] = Data(s.wrote[1].ses, Len(s.wrote))
      BY <1>1, <3>1 DEF Tuned
    <3>3. QED
      BY <2>1, <3>2 DEF Latest, Data
  <2>2. CASE ~(IsLayerUp(s.conn) /\ s.wrote # <<>>)
    BY <2>2 DEF Latest, Opened
  <2>3. QED
    BY <2>1, <2>2
<1>8. Opened.type = "opened"
  BY DEF Opened
<1> QED
  BY <1>5, <1>6, <1>7, <1>8 DEF Follows

\* A router that takes the first of what it has received and does nothing with it
LEMMA PopKeeps ==
  ASSUME NEW s \in Routers, NEW view \in Views, NEW pre, NEW rest, NEW ses, NEW m, Context(pre, rest, ses, m),
         Flow(view, s, pre, rest, ses, m), s.toPhys # <<>>, ~s.thrown, NEW b, b \in BOOLEAN,
         view = "stream" /\ s.role = "client" => ~Live(s)
  PROVE  Flow(view, [s EXCEPT !.toPhys = Tail(@), !.remote = b], pre, rest, ses, m)
<1> DEFINE t == [s EXCEPT !.toPhys = Tail(@), !.remote = b]
           h == Head(s.toPhys)
           q == Tail(s.toPhys)
           u == <<h>>
<1> SUFFICES Flow(view, t, pre, rest, ses, m)
  OBVIOUS
<1>1. /\ h \in Items /\ q \in Seq(Objects) /\ q \in Seq(Items) /\ s.toPhys = u \o q
      /\ q # <<>> => q[Len(q)] = s.toPhys[Len(s.toPhys)]
  BY RouterTypes, HeadTail
<1>2. u \in Seq(Items) /\ u # <<>> /\ u[1] = h /\ Len(u) = 1
  BY <1>1, OneItem
<1>3. /\ t \in Routers /\ t.role = s.role /\ t.conn = s.conn /\ t.local = s.local /\ t.inst = s.inst
      /\ t.remote = b /\ t.toPhys = q /\ t.wrote = s.wrote /\ t.queue = s.queue /\ t.toVto = s.toVto
      /\ t.thrown = s.thrown
  BY <1>1 DEF Routers
<1> HIDE DEF u, q, h, t
<1>4. /\ s.wrote \in Seq(Items) /\ rest \in Seq(Items) /\ s.toPhys \in Seq(Items) /\ Lead(s) \in Seq(Items)
      /\ q \o rest \in Seq(Items) /\ s.wrote \o u \in Seq(Items) /\ s.wrote \o q \in Seq(Items)
      /\ pre \in Seq(Items) /\ Out(s) \in Seq(Items)
  BY <1>1, <1>2, RouterTypes, LeadTypes, Joined DEF Context
<1>5. Out(t) = Out(s) /\ Sends(t, ses, m) = Sends(s, ses, m)
  BY <1>3 DEF Out, Sends
<1>6. CASE view = "order"
  <2>1. /\ Ascending((s.wrote \o (u \o q)) \o rest)
        /\ Ascending(pre \o (Out(s) \o <<Coming(ses, m)>>))
    BY <1>1, <1>6 DEF Flow
  <2>2. (s.wrote \o (u \o q)) \o rest = (s.wrote \o u) \o (q \o rest)
    <3>1. s.wrote \in Seq(Items) /\ u \in Seq(Items) /\ q \in Seq(Items) /\ rest \in Seq(Items) /\ s.wrote \o u \in Seq(Items)
      BY <1>1, <1>2, <1>4
    <3>2. s.wrote \o (u \o q) = (s.wrote \o u) \o q
      BY <3>1, Associative
    <3>3. ((s.wrote \o u) \o q) \o rest = (s.wrote \o u) \o (q \o rest)
      BY <3>1, Associative
    <3>4. QED
      BY <3>2, <3>3
  <2>3. Ascending(s.wrote \o (q \o rest))
    BY <1>2, <1>4, <2>1, <2>2, AscendingWithout
  <2>4. s.wrote \o (q \o rest) = (s.wrote \o q) \o rest
    <3>1. s.wrote \in Seq(Items) /\ q \in Seq(Items) /\ rest \in Seq(Items)
      BY <1>1, <1>4
    <3>2. QED
      BY <3>1, Associative
  <2>5. QED
    BY <1>3, <1>5, <1>6, <2>1, <2>3, <2>4 DEF Flow
<1>8. CASE view = "stream" /\ s.role = "server"
  BY <1>3, <1>5, <1>8 DEF Flow
<1>7. CASE view = "stream" /\ s.role # "server"
  <2>0. s.role = "client" /\ ~Live(s) /\ ~Live(t)
    BY <1>3, <1>7, RouterTypes DEF Sides, Live
  <2>1. Chain((Lead(s) \o s.toPhys) \o rest) /\ Tuned(s)
    BY <1>7 DEF Flow
  <2>2. Chain(s.toPhys \o rest)
    BY <1>4, <2>1, ChainBehind
  <2>3. Chain(q \o rest)
    BY <1>1, <1>2, <1>4, <2>2, ChainBehind
  <2>4. Lead(t) \o t.toPhys = q
    BY <1>1, <1>3, <2>0, Empty DEF Lead
  <2>5. Tuned(t)
    <3>1. q # <<>> => (s.inst <=> q[Len(q)].type # "closed")
      BY <1>1, <2>1, <1>2 DEF Tuned
    <3>2. QED
      BY <1>3, <2>0, <2>1, <3>1 DEF Tuned
  <2>6. QED
    BY <1>3, <1>5, <1>7, <2>1, <2>3, <2>4, <2>5 DEF Flow
<1> QED
  BY <1>6, <1>7, <1>8 DEF Views

\* The router that has taken the first of what it has received, with the state of the remote side
Popped(s, b) == [s EXCEPT !.toPhys = Tail(@), !.remote = b]

LEMMA PoppedFields ==
  ASSUME NEW s \in Routers, s.toPhys # <<>>, NEW b, b \in BOOLEAN
  PROVE  LET t == Popped(s, b) IN
         /\ t \in Routers /\ t.role = s.role /\ t.conn = s.conn /\ t.local = s.local /\ t.inst = s.inst
         /\ t.remote = b /\ t.toPhys = Tail(s.toPhys) /\ t.wrote = s.wrote
         /\ t.queue = s.queue /\ t.toVto = s.toVto /\ t.thrown = s.thrown
         /\ t = [[s EXCEPT !.toPhys = Tail(@)] EXCEPT !.remote = b]
         /\ s.remote = b => t = [s EXCEPT !.toPhys = Tail(@)]
         /\ [s EXCEPT !.toPhys = Tail(@)].remote = s.remote
         /\ [s EXCEPT !.toPhys = Tail(@)].role = s.role
<1>1. Tail(s.toPhys) \in Seq(Objects)
  BY RouterTypes, HeadTail
<1> QED
  BY <1>1 DEF Popped, Routers

\* A client whose connection is idle tries to open one.
LEMMA ClientTries ==
  ASSUME NEW s, NEW view \in Views, NEW pre, NEW rest, NEW ses, NEW m, Context(pre, rest, ses, m),
         Fine(view, s, pre, rest, ses, m), ~s.thrown, s.role = "client", s.toPhys # <<>>, Head(s.toPhys) = Opened,
         NEW v, Sound(v), Flows(view, v, pre, rest, ses, m), v.role = "client", v.local, v.remote, ~v.thrown,
         v.inst = s.inst, v.toPhys = Tail(s.toPhys), v.wrote = s.wrote,
         v.conn.state \in {"Init", "Suspended"}, NEW how \in Ways("client")
  PROVE  LET t == AskStartOne(v, how, Down(how)) IN
         Fine(view, t, pre, rest, ses, m) /\ t.role = s.role
<1> DEFINE k == StartOne(Calm(v), how)
           c == [k EXCEPT !.bad = @ \cup v.conn.bad]
           x == [v EXCEPT !.conn = c]
<1>1. /\ v \in Routers /\ s \in Routers /\ how \in {"pending", "unresolved"}
      /\ Good(Calm(v)) /\ Calm(v).bad = {} /\ Calm(v).state = v.conn.state
      /\ Calm(v).state \in TunnelStates("client") /\ Calm(v).flags = v.conn.flags
  BY CalmFacts DEF Sound, Fine, Ways
<1>2. /\ Good(k) /\ k.state \in TunnelStates("client") /\ k.bad = {}
      /\ ~IsLayerUp(Calm(v)) /\ ~IsLayerUp(k)
      /\ how = "pending" => k.flags = {"opening"}
      /\ how = "unresolved" => k.state = "Suspended"
  BY <1>1, StartOneOpens
<1>3. /\ Good(c) /\ c.bad \subseteq {"close", "open"} /\ c.state = k.state /\ c.flags = k.flags
      /\ c \in Connections /\ "open" \notin c.bad
  BY <1>1, <1>2, AfterRequest DEF Sound
<1>4. AskStartOne(v, how, Down(how)) = IF how = "unresolved" THEN Down(how)[x] ELSE x
  <2>1. IsLayerUp(v.conn) <=> IsLayerUp(Calm(v))
    BY <1>1 DEF IsLayerUp
  <2>2. AskStartOne(v, how, Down(how)) = Asked(v, k, how = "unresolved", Down(how))
    BY DEF AskStartOne
  <2>3. QED
    BY <1>1, <1>2, <2>1, <2>2 DEF Asked
<1> HIDE DEF c, k
<1>5. /\ x \in Routers /\ x.conn = c /\ x.role = "client" /\ x.local /\ x.remote /\ x.thrown = FALSE
      /\ x.inst = v.inst /\ x.toPhys = v.toPhys /\ x.wrote = v.wrote /\ x.queue = v.queue /\ x.toVto = v.toVto
      /\ x.local = v.local /\ x.remote = v.remote
  BY <1>1, <1>3 DEF Routers
<1> HIDE DEF x
<1>6. Sound(x) /\ Out(x) = Out(v)
  BY <1>2, <1>3, <1>5 DEF Sound, Out
<1>7. ~IsLayerUp(x.conn)
  BY <1>2, <1>3, <1>5 DEF IsLayerUp
<1>8. CASE how = "unresolved"
  <2>1. StateFlags(x.conn)
    BY <1>2, <1>3, <1>5, TunnelFlags DEF Sides
  <2>2. ~Live(x)
    BY <1>2, <1>3, <1>5, <1>8, <2>1 DEF StateFlags, Live, CanClose
  <2>3. Flows(view, v, pre, <<>> \o rest, ses, m) /\ <<>> \in Seq(Items)
    BY Empty DEF Context
  <2>4. Flows(view, x, pre, rest, ses, m)
    <3>1. /\ v \in Routers /\ x \in Routers /\ x.role = v.role /\ x.wrote = v.wrote /\ Out(x) = Out(v)
          /\ x.local = v.local /\ x.inst = v.inst /\ x.toPhys = v.toPhys /\ x.remote = v.remote
          /\ ~x.thrown /\ ~Live(x)
      BY <1>1, <1>5, <1>6, <2>2
    <3>2. QED
      BY <2>3, <3>1, FlowKept DEF Flows
  <2>5. Quiet(x.role, x.conn) /\ how \in Ways(x.role)
    BY <1>2, <1>3, <1>5, <1>8 DEF Quiet
  <2>6. /\ Fine(view, NotConnected(x, how, TooDeep), pre, rest, ses, m)
        /\ NotConnected(x, how, TooDeep).role = x.role
    BY <1>5, <1>6, <2>4, <2>5, NotConnectedFine
  <2>7. Down(how)[x] = NotConnected(x, how, TooDeep)
    BY <1>5, DownIs
  <2>8. QED
    BY <1>4, <1>5, <1>8, <2>6, <2>7
<1>9. CASE how = "pending"
  <2> DEFINE q == Tail(s.toPhys)
             u == <<Opened>>
  <2>1. x.conn.flags = {"opening"}
    BY <1>2, <1>3, <1>5, <1>9
  <2>2. Knows(x)
    BY <1>5, <2>1 DEF Knows
  <2>3. Live(x) /\ Latest(x) = Opened
    BY <2>1 DEF Live, CanClose, Latest, IsLayerUp
  <2>7. view = "order" /\ Flow(view, v, pre, rest, ses, m) => Flow(view, x, pre, rest, ses, m)
    BY <1>5, <1>6 DEF Flow
  <2>4. ASSUME view = "stream", Flow(view, s, pre, rest, ses, m), Flow(view, v, pre, rest, ses, m)
        PROVE  Flow(view, x, pre, rest, ses, m)
    <3>1. /\ Chain((Lead(s) \o s.toPhys) \o rest) /\ Tuned(s) /\ rest \in Seq(Items)
          /\ s.toPhys \in Seq(Items) /\ Lead(s) \in Seq(Items)
      BY <1>1, <2>4, RouterTypes, LeadTypes DEF Flow, Context
    <3>2. /\ s.toPhys = u \o q
          /\ q = <<>> => s.toPhys[Len(s.toPhys)] = Opened
      BY <1>1, RouterTypes, HeadTail
    <3>3. Chain((u \o q) \o rest)
      <4>1. u \in Seq(Items) /\ q \in Seq(Items)
        BY <1>1, RouterTypes, HeadTail, ObjectsAreItems, OneItem
      <4> HIDE DEF u, q
      <4>2. u \o q \in Seq(Items)
        BY <4>1, Joined
      <4>3. Chain((u \o q) \o rest)
        BY <3>1, <3>2, <4>2, ChainBehind
      <4>4. QED
        BY <4>3 DEF u, q
    <3>4. Lead(x) \o x.toPhys = u \o q
      BY <1>5, <2>3 DEF Lead
    <3>5. Flow(view, v, pre, rest, ses, m) /\ ~(v.role = "server")
      BY <2>4
    <3>6. Tuned(v)
      BY <2>4, <3>5 DEF Flow
    <3>7. q = <<>> => s.inst
      <4>1. Opened.type # "closed"
        BY DEF Opened
      <4>2. QED
        BY <3>1, <3>2, <4>1 DEF Tuned
    <3>8. Tuned(x)
      <4>1. x.toPhys # <<>> => (x.inst <=> x.toPhys[Len(x.toPhys)].type # "closed")
        BY <1>5, <3>6 DEF Tuned
      <4>2. x.remote /\ (x.toPhys = <<>> => x.inst)
        BY <1>5, <3>7
      <4>3. \A i \in DOMAIN x.wrote : x.wrote[i] = Data(x.wrote[1].ses, i)
        BY <1>5, <3>6 DEF Tuned
      <4>4. QED
        BY <1>5, <4>1, <4>2, <4>3 DEF Tuned
    <3>9. QED
      BY <1>5, <2>4, <3>3, <3>4, <3>8 DEF Flow
  <2>5. Flows(view, x, pre, rest, ses, m)
    BY <2>4, <2>7 DEF Fine, Flows, Views
  <2>6. QED
    BY <1>4, <1>5, <1>6, <1>7, <1>9, <2>2, <2>5 DEF Fine, Counted
<1> QED
  BY <1>1, <1>8, <1>9

LEMMA ClientOpens ==
  ASSUME NEW s, NEW view \in Views, NEW pre, NEW rest, NEW ses, NEW m, Context(pre, rest, ses, m),
         Fine(view, s, pre, rest, ses, m), ~s.thrown, s.role = "client", s.toPhys # <<>>, Head(s.toPhys) = Opened,
         NEW how \in Ways("client")
  PROVE  LET t == AskStartOne(SetLocalConnected(Popped(s, TRUE), TRUE, how, Down(how)), how, Down(how)) IN
         Fine(view, t, pre, rest, ses, m) /\ t.role = s.role
<1> DEFINE p == Popped(s, TRUE)
           w == [p EXCEPT !.local = TRUE, !.toVto = Append(@, Opened)]
           v == CheckForVtoWrite(w)
<1>1. s \in Routers /\ Sound(s) /\ Knows(s) /\ Flows(view, s, pre, rest, ses, m)
  BY DEF Fine, Sound
<1>2. view = "stream" /\ Flow(view, s, pre, rest, ses, m) => ~Live(s)
  BY <1>1, NewsFindNoneLive
<1>3. /\ p \in Routers /\ p.role = "client" /\ p.conn = s.conn /\ p.local = s.local /\ p.inst = s.inst
      /\ p.remote = TRUE /\ p.toPhys = Tail(s.toPhys) /\ p.wrote = s.wrote /\ p.thrown = FALSE
      /\ Flows(view, p, pre, rest, ses, m)
  <2>1. s.thrown = FALSE
    BY <1>1, RouterTypes
  <2>2. Flows(view, p, pre, rest, ses, m)
    BY <1>1, <1>2, PopKeeps DEF Popped, Flows
  <2>3. QED
    BY <1>1, <2>1, <2>2, PoppedFields
<1> HIDE DEF p
<1>4. Sound(p) /\ Knows(p)
  BY <1>1, <1>3 DEF Sound, Knows
<1>5. /\ Good(Calm(p)) /\ Calm(p).bad = {} /\ Calm(p).state = p.conn.state
      /\ Calm(p).flags = p.conn.flags /\ Calm(p).state \in TunnelStates("client")
      /\ [Calm(p) EXCEPT !.bad = @ \cup p.conn.bad] = p.conn
  BY <1>3, <1>4, CalmFacts
<1>6. CASE p.conn.state \notin {"Init", "Suspended"}
  <2>1. StartOne(Calm(p), how) = Calm(p) /\ p.conn.flags # {}
    BY <1>5, <1>6, StartOneOpens
  <2>2. p.local = TRUE
    BY <1>3, <1>4, <2>1, RouterTypes DEF Knows
  <2>3. SetLocalConnected(p, TRUE, how, Down(how)) = p
    BY <2>2 DEF SetLocalConnected
  <2>4. Asked(p, Calm(p), FALSE, Down(how)) = [p EXCEPT !.conn = p.conn]
    BY <1>5 DEF Asked, IsLayerUp
  <2>5. [p EXCEPT !.conn = p.conn] = p
    BY <1>3 DEF Routers
  <2>6. AskStartOne(p, how, Down(how)) = p
    BY <1>3, <1>6, <2>1, <2>4, <2>5 DEF AskStartOne
  <2>7. QED
    BY <1>3, <1>4, <2>3, <2>6 DEF Fine, Counted, p
<1>7. CASE p.conn.state \in {"Init", "Suspended"}
  <2>1. StateFlags(p.conn)
    BY <1>3, <1>4, TunnelFlags DEF Sound, Sides
  <2>2. p.local = FALSE
    BY <1>3, <1>4, <1>7, <2>1, RouterTypes DEF Knows, StateFlags
  <2>3. Sound(v) /\ Flows(view, v, pre, rest, ses, m) /\ Alike(w, v) /\ w.conn = p.conn
    BY <1>3, <1>4, Tells
  <2>4. SetLocalConnected(p, TRUE, how, Down(how)) = v
    <3>1. [[p EXCEPT !.local = TRUE] EXCEPT !.toVto = Append(@, Opened)] = w
      BY <1>3 DEF Routers
    <3>2. ~[p EXCEPT !.local = TRUE].thrown
      BY <1>3 DEF Routers
    <3>3. NotifyRemoteSideOfState([p EXCEPT !.local = TRUE], TRUE) = v
      BY <3>1, <3>2 DEF NotifyRemoteSideOfState
    <3> HIDE DEF v, w
    <3>4. QED
      BY <1>3, <2>2, <3>3 DEF SetLocalConnected
  <2>5. /\ w.role = "client" /\ w.local = TRUE /\ w.remote = TRUE /\ w.thrown = FALSE /\ w.inst = s.inst
        /\ w.toPhys = Tail(s.toPhys) /\ w.wrote = s.wrote
    BY <1>3 DEF Routers
  <2> HIDE DEF v, w
  <2>6. /\ v.role = "client" /\ v.local /\ v.remote /\ ~v.thrown /\ v.inst = s.inst
        /\ v.toPhys = Tail(s.toPhys) /\ v.wrote = s.wrote /\ v.conn.state \in {"Init", "Suspended"}
    BY <1>7, <2>3, <2>5 DEF Alike
  <2>7. LET t == AskStartOne(v, how, Down(how)) IN Fine(view, t, pre, rest, ses, m) /\ t.role = s.role
    BY <2>3, <2>6, ClientTries
  <2>8. QED
    BY <2>4, <2>7 DEF p
<1> QED
  BY <1>6, <1>7

\* DoVtoRemoteConnectedChanged, for the news that a router takes from what it has received
LEMMA RemoteFine ==
  ASSUME NEW s, NEW view \in Views, NEW pre, NEW rest, NEW ses, NEW m, Context(pre, rest, ses, m),
         Fine(view, s, pre, rest, ses, m), ~s.thrown, s.toPhys # <<>>, Head(s.toPhys).type # "data",
         NEW how \in Ways(s.role)
  PROVE  LET t == RemoteConnected([s EXCEPT !.toPhys = Tail(@)], Head(s.toPhys) = Opened, how, Down(how)) IN
         Fine(view, t, pre, rest, ses, m) /\ t.role = s.role
<1> DEFINE b == Head(s.toPhys) = Opened
           p == [s EXCEPT !.toPhys = Tail(@)]
           t == Popped(s, b)
           f == FlushBuffers(t)
<1> SUFFICES /\ Fine(view, RemoteConnected(p, b, how, Down(how)), pre, rest, ses, m)
             /\ RemoteConnected(p, b, how, Down(how)).role = s.role
  OBVIOUS
<1>1. /\ s \in Routers /\ Sound(s) /\ Knows(s) /\ Flows(view, s, pre, rest, ses, m) /\ s.role \in Sides
      /\ s.thrown = FALSE /\ s.remote \in BOOLEAN
  BY RouterTypes DEF Fine, Sound
<1>2. b \in BOOLEAN /\ (b => Head(s.toPhys) = Opened)
  OBVIOUS
<1> HIDE DEF b
<1>3. /\ t \in Routers /\ t.role = s.role /\ t.conn = s.conn /\ t.local = s.local /\ t.inst = s.inst
      /\ t.remote = b /\ t.toPhys = Tail(s.toPhys) /\ t.wrote = s.wrote
      /\ t.queue = s.queue /\ t.toVto = s.toVto /\ t.thrown = FALSE
      /\ t = [p EXCEPT !.remote = b]
      /\ s.remote = b => t = p
      /\ p.remote = s.remote
  <2>1. Tail(s.toPhys) \in Seq(Objects)
    BY <1>1, RouterTypes, HeadTail
  <2>2. QED
    BY <1>1, <1>2, <2>1 DEF Popped, Routers
<1> HIDE DEF t, p
<1>4. Sound(t) /\ Knows(t)
  BY <1>1, <1>3 DEF Sound, Knows
<1>5. ASSUME view = "stream" /\ s.role = "client" /\ Flow(view, s, pre, rest, ses, m) => ~Live(s)
      PROVE  Fine(view, t, pre, rest, ses, m)
  <2>1. Flows(view, t, pre, rest, ses, m)
    BY <1>1, <1>2, <1>5, PopKeeps DEF t, Popped, Flows
  <2>2. QED
    BY <1>3, <1>4, <2>1 DEF Fine, Counted
<1>6. CASE s.remote = b
  <2>1. view = "stream" /\ s.role = "client" /\ Flow(view, s, pre, rest, ses, m) => ~Live(s)
    <3>1. CASE b
      BY <1>1, <1>2, <3>1, NewsFindNoneLive
    <3>2. CASE ~b
      <4> HAVE view = "stream" /\ s.role = "client" /\ Flow(view, s, pre, rest, ses, m)
      <4>1. ~(view = "order") /\ ~(s.role = "server")
        OBVIOUS
      <4>2. Tuned(s)
        BY <4>1 DEF Flow
      <4>3. QED
        BY <1>6, <3>2, <4>2 DEF Tuned
    <3>3. QED
      BY <3>1, <3>2
  <2>2. RemoteConnected(p, b, how, Down(how)) = t
    BY <1>3, <1>6 DEF RemoteConnected
  <2>3. QED
    BY <1>3, <1>5, <2>1, <2>2
<1>7. CASE s.remote # b /\ b /\ s.role = "server"
  <2>1. RemoteConnected(p, b, how, Down(how)) = t
    BY <1>3, <1>7 DEF RemoteConnected
  <2>2. QED
    BY <1>3, <1>5, <1>7, <2>1
<1>8. CASE s.remote # b /\ b /\ s.role = "client"
  <2>1. RemoteConnected(p, b, how, Down(how)) = AskStartOne(SetLocalConnected(t, TRUE, how, Down(how)), how, Down(how))
    BY <1>3, <1>8 DEF RemoteConnected
  <2>2. t = Popped(s, TRUE)
    BY <1>2, <1>8 DEF t
  <2> HIDE DEF f
  <2>3. LET x == AskStartOne(SetLocalConnected(Popped(s, TRUE), TRUE, how, Down(how)), how, Down(how)) IN
        Fine(view, x, pre, rest, ses, m) /\ x.role = s.role
    BY <1>2, <1>8, ClientOpens
  <2>4. QED
    BY <2>1, <2>2, <2>3
<1>9. CASE s.remote # b /\ ~b
  <2>1. Emptied(s, f)
    BY <1>1, <1>3, Nothing DEF FlushBuffers, Emptied, Routers
  <2>2. Fine(view, s, pre, <<>> \o rest, ses, m) /\ <<>> \in Seq(Items)
    BY Empty DEF Context
  <2> HIDE DEF f
  <2>3. /\ Fine(view, AskClose(f, how, Down(how)), pre, rest, ses, m) /\ AskClose(f, how, Down(how)).role = s.role
        /\ s.role = "client" => /\ Fine(view, AskSuspend(f, how, Down(how)), pre, rest, ses, m)
                                /\ AskSuspend(f, how, Down(how)).role = s.role
    BY <2>1, <2>2, ClosesFine
  <2>4. CASE s.role = "server"
    <3>1. RemoteConnected(p, b, how, Down(how)) = AskClose(f, how, Down(how))
      BY <1>3, <1>9, <2>4 DEF RemoteConnected, f
    <3>2. QED
      BY <2>3, <3>1
  <2>5. CASE s.role = "client"
    <3>1. RemoteConnected(p, b, how, Down(how)) = AskSuspend(f, how, Down(how))
      BY <1>3, <1>9, <2>5 DEF RemoteConnected, f
    <3>2. QED
      BY <2>3, <2>5, <3>1
  <2>6. QED
    BY <1>1, <2>4, <2>5 DEF Sides
<1> QED
  BY <1>1, <1>2, <1>6, <1>7, <1>8, <1>9 DEF Sides

\* The first chunk that a router has received goes to its connection.
Written(s) == [[s EXCEPT !.toPhys = Tail(@)] EXCEPT
                  !.conn = Raise(@, "writing"), !.wrote = Append(@, Head(s.toPhys))]

LEMMA ChunkWritten ==
  ASSUME NEW s, NEW view \in Views, NEW pre, NEW rest, NEW ses, NEW m, Context(pre, rest, ses, m),
         Fine(view, s, pre, rest, ses, m), ~s.thrown, s.toPhys # <<>>, Head(s.toPhys).type = "data", CanWrite(s.conn)
  PROVE  Fine(view, Written(s), pre, rest, ses, m) /\ Written(s).role = s.role
<1> DEFINE h == Head(s.toPhys)
           q == Tail(s.toPhys)
           k == Raise(s.conn, "writing")
           w == Append(s.wrote, h)
           t == [[s EXCEPT !.toPhys = q] EXCEPT !.conn = k, !.wrote = w]
           u == <<h>>
<1> SUFFICES Fine(view, t, pre, rest, ses, m) /\ t.role = s.role
  BY DEF Fine, Sound, Routers, Written
<1>1. /\ s \in Routers /\ Sound(s) /\ Knows(s) /\ Flows(view, s, pre, rest, ses, m) /\ s.role \in Sides
      /\ s.thrown = FALSE /\ s.wrote \in Seq(Objects) /\ s.wrote \in Seq(Items) /\ Good(s.conn)
  BY RouterTypes DEF Fine, Sound
<1>2. /\ h \in Objects /\ h \in Items /\ q \in Seq(Objects) /\ q \in Seq(Items) /\ s.toPhys = u \o q
      /\ q # <<>> => q[Len(q)] = s.toPhys[Len(s.toPhys)]
      /\ q = <<>> => s.toPhys[Len(s.toPhys)] = h
      /\ h.type = "data"
  BY <1>1, RouterTypes, HeadTail
<1>3. u \in Seq(Items) /\ u # <<>> /\ u[1] = h /\ Len(u) = 1
  BY <1>2, OneItem
<1>4. /\ w \in Seq(Chunks) /\ w \in Seq(Objects) /\ w = s.wrote \o u /\ Len(w) = Len(s.wrote) + 1 /\ w[Len(w)] = h
      /\ Len(s.wrote) \in Nat
      /\ \A i \in 1 .. Len(s.wrote) : w[i] = s.wrote[i]
  <2>1. h \in Chunks /\ h \in Objects /\ s.wrote \in Seq(Objects) /\ s.wrote \in Seq(Chunks)
    BY <1>1, <1>2, RouterTypes DEF Chunks
  <2> HIDE DEF h
  <2>2. QED
    BY <2>1, AppendProperties, AppendIsConcat
<1>5. /\ Good(k) /\ k.state = s.conn.state /\ k.bad = s.conn.bad /\ k.flags # {} /\ s.conn.flags # {}
      /\ CanClose(k) /\ CanClose(s.conn) /\ IsLayerUp(k) /\ IsLayerUp(s.conn)
  <2>1. "open" \in s.conn.flags /\ "closing" \notin s.conn.flags
    BY DEF CanWrite
  <2>2. QED
    BY <1>1, <2>1, TransferStarts
<1> HIDE DEF k, w, q
<1>6. /\ t \in Routers /\ t.role = s.role /\ t.conn = k /\ t.local = s.local /\ t.inst = s.inst
      /\ t.remote = s.remote /\ t.toPhys = q /\ t.wrote = w
      /\ t.queue = s.queue /\ t.toVto = s.toVto /\ t.thrown = FALSE
  BY <1>1, <1>2, <1>4, <1>5 DEF Routers, Good
<1> HIDE DEF t, h, u
<1>7. Sound(t) /\ Knows(t)
  BY <1>1, <1>5, <1>6 DEF Sound, Knows
<1>8. Out(t) = Out(s) /\ Sends(t, ses, m) = Sends(s, ses, m)
  BY <1>6 DEF Out, Sends
<1>9. pre \in Seq(Items) /\ rest \in Seq(Items) /\ Lead(s) \in Seq(Items)
  BY <1>1, LeadTypes DEF Context
<1>10. ASSUME Flow(view, s, pre, rest, ses, m)
       PROVE  Flow(view, t, pre, rest, ses, m)
  <2>1. CASE view = "order"
    <3>1. /\ Ascending((s.wrote \o (u \o q)) \o rest)
          /\ Ascending(pre \o (Out(s) \o <<Coming(ses, m)>>))
      BY <1>2, <1>10, <2>1 DEF Flow
    <3>2. s.wrote \o (u \o q) = (s.wrote \o u) \o q
      <4>1. s.wrote \in Seq(Items) /\ u \in Seq(Items) /\ q \in Seq(Items)
        BY <1>1, <1>2, <1>3
      <4>2. QED
        BY <4>1, Associative
    <3>3. QED
      BY <1>4, <1>6, <1>8, <2>1, <3>1, <3>2 DEF Flow
  <2>4. CASE view = "stream" /\ s.role = "server"
    BY <1>6, <1>8, <1>10, <2>4 DEF Flow
  <2>2. CASE view = "stream" /\ s.role # "server"
    <3>0. s.role = "client"
      BY <1>1, <2>2 DEF Sides
    <3>1. Chain((Lead(s) \o (u \o q)) \o rest) /\ Tuned(s)
      BY <1>2, <1>10, <2>2 DEF Flow
    <3>2. Live(s) /\ Live(t) /\ IsLayerUp(t.conn) /\ w # <<>>
      <4>1. Len(w) # 0
        BY <1>4
      <4>2. w # <<>>
        BY <1>4, <4>1, EmptySeq
      <4>3. QED
        BY <1>5, <1>6, <4>2 DEF Live
    <3>3. Lead(s) = <<Latest(s)>> /\ Lead(t) = u
      BY <1>4, <1>6, <3>2 DEF Lead, Latest, u
    <3>4. /\ u \o q \in Seq(Items) /\ Lead(s) \o (u \o q) \in Seq(Items)
      BY <1>2, <1>3, <1>9, Joined
    <3>5. Chain((u \o q) \o rest)
      BY <1>9, <3>1, <3>4, ChainBehind
    <3>6. Follows(Latest(s), h)
      <4>1. Chain(Lead(s) \o (u \o q))
        BY <1>9, <3>1, <3>4, ChainParts
      <4>2. (u \o q)[1] = h /\ u \o q # <<>>
        <5>1. 1 \in DOMAIN u
          BY <1>3
        <5>2. (u \o q)[1] = h /\ 1 \in DOMAIN (u \o q)
          BY <1>2, <1>3, <5>1, Joined
        <5>3. QED
          BY <5>2
      <4> DEFINE z == <<Latest(s)>>
      <4>3. z \in Seq(Items) /\ z # <<>> /\ z[Len(z)] = Latest(s) /\ Lead(s) = z
        BY <1>1, <3>3, LeadTypes, OneItem
      <4> HIDE DEF z
      <4>4. QED
        BY <3>4, <4>1, <4>2, <4>3, ChainParts
    <3>7. \A i \in DOMAIN w : w[i] = Data(w[1].ses, i)
      <4>0. DOMAIN w = 1 .. Len(w) /\ DOMAIN s.wrote = 1 .. Len(s.wrote) /\ h = Data(h.ses, h.n)
        BY <1>1, <1>2, <1>4 DEF Items, Data
      <4>1. CASE Len(s.wrote) = 0
        <5>1. s.wrote = <<>>
          BY <1>1, <4>1, EmptySeq
        <5>2. h.n = 1
          BY <1>2, <3>6, <5>1 DEF Latest, Opened, Follows
        <5>3. Len(w) = 1
          BY <1>4, <4>1
        <5>4. w[1] = Data(w[1].ses, 1)
          BY <1>4, <4>0, <5>2, <5>3
        <5>5. QED
          BY <4>0, <5>3, <5>4
      <4>2. CASE Len(s.wrote) # 0
        <5> DEFINE n == Len(s.wrote)
        <5>1. n \in DOMAIN s.wrote /\ 1 \in DOMAIN s.wrote /\ n \in Nat \ {0}
          BY <1>4, <4>0, <4>2
        <5>2. s.wrote # <<>>
          BY <1>1, <4>2, EmptySeq
        <5>3. Latest(s) = Data(s.wrote[1].ses, n)
          BY <1>5, <3>1, <5>1, <5>2 DEF Latest, Tuned
        <5>4. h.ses = s.wrote[1].ses /\ h.n = n + 1
          BY <1>2, <3>6, <5>3 DEF Data, Follows
        <5>5. w[1] = s.wrote[1] /\ h = Data(w[1].ses, n + 1)
          BY <1>4, <4>0, <5>1, <5>4
        <5>6. \A i \in 1 .. n : w[i] = Data(w[1].ses, i)
          BY <1>4, <3>1, <4>0, <5>5 DEF Tuned
        <5>7. Len(w) = n + 1 /\ w[n + 1] = h
          BY <1>4
        <5> HIDE DEF n
        <5>8. \A i \in 1 .. n + 1 : i \in 1 .. n \/ i = n + 1
          BY <5>1
        <5>9. QED
          BY <4>0, <5>5, <5>6, <5>7, <5>8
      <4>3. QED
        BY <4>1, <4>2
    <3>8. Tuned(t)
      <4>1. q # <<>> => (s.inst <=> q[Len(q)].type # "closed")
        BY <1>2, <3>1 DEF Tuned
      <4>2. q = <<>> => s.inst
        BY <1>2, <3>1 DEF Tuned
      <4>3. s.remote
        BY <3>1, <3>2 DEF Tuned
      <4>4. QED
        BY <1>6, <3>7, <4>1, <4>2, <4>3 DEF Tuned
    <3>9. Lead(t) \o t.toPhys = u \o q
      BY <1>6, <3>3
    <3>10. QED
      BY <1>6, <2>2, <3>5, <3>8, <3>9 DEF Flow
  <2>3. QED
    BY <2>1, <2>2, <2>4 DEF Views
<1> QED
  BY <1>1, <1>5, <1>6, <1>7, <1>10 DEF Fine, Flows, Counted

\* VtoRouter::CheckForPhysWrite
LEMMA PhysWriteFine ==
  ASSUME NEW s, NEW view \in Views, NEW pre, NEW rest, NEW ses, NEW m, Context(pre, rest, ses, m),
         Fine(view, s, pre, rest, ses, m), NEW how \in Ways(s.role)
  PROVE  LET t == CheckForPhysWrite(s, how, Down(how)) IN Fine(view, t, pre, rest, ses, m) /\ t.role = s.role
<1>1. CASE s.thrown \/ s.toPhys = <<>>
  BY <1>1 DEF CheckForPhysWrite
<1>2. CASE ~s.thrown /\ s.toPhys # <<>> /\ Head(s.toPhys).type # "data"
  <2>1. CheckForPhysWrite(s, how, Down(how)) =
          RemoteConnected([s EXCEPT !.toPhys = Tail(@)], Head(s.toPhys) = Opened, how, Down(how))
    BY <1>2 DEF CheckForPhysWrite
  <2>2. QED
    BY <1>2, <2>1, RemoteFine
<1>3. CASE ~s.thrown /\ s.toPhys # <<>> /\ Head(s.toPhys).type = "data" /\ CanWrite(s.conn)
  <2>1. CheckForPhysWrite(s, how, Down(how)) = Written(s)
    BY <1>3 DEF CheckForPhysWrite, Written
  <2>2. QED
    BY <1>3, <2>1, ChunkWritten
<1>4. CASE ~s.thrown /\ s.toPhys # <<>> /\ Head(s.toPhys).type = "data" /\ ~CanWrite(s.conn)
  BY <1>4 DEF CheckForPhysWrite
<1> QED
  BY <1>1, <1>2, <1>3, <1>4

LEMMA VtoWriteFine ==
  ASSUME NEW s, NEW view \in Views, NEW pre, NEW rest, NEW ses, NEW m, Context(pre, rest, ses, m), Fine(view, s, pre, rest, ses, m)
  PROVE  /\ Fine(view, CheckForVtoWrite(s), pre, rest, ses, m) /\ CheckForVtoWrite(s).role = s.role
         /\ Fine(view, CheckForPhysRead(s), pre, rest, ses, m) /\ CheckForPhysRead(s).role = s.role
<1>1. /\ Sound(CheckForVtoWrite(s)) /\ Alike(s, CheckForVtoWrite(s)) /\ Out(CheckForVtoWrite(s)) = Out(s)
      /\ Sound(CheckForPhysRead(s)) /\ Alike(s, CheckForPhysRead(s)) /\ Out(CheckForPhysRead(s)) = Out(s)
      /\ Sound(s) /\ Knows(s) /\ Flows(view, s, pre, rest, ses, m)
  BY VtoWriteKeeps, PhysReadKeeps DEF Fine
<1> DEFINE v == CheckForVtoWrite(s)
           w == CheckForPhysRead(s)
<1>2. /\ Sound(v) /\ Alike(s, v) /\ Out(v) = Out(s)
      /\ Sound(w) /\ Alike(s, w) /\ Out(w) = Out(s)
  BY <1>1
<1> HIDE DEF v, w
<1>3. Flows(view, v, pre, rest, ses, m) /\ Knows(v) /\ Flows(view, w, pre, rest, ses, m) /\ Knows(w)
  BY <1>1, <1>2, AlikeKeeps
<1>4. Fine(view, v, pre, rest, ses, m) /\ v.role = s.role /\ Fine(view, w, pre, rest, ses, m) /\ w.role = s.role
  BY <1>2, <1>3 DEF Fine, Alike, Counted
<1> QED
  BY <1>4 DEF v, w

\* The callbacks of a router that has no connection now
LEMMA NotConnectedKeeps ==
  ASSUME NEW s, NEW view \in Views, NEW pre, NEW rest, NEW ses, NEW m, Context(pre, rest, ses, m),
         Sound(s), Flows(view, s, pre, rest, ses, m), ~s.thrown, NEW how \in Ways(s.role),
         \/ s.local /\ Quiet(s.role, s.conn)
         \/ ~s.local /\ Knows(s) /\ Counted(s, ses)
  PROVE  /\ Fine(view, NotConnected(s, how, Down(how)), pre, rest, ses, m)
         /\ NotConnected(s, how, Down(how)).role = s.role
<1>1. CASE s.local /\ Quiet(s.role, s.conn)
  BY <1>1, NotConnectedFine
<1>2. CASE ~s.local /\ Knows(s) /\ Counted(s, ses)
  <2> DEFINE t == CheckForPhysWrite(s, how, Down(how))
  <2>1. s.local = FALSE
    BY <1>2, RouterTypes DEF Sound
  <2>2. SetLocalConnected(s, FALSE, how, Down(how)) = s
    BY <2>1 DEF SetLocalConnected
  <2>3. NotConnected(s, how, Down(how)) = CheckForVtoWrite(t)
    BY <2>2 DEF NotConnected
  <2>4. Fine(view, s, pre, rest, ses, m)
    BY <1>2 DEF Fine
  <2>5. Fine(view, t, pre, rest, ses, m) /\ t.role = s.role
    BY <2>4, PhysWriteFine
  <2> HIDE DEF t
  <2>6. QED
    BY <2>3, <2>5, VtoWriteFine
<1> QED
  BY <1>1, <1>2

-----------------------------------------------------------------------------
(* What a router receives *)

LEMMA Onward ==
  ASSUME NEW o \in Objects, NEW rest \in Seq(Items)
  PROVE  <<o>> \in Seq(Items) /\ <<o>> # <<>> /\ <<o>> \o rest \in Seq(Items) /\ <<o>>[1] = o
         /\ o \in Items /\ (o.type # "data" => o \in {Opened, Closing})
         /\ o.type \in {"data", "opened", "closed"}
<1>1. o \in Items
  BY ObjectsAreItems
<1>2. <<o>> \in Seq(Items) /\ <<o>> # <<>> /\ <<o>>[1] = o
  BY <1>1, OneItem
<1>3. <<o>> \o rest \in Seq(Items)
  BY <1>2, Joined
<1>4. o.type # "data" => o \in {Opened, Closing}
  BY DEF Objects, Data
<1> QED
  BY <1>1, <1>2, <1>3, <1>4 DEF Items

\* A router drops an object that it finds out of place.
LEMMA Dropped ==
  ASSUME NEW s \in Routers, NEW view \in Views, NEW pre, NEW rest, NEW ses, NEW m, Context(pre, rest, ses, m), NEW o \in Objects,
         Flow(view, s, pre, <<o>> \o rest, ses, m),
         view = "stream" /\ s.role = "client" => \/ s.toPhys = <<>> /\ ~Live(s)
                                                 \/ o = Closing /\ ~s.inst
  PROVE  Flow(view, s, pre, rest, ses, m)
<1> DEFINE u == <<o>>
<1>1. /\ u \in Seq(Items) /\ rest \in Seq(Items) /\ s.wrote \in Seq(Items) /\ s.toPhys \in Seq(Items)
      /\ s.wrote \o s.toPhys \in Seq(Items) /\ Lead(s) \in Seq(Items) /\ Lead(s) \o s.toPhys \in Seq(Items)
      /\ s.role \in Sides
  BY Onward, RouterTypes, LeadTypes, Joined DEF Context
<1>2. CASE view = "order"
  <2>1. /\ Ascending((s.wrote \o s.toPhys) \o (u \o rest))
        /\ Ascending(pre \o (Out(s) \o <<Coming(ses, m)>>))
    BY <1>2 DEF Flow
  <2> HIDE DEF u
  <2>2. (s.wrote \o s.toPhys) \o (u \o rest) = ((s.wrote \o s.toPhys) \o u) \o rest
    <3>1. s.wrote \o s.toPhys \in Seq(Items) /\ u \in Seq(Items) /\ rest \in Seq(Items)
      BY <1>1
    <3>2. QED
      BY <3>1, Associative
  <2>3. Ascending((s.wrote \o s.toPhys) \o rest)
    BY <1>1, <2>1, <2>2, AscendingWithout
  <2>4. QED
    BY <1>2, <2>1, <2>3 DEF Flow
<1>4. CASE view = "stream" /\ s.role = "server"
  BY <1>4 DEF Flow
<1>3. CASE view = "stream" /\ s.role = "client"
  <2>1. Chain((Lead(s) \o s.toPhys) \o (u \o rest)) /\ Tuned(s)
    BY <1>3 DEF Flow
  <2>2. Chain((Lead(s) \o s.toPhys) \o rest)
    <3>1. CASE s.toPhys = <<>> /\ ~Live(s)
      <4>1. Lead(s) \o s.toPhys = <<>>
        BY <1>1, <3>1, Empty DEF Lead
      <4>2. (Lead(s) \o s.toPhys) \o rest = rest
        BY <1>1, <4>1, Empty
      <4>3. Chain(u \o rest)
        <5>1. u \o rest \in Seq(Items)
          BY <1>1, Joined
        <5>2. QED
          BY <1>1, <2>1, <5>1, ChainParts
      <4>4. Chain(rest)
        <5> HIDE DEF u
        <5>1. QED
          BY <1>1, <4>3, ChainParts
      <4>5. QED
        BY <4>2, <4>4
    <3>2. CASE o = Closing /\ ~s.inst
      <4> DEFINE a == Lead(s) \o s.toPhys
      <4>1. a \in Seq(Items) /\ o \in Items /\ o.type = "closed"
        BY <1>1, <3>2, Onward DEF Closing
      <4>2. a # <<>> => a[Len(a)].type = "closed"
        <5> HAVE a # <<>>
        <5>1. s.toPhys # <<>>
          <6>1. s.toPhys = <<>> => ~Live(s)
            BY <2>1, <3>2 DEF Tuned
          <6>2. s.toPhys = <<>> => a = <<>>
            BY <1>1, <6>1, Empty DEF Lead
          <6>3. QED
            BY <6>2
        <5>2. s.toPhys[Len(s.toPhys)].type = "closed"
          <6>1. s.toPhys[Len(s.toPhys)] \in Items
            BY <1>1, <5>1
          <6>2. QED
            BY <2>1, <3>2, <5>1, <6>1 DEF Tuned, Items
        <5>3. a[Len(a)] = s.toPhys[Len(s.toPhys)]
          <6>1. Len(s.toPhys) \in DOMAIN s.toPhys
            BY <1>1, <5>1
          <6>2. Len(a) = Len(Lead(s)) + Len(s.toPhys) /\ a[Len(Lead(s)) + Len(s.toPhys)] = s.toPhys[Len(s.toPhys)]
            BY <1>1, <6>1, Joined
          <6>3. QED
            BY <6>2
        <5>4. QED
          BY <5>2, <5>3
      <4>3. Chain(a \o (u \o rest))
        BY <2>1
      <4> HIDE DEF a
      <4>4. Chain(a \o rest)
        BY <1>1, <4>1, <4>2, <4>3, ChainWithout
      <4>5. QED
        BY <4>4 DEF a
    <3>3. QED
      BY <1>3, <3>1, <3>2
  <2>3. s.role # "server"
    BY <1>3
  <2>4. QED
    BY <1>3, <2>1, <2>2, <2>3 DEF Flow
<1> QED
  BY <1>1, <1>2, <1>3, <1>4 DEF Sides, Views

\* What a client without a connection drops finds nothing before it.
LEMMA NothingBefore ==
  ASSUME NEW s \in Routers, NEW view \in Views, NEW pre, NEW rest, NEW ses, NEW m, Context(pre, rest, ses, m), NEW o \in Objects,
         Flow(view, s, pre, <<o>> \o rest, ses, m), Knows(s), view = "stream", s.role = "client", ~s.local,
         (o.type = "data" /\ ~s.inst) \/ (o = Opened /\ s.inst)
  PROVE  s.toPhys = <<>> /\ ~Live(s)
<1>0. s.role # "server"
  OBVIOUS
<1>1. Tuned(s) /\ Chain((Lead(s) \o s.toPhys) \o (<<o>> \o rest)) /\ s.conn.flags = {}
  BY <1>0 DEF Flow, Knows
<1>2. ~Live(s)
  BY <1>1 DEF Live, CanClose
<1> DEFINE u == <<o>>
           b == u \o rest
           q == s.toPhys
<1>3. /\ u \in Seq(Items) /\ u # <<>> /\ u[1] = o /\ rest \in Seq(Items) /\ q \in Seq(Items) /\ Lead(s) \in Seq(Items)
      /\ b \in Seq(Items) /\ 1 \in DOMAIN u /\ DOMAIN u = {1}
  BY Onward, OneItem, RouterTypes, LeadTypes DEF Context
<1>4. Lead(s) \o q = q
  BY <1>2, <1>3, Empty DEF Lead
<1>5. Chain(q \o b)
  BY <1>1, <1>4
<1>6. b # <<>> /\ b[1] = o
  <2> HIDE DEF u
  <2>1. 1 \in DOMAIN b /\ b[1] = u[1]
    BY <1>3, Joined
  <2>2. QED
    BY <1>3, <2>1
<1> HIDE DEF u, b
<1>7. SUFFICES ASSUME q # <<>> PROVE FALSE
  BY <1>2
<1>8. Follows(q[Len(q)], o)
  BY <1>3, <1>5, <1>6, <1>7, ChainParts
<1>9. q[Len(q)] \in Items /\ (s.inst <=> q[Len(q)].type # "closed")
  BY <1>1, <1>3, <1>7 DEF Tuned
<1>10. o = Opened => o.type = "opened"
  BY DEF Opened
<1> QED
  BY <1>8, <1>9, <1>10 DEF Follows, Items

\* A router accepts an object.
Accepted(s, o) == [[s EXCEPT !.inst = o.type # "closed"] EXCEPT !.toPhys = Append(@, o)]

LEMMA Accepts ==
  ASSUME NEW s, NEW view \in Views, NEW pre, NEW rest, NEW ses, NEW m, Context(pre, rest, ses, m), NEW o \in Objects,
         Fine(view, s, pre, <<o>> \o rest, ses, m), ~s.thrown,
         NEW how \in Ways(s.role)
  PROVE  LET t == CheckForPhysWrite(Accepted(s, o), how, Down(how)) IN
         Fine(view, t, pre, rest, ses, m) /\ t.role = s.role
<1> DEFINE t == Accepted(s, o)
           b == o.type # "closed"
           q == Append(s.toPhys, o)
           u == <<o>>
<1>1. /\ s \in Routers /\ Sound(s) /\ Knows(s) /\ Flows(view, s, pre, u \o rest, ses, m) /\ s.role \in Sides
      /\ s.thrown = FALSE
  BY RouterTypes DEF Fine, Sound
<1>2. /\ u \in Seq(Items) /\ rest \in Seq(Items) /\ s.wrote \in Seq(Items) /\ s.toPhys \in Seq(Items)
      /\ s.wrote \o s.toPhys \in Seq(Items) /\ Lead(s) \in Seq(Items) /\ Lead(s) \o s.toPhys \in Seq(Items)
      /\ s.toPhys \in Seq(Objects) /\ s.toPhys \o u \in Seq(Items)
  BY <1>1, Onward, RouterTypes, LeadTypes, Joined DEF Context
<1>3. q \in Seq(Objects) /\ q = s.toPhys \o u /\ q # <<>> /\ q[Len(q)] = o
  <2>1. q \in Seq(Objects) /\ q = s.toPhys \o u /\ Len(q) = Len(s.toPhys) + 1 /\ q[Len(s.toPhys) + 1] = o
        /\ Len(s.toPhys) \in Nat
    BY <1>2, AppendProperties, AppendIsConcat
  <2> HIDE DEF q
  <2>2. Len(q) # 0
    BY <2>1
  <2>3. QED
    BY <2>1, <2>2, EmptySeq
<1> HIDE DEF q
<1>4. /\ t \in Routers /\ t.role = s.role /\ t.conn = s.conn /\ t.local = s.local /\ t.inst = b
      /\ t.remote = s.remote /\ t.toPhys = q /\ t.wrote = s.wrote
      /\ t.queue = s.queue /\ t.toVto = s.toVto /\ t.thrown = FALSE
  BY <1>1, <1>3 DEF Routers, Accepted, q
<1> HIDE DEF t, u
<1>5. Sound(t) /\ Knows(t)
  BY <1>1, <1>4 DEF Sound, Knows
<1>6. \A a \in Seq(Items) : (a \o s.toPhys) \o (u \o rest) = (a \o q) \o rest
  <2> TAKE a \in Seq(Items)
  <2> DEFINE p == s.toPhys
  <2>0. a \in Seq(Items) /\ p \in Seq(Items) /\ u \in Seq(Items) /\ rest \in Seq(Items) /\ a \o p \in Seq(Items)
        /\ p \o u \in Seq(Items)
    BY <1>2, Joined
  <2> HIDE DEF p
  <2>1. (a \o p) \o (u \o rest) = ((a \o p) \o u) \o rest
    BY <2>0, Associative
  <2>2. (a \o p) \o u = a \o (p \o u)
    BY <2>0, Associative
  <2>3. QED
    BY <1>3, <2>1, <2>2 DEF p
<1>7. Out(t) = Out(s) /\ Sends(t, ses, m) = Sends(s, ses, m) /\ Lead(t) = Lead(s) /\ (Live(t) <=> Live(s))
  BY <1>4 DEF Out, Sends, Lead, Latest, Live
<1>8. ASSUME Flow(view, s, pre, u \o rest, ses, m)
      PROVE  Flow(view, t, pre, rest, ses, m)
  <2>1. CASE view = "order"
    BY <1>2, <1>4, <1>6, <1>7, <1>8, <2>1 DEF Flow
  <2>4. CASE view = "stream" /\ s.role = "server"
    BY <1>4, <1>7, <1>8, <2>4 DEF Flow
  <2>2. CASE view = "stream" /\ s.role # "server"
    <3>1. Tuned(s) /\ Chain((Lead(s) \o s.toPhys) \o (u \o rest))
      BY <1>8, <2>2 DEF Flow
    <3>2. Tuned(t)
      BY <1>3, <1>4, <1>7, <3>1 DEF Tuned
    <3>3. Chain((Lead(t) \o t.toPhys) \o rest)
      BY <1>2, <1>4, <1>6, <1>7, <3>1
    <3>4. QED
      BY <1>4, <2>2, <3>2, <3>3 DEF Flow
  <2>3. QED
    BY <2>1, <2>2, <2>4 DEF Views
<1>9. Fine(view, t, pre, rest, ses, m) /\ how \in Ways(t.role)
  BY <1>1, <1>4, <1>5, <1>8 DEF Fine, Flows, Counted
<1>10. LET x == CheckForPhysWrite(t, how, Down(how)) IN Fine(view, x, pre, rest, ses, m) /\ x.role = t.role
  BY <1>9, PhysWriteFine
<1> QED
  BY <1>4, <1>10 DEF t

\* HandleReceivingDataWhenRemoteClosed, HandleDuplicateOpen, HandleDuplicateClose
LEMMA ClosesIfConnected ==
  ASSUME NEW s, NEW view \in Views, NEW pre, NEW rest, NEW ses, NEW m, Context(pre, rest, ses, m), NEW o \in Objects,
         Fine(view, s, pre, <<o>> \o rest, ses, m), ~s.thrown, NEW how \in Ways(s.role),
         (o.type = "data" /\ ~s.inst) \/ (o = Opened /\ s.inst) \/ s.role = "server"
  PROVE  LET t == CloseIfConnected(s, how) IN Fine(view, t, pre, rest, ses, m) /\ t.role = s.role
<1>1. s \in Routers /\ s.role \in Sides /\ s.thrown = FALSE
  BY RouterTypes DEF Fine, Sound
<1>2. CASE s.local
  <2> DEFINE f == FlushBuffers(s)
  <2>1. Emptied(s, f)
    BY <1>1, Nothing DEF FlushBuffers, Emptied, Routers
  <2>2. <<o>> \in Seq(Items)
    BY Onward DEF Context
  <2> HIDE DEF f
  <2>3. Fine(view, AskClose(f, how, Down(how)), pre, rest, ses, m) /\ AskClose(f, how, Down(how)).role = s.role
    BY <2>1, <2>2, ClosesFine
  <2>4. CloseIfConnected(s, how) = AskClose(f, how, Down(how))
    BY <1>2 DEF CloseIfConnected, f
  <2>5. QED
    BY <2>3, <2>4
<1>3. CASE ~s.local
  <2>1. view = "stream" /\ s.role = "client" /\ Flow(view, s, pre, <<o>> \o rest, ses, m) => s.toPhys = <<>> /\ ~Live(s)
    BY <1>1, <1>3, NothingBefore DEF Fine
  <2>2. Flows(view, s, pre, rest, ses, m)
    BY <1>1, <2>1, Dropped DEF Fine, Flows
  <2>3. QED
    BY <1>3, <2>2 DEF CloseIfConnected, Fine
<1> QED
  BY <1>2, <1>3

\* OnVtoDataReceived
LEMMA ReceiveFine ==
  ASSUME NEW s, NEW view \in Views, NEW pre, NEW rest, NEW ses, NEW m, Context(pre, rest, ses, m), NEW o \in Objects,
         Fine(view, s, pre, <<o>> \o rest, ses, m), ~s.thrown, NEW how \in Ways(s.role)
  PROVE  LET t == OnVtoDataReceived(s, o, how) IN Fine(view, t, pre, rest, ses, m) /\ t.role = s.role
<1>1. s \in Routers /\ s.role \in Sides /\ s.inst \in BOOLEAN /\ s.local \in BOOLEAN
  BY RouterTypes DEF Fine, Sound
<1>2. /\ o.type # "data" => o \in {Opened, Closing}
      /\ Opened.type = "opened" /\ Closing.type = "closed"
  BY Onward DEF Context, Opened, Closing
<1> DEFINE b == o.type # "closed"
           x == CheckForPhysWrite(Accepted(s, o), how, Down(how))
<1>3. Fine(view, x, pre, rest, ses, m) /\ x.role = s.role
  BY Accepts
<1>4. CASE s.inst <=> o # Opened
  <2>1. CASE o.type = "data"
    <3>1. [s EXCEPT !.inst = b] = s
      <4>1. b = s.inst
        BY <1>1, <1>2, <1>4, <2>1
      <4>2. QED
        BY <1>1, <4>1 DEF Routers
    <3>2. Accepted(s, o) = [s EXCEPT !.toPhys = Append(@, o)]
      BY <3>1 DEF Accepted
    <3>3. OnVtoDataReceived(s, o, how) = x
      BY <1>2, <1>4, <2>1, <3>2 DEF OnVtoDataReceived
    <3> HIDE DEF x
    <3>4. QED
      BY <1>3, <3>3
  <2>2. CASE o = Opened
    <3>1. b = TRUE
      BY <1>2, <2>2
    <3>2. Accepted(s, o) = [[s EXCEPT !.inst = TRUE] EXCEPT !.toPhys = Append(@, o)]
      BY <3>1 DEF Accepted
    <3>3. OnVtoDataReceived(s, o, how) = x
      BY <1>2, <1>4, <2>2, <3>2 DEF OnVtoDataReceived
    <3> HIDE DEF x
    <3>4. QED
      BY <1>3, <3>3
  <2>3. CASE o = Closing
    <3>1. b = FALSE /\ o # Opened
      BY <1>2, <2>3
    <3>2. Accepted(s, o) = [[s EXCEPT !.inst = FALSE] EXCEPT !.toPhys = Append(@, o)]
      BY <3>1 DEF Accepted
    <3>3. OnVtoDataReceived(s, o, how) = x
      BY <1>2, <1>4, <2>3, <3>1, <3>2 DEF OnVtoDataReceived
    <3> HIDE DEF x
    <3>4. QED
      BY <1>3, <3>3
  <2>4. QED
    BY <1>2, <2>1, <2>2, <2>3
<1> HIDE DEF x
<1>5. CASE o.type = "data" /\ ~s.inst
  <2>1. CASE s.local
    <3>1. OnVtoDataReceived(s, o, how) = CloseIfConnected(s, how)
      BY <1>2, <1>5, <2>1 DEF OnVtoDataReceived, HandleReceivingDataWhenRemoteClosed
    <3>2. LET t == CloseIfConnected(s, how) IN Fine(view, t, pre, rest, ses, m) /\ t.role = s.role
      BY <1>5, ClosesIfConnected
    <3>3. QED
      BY <3>1, <3>2
  <2>2. CASE ~s.local
    <3> DEFINE t == [s EXCEPT !.local = FALSE, !.toVto = Append(@, Closing)]
               v == CheckForVtoWrite(t)
    <3>1. view = "stream" /\ s.role = "client" /\ Flow(view, s, pre, <<o>> \o rest, ses, m) => s.toPhys = <<>> /\ ~Live(s)
      BY <1>1, <1>5, <2>2, NothingBefore DEF Fine
    <3>2. Flows(view, s, pre, rest, ses, m) /\ Sound(s) /\ Knows(s)
      BY <1>1, <3>1, Dropped DEF Fine, Flows
    <3>3. Sound(v) /\ Flows(view, v, pre, rest, ses, m) /\ Alike(t, v) /\ t.conn = s.conn
      BY <3>2, Tells
    <3>4. t = [s EXCEPT !.toVto = Append(@, Closing)] /\ t.role = s.role /\ t.local = s.local
      BY <1>1, <2>2 DEF Routers
    <3>5. OnVtoDataReceived(s, o, how) = v
      <4>1. OnVtoDataReceived(s, o, how) = NotifyRemoteSideOfState(s, FALSE)
        BY <1>2, <1>5, <2>2 DEF OnVtoDataReceived, HandleReceivingDataWhenRemoteClosed
      <4>2. NotifyRemoteSideOfState(s, FALSE) = CheckForVtoWrite([s EXCEPT !.toVto = Append(@, Closing)])
        BY DEF NotifyRemoteSideOfState
      <4>3. QED
        BY <3>4, <4>1, <4>2
    <3> HIDE DEF t, v
    <3>6. Knows(v) /\ v.role = s.role
      BY <3>2, <3>3, <3>4 DEF Knows, Alike
    <3>7. QED
      BY <3>3, <3>4, <3>5, <3>6 DEF Fine, Counted, Alike
  <2>3. QED
    BY <2>1, <2>2
<1>6. CASE o = Opened /\ s.inst
  <2>1. OnVtoDataReceived(s, o, how) = CloseIfConnected(s, how)
    BY <1>2, <1>6 DEF OnVtoDataReceived
  <2>2. LET t == CloseIfConnected(s, how) IN Fine(view, t, pre, rest, ses, m) /\ t.role = s.role
    BY <1>6, ClosesIfConnected
  <2>3. QED
    BY <2>1, <2>2
<1>7. CASE o = Closing /\ ~s.inst /\ s.role = "server"
  <2>1. OnVtoDataReceived(s, o, how) = CloseIfConnected(s, how)
    BY <1>2, <1>7 DEF OnVtoDataReceived, HandleDuplicateClose
  <2>2. LET t == CloseIfConnected(s, how) IN Fine(view, t, pre, rest, ses, m) /\ t.role = s.role
    BY <1>7, ClosesIfConnected
  <2>3. QED
    BY <2>1, <2>2
<1>8. CASE o = Closing /\ ~s.inst /\ s.role = "client"
  <2>1. OnVtoDataReceived(s, o, how) = s
    BY <1>2, <1>8 DEF OnVtoDataReceived, HandleDuplicateClose
  <2>2. Flows(view, s, pre, rest, ses, m)
    BY <1>1, <1>8, Dropped DEF Fine, Flows
  <2>3. QED
    BY <2>1, <2>2 DEF Fine
<1> QED
  BY <1>1, <1>2, <1>4, <1>5, <1>6, <1>7, <1>8 DEF Sides

\* VtoReader: one object of a fragment
LEMMA ReceivedFine ==
  ASSUME NEW s, NEW view \in Views, NEW pre, NEW rest, NEW ses, NEW m, Context(pre, rest, ses, m), NEW o \in Objects,
         Fine(view, s, pre, <<o>> \o rest, ses, m), NEW how \in Ways(s.role)
  PROVE  LET t == Received(s, o, how) IN Fine(view, t, pre, rest, ses, m) /\ t.role = s.role
<1>1. s \in Routers /\ s.thrown \in BOOLEAN /\ s.role \in Sides
  BY RouterTypes DEF Fine, Sound
<1>2. CASE s.thrown
  <2>1. view = "stream" /\ s.role = "client" /\ Flow(view, s, pre, <<o>> \o rest, ses, m) =>
          s.toPhys = <<>> /\ ~Live(s)
    <3> HAVE view = "stream" /\ s.role = "client" /\ Flow(view, s, pre, <<o>> \o rest, ses, m)
    <3>1. view # "order" /\ s.role # "server"
      OBVIOUS
    <3>2. Tuned(s)
      BY <3>1 DEF Flow
    <3>3. QED
      BY <1>2, <3>2 DEF Tuned
  <2>2. Flows(view, s, pre, rest, ses, m)
    BY <1>1, <2>1, Dropped DEF Fine, Flows
  <2>3. QED
    BY <1>2, <2>2 DEF Received, Fine
<1>3. CASE ~s.thrown
  <2> DEFINE t == OnVtoDataReceived(s, o, how)
             u == [t EXCEPT !.thrown = FALSE]
  <2>1. Fine(view, t, pre, rest, ses, m) /\ t.role = s.role
    BY <1>3, ReceiveFine
  <2>2. Received(s, o, how) = IF o.type = "data" THEN t ELSE u
    BY <1>3 DEF Received
  <2> HIDE DEF t
  <2>3. /\ t \in Routers /\ u \in Routers
        /\ u.role = t.role /\ u.conn = t.conn /\ u.local = t.local /\ u.inst = t.inst /\ u.remote = t.remote
        /\ u.toPhys = t.toPhys /\ u.wrote = t.wrote /\ u.queue = t.queue /\ u.toVto = t.toVto /\ u.thrown = FALSE
    BY <2>1 DEF Fine, Sound, Routers
  <2> HIDE DEF u
  <2>4. Sound(u) /\ Knows(u)
    BY <2>1, <2>3 DEF Fine, Sound, Knows
  <2>5. Flows(view, u, pre, rest, ses, m)
    <3>1. Flows(view, t, pre, <<>> \o rest, ses, m) /\ <<>> \in Seq(Items)
      BY <2>1, Empty DEF Fine, Context
    <3>2. Out(u) = Out(t) /\ (Live(u) => Live(t) /\ Latest(u) = Latest(t))
      BY <2>3 DEF Out, Live, Latest
    <3>3. QED
      BY <2>3, <3>1, <3>2, FlowKept DEF Flows
  <2>6. Fine(view, u, pre, rest, ses, m)
    BY <2>1, <2>3, <2>4, <2>5 DEF Fine, Counted
  <2>7. QED
    BY <2>1, <2>2, <2>3, <2>6
<1> QED
  BY <1>1, <1>2, <1>3

\* Every set of numbers that is not empty has a least one.
LEMMA LeastNumber ==
  ASSUME NEW T \in SUBSET Nat, T # {}
  PROVE  \E x \in T : \A y \in T : x <= y
<1>1. IsWellFoundedOn(OpToRel(<, Nat), Nat)
  BY NatLessThanWellFounded
<1>2. PICK x \in T : \A y \in T : ~(<<y, x>> \in OpToRel(<, Nat))
  BY <1>1, WFMin
<1>3. \A y \in T : ~(y < x)
  BY <1>2 DEF OpToRel
<1>4. x \in Nat /\ T \subseteq Nat
  OBVIOUS
<1> HIDE <1>1, <1>2
<1> QED BY <1>3, <1>4

\* What is left of the objects of a fragment after the first i of them, and what comes behind them
Remains(objects, i, rest) == SubSeq(objects, i + 1, Len(objects)) \o rest

LEMMA RemainsNext ==
  ASSUME NEW objects \in Seq(Objects), NEW rest \in Seq(Items)
  PROVE  /\ Remains(objects, 0, rest) = objects \o rest
         /\ Remains(objects, Len(objects), rest) = rest
         /\ \A i \in 0 .. Len(objects) : Remains(objects, i, rest) \in Seq(Items)
         /\ \A i \in 1 .. Len(objects) :
              objects[i] \in Objects /\ Remains(objects, i - 1, rest) = <<objects[i]>> \o Remains(objects, i, rest)
<1> DEFINE n == Len(objects)
<1>1. n \in Nat /\ \A i \in 1 .. n : objects[i] \in Objects
  OBVIOUS
<1>2. SubSeq(objects, 0 + 1, n) = objects
  BY SubSeqFull
<1>3. \A i \in 0 .. n : SubSeq(objects, i + 1, n) \in Seq(Items)
  BY Split, ObjectSeqs
<1>4. SubSeq(objects, n + 1, n) = <<>>
  <2>1. n + 1 \in Int /\ n \in Int /\ n < n + 1
    BY <1>1
  <2> HIDE DEF n
  <2>2. QED
    BY <2>1, SubSeqEmpty
<1>5. ASSUME NEW i \in 1 .. n
      PROVE  Remains(objects, i - 1, rest) = <<objects[i]>> \o Remains(objects, i, rest)
  <2>1. i \in 1 .. n /\ n \in i .. n /\ (i - 1) + 1 = i /\ i \in 0 .. n
    BY <1>1
  <2>2. SubSeq(objects, i, n) = <<objects[i]>> \o SubSeq(objects, i + 1, n)
    BY <2>1, SubSeqRecursiveFirst
  <2> DEFINE u == <<objects[i]>>
             v == SubSeq(objects, i + 1, n)
  <2>3. u \in Seq(Items) /\ v \in Seq(Items) /\ rest \in Seq(Items)
    BY <1>1, <1>3, <2>1, ObjectsAreItems, OneItem
  <2> HIDE DEF u, v
  <2>4. (u \o v) \o rest = u \o (v \o rest)
    BY <2>3, Associative
  <2>5. QED
    BY <2>1, <2>2, <2>4 DEF Remains, u, v
<1>6. <<>> \o rest = rest
  BY Empty
<1>7. \A i \in 0 .. n : Remains(objects, i, rest) \in Seq(Items)
  BY <1>3, Joined DEF Remains
<1> QED
  BY <1>1, <1>2, <1>4, <1>5, <1>6, <1>7 DEF Remains

\* The routers that the objects of a fragment lead to, one after the other
Visits(g, s, objects, how, k) ==
  g[0] = s /\ \A i \in 1 .. k : g[i] = Received(g[i - 1], objects[i], how)

\* Update: the whole fragment
LEMMA UpdateFine ==
  ASSUME NEW s, NEW view \in Views, NEW pre, NEW rest, NEW ses, NEW m, Context(pre, rest, ses, m), NEW objects \in Seq(Objects),
         Fine(view, s, pre, objects \o rest, ses, m), NEW how \in Ways(s.role)
  PROVE  LET t == Update(s, objects, how) IN Fine(view, t, pre, rest, ses, m) /\ t.role = s.role
<1> DEFINE n == Len(objects)
           Ok(t, i) == Fine(view, t, pre, Remains(objects, i, rest), ses, m) /\ t.role = s.role
           Upto(k) == \E g : Visits(g, s, objects, how, k) /\ \A i \in 0 .. k : Ok(g[i], i)
           T == {k \in 0 .. n : ~Upto(k)}
           Is(f) == f = [i \in 0 .. n |-> IF i = 0 THEN s ELSE Received(f[i - 1], objects[i], how)]
           after == CHOOSE f : Is(f)
<1>0. n \in Nat /\ rest \in Seq(Items)
  BY DEF Context
<1>1. /\ Remains(objects, 0, rest) = objects \o rest /\ Remains(objects, n, rest) = rest
      /\ \A i \in 0 .. n : Remains(objects, i, rest) \in Seq(Items)
      /\ \A i \in 1 .. n : objects[i] \in Objects /\ Remains(objects, i - 1, rest) = <<objects[i]>> \o Remains(objects, i, rest)
  BY <1>0, RemainsNext
<1>2. ASSUME NEW i \in 1 .. n, NEW t, Ok(t, i - 1)
      PROVE  Ok(Received(t, objects[i], how), i)
  <2>1. i \in 0 .. n
    BY <1>0
  <2>2. /\ Context(pre, Remains(objects, i, rest), ses, m) /\ objects[i] \in Objects
        /\ Fine(view, t, pre, <<objects[i]>> \o Remains(objects, i, rest), ses, m) /\ t.role = s.role
    BY <1>1, <1>2, <2>1 DEF Context
  <2>3. how \in Ways(t.role)
    BY <2>2
  <2>4. LET x == Received(t, objects[i], how) IN Fine(view, x, pre, Remains(objects, i, rest), ses, m) /\ x.role = t.role
    BY <2>2, <2>3, ReceivedFine
  <2>5. QED
    BY <2>2, <2>4
<1>3. Ok(s, 0)
  BY <1>1
<1> HIDE DEF n, Ok
<1>4. Upto(0)
  <2> DEFINE g == [i \in 0 .. 0 |-> s]
  <2>1. g[0] = s /\ (\A i \in 1 .. 0 : FALSE) /\ \A i \in 0 .. 0 : i = 0
    OBVIOUS
  <2> HIDE DEF g
  <2>2. QED
    BY <1>3, <2>1 DEF Visits
<1>5. ASSUME NEW k \in 0 .. n, k + 1 \in 0 .. n, Upto(k)
      PROVE  Upto(k + 1)
  <2>0. /\ k \in 0 .. k /\ k + 1 \in 1 .. n /\ (k + 1) - 1 = k /\ k + 1 \in 0 .. k + 1
        /\ \A i \in 0 .. k + 1 : i # k + 1 => i \in 0 .. k
        /\ \A i \in 1 .. k + 1 : i - 1 \in 0 .. k /\ (i # k + 1 => i \in 1 .. k /\ i \in 0 .. k)
        /\ \A i \in 0 .. k : i \in 0 .. k + 1 /\ i # k + 1
        /\ 0 \in 0 .. k
    <3> k \in 0 .. n /\ k + 1 \in 0 .. n
      BY <1>5
    <3> HIDE <1>5
    <3> HIDE DEF Upto
    <3>1. k \in Nat /\ k + 1 <= n
      BY <1>0
    <3>2. QED
      BY <1>0, <3>1
  <2>1. PICK g : Visits(g, s, objects, how, k) /\ \A i \in 0 .. k : Ok(g[i], i)
    BY <1>5
  <2> DEFINE next == Received(g[k], objects[k + 1], how)
             h == [i \in 0 .. k + 1 |-> IF i = k + 1 THEN next ELSE g[i]]
  <2>2. Ok(next, k + 1)
    BY <1>2, <2>0, <2>1
  <2>3. /\ \A i \in 0 .. k : h[i] = g[i]
        /\ h[k + 1] = next
    BY <2>0
  <2> HIDE DEF h, next
  <2>4. h[0] = s
    BY <2>0, <2>1, <2>3 DEF Visits
  <2>5. ASSUME NEW i \in 1 .. k + 1
        PROVE  h[i] = Received(h[i - 1], objects[i], how)
    <3>1. CASE i = k + 1
      BY <2>0, <2>3, <3>1 DEF next
    <3>2. CASE i # k + 1
      <4>1. i \in 1 .. k /\ i \in 0 .. k /\ i - 1 \in 0 .. k
        BY <2>0, <3>2
      <4>2. QED
        BY <2>1, <2>3, <4>1 DEF Visits
    <3>3. QED
      BY <3>1, <3>2
  <2>6. \A i \in 0 .. k + 1 : Ok(h[i], i)
    BY <2>0, <2>1, <2>2, <2>3
  <2>7. QED
    BY <2>4, <2>5, <2>6 DEF Visits
<1> HIDE DEF Upto
<1>6. T = {}
  <2>1. SUFFICES ASSUME T # {}
                 PROVE  FALSE
    OBVIOUS
  <2>2. T \in SUBSET Nat
    BY <1>0
  <2>3. PICK k \in T : \A j \in T : k <= j
    BY <2>1, <2>2, LeastNumber
  <2>4. k \in 0 .. n /\ ~Upto(k) /\ k # 0
    BY <1>4, <2>3
  <2>5. k - 1 \in 0 .. n /\ (k - 1) + 1 = k /\ ~(k <= k - 1)
    BY <1>0, <2>4
  <2>6. Upto(k - 1)
    BY <2>3, <2>5
  <2>7. QED
    BY <1>5, <2>4, <2>5, <2>6
<1>7. Upto(n) /\ n \in 0 .. n
  BY <1>0, <1>6
<1>8. PICK g : Visits(g, s, objects, how, n) /\ \A i \in 0 .. n : Ok(g[i], i)
  BY <1>7 DEF Upto
<1> DEFINE h == [i \in 0 .. n |-> g[i]]
<1>9. Is(h)
  <2>1. \A i \in 0 .. n : i # 0 => i \in 1 .. n /\ i - 1 \in 0 .. n
    BY <1>0
  <2>2. \A i \in 0 .. n : h[i] = g[i]
    OBVIOUS
  <2>3. 0 \in 0 .. n
    BY <1>0
  <2>4. \A i \in 0 .. n : g[i] = IF i = 0 THEN s ELSE Received(h[i - 1], objects[i], how)
    BY <1>8, <2>1, <2>2 DEF Visits
  <2>5. QED
    BY <2>4
<1>10. Is(after)
  BY <1>9
<1>11. Update(s, objects, how) = after[n]
  BY DEF Update, n
<1>12. /\ after[0] = s
       /\ \A i \in 1 .. n : after[i] = Received(after[i - 1], objects[i], how)
  <2> DEFINE f == after
  <2>1. f = [i \in 0 .. n |-> IF i = 0 THEN s ELSE Received(f[i - 1], objects[i], how)]
    BY <1>10
  <2> HIDE DEF f
  <2>2. 0 \in 0 .. n /\ \A i \in 1 .. n : i \in 0 .. n /\ i # 0
    BY <1>0
  <2>3. f[0] = s /\ \A i \in 1 .. n : f[i] = Received(f[i - 1], objects[i], how)
    BY <2>1, <2>2
  <2>4. QED
    BY <2>3 DEF f
<1> HIDE DEF after, Is
<1>13. Ok(after[n], n)
  <2> DEFINE U == {i \in 0 .. n : ~Ok(after[i], i)}
  <2>1. SUFFICES ASSUME U # {}
                 PROVE  FALSE
    BY <1>7
  <2>2. U \in SUBSET Nat
    BY <1>0
  <2>3. PICK i \in U : \A j \in U : i <= j
    BY <2>1, <2>2, LeastNumber
  <2>4. i \in 0 .. n /\ ~Ok(after[i], i) /\ i # 0
    BY <1>3, <1>12, <2>3
  <2>5. i \in 1 .. n /\ i - 1 \in 0 .. n /\ ~(i <= i - 1)
    BY <1>0, <2>4
  <2>6. Ok(after[i - 1], i - 1)
    BY <2>3, <2>5
  <2>7. QED
    BY <1>2, <1>12, <2>4, <2>5, <2>6
<1> QED
  BY <1>1, <1>11, <1>13 DEF Ok
-----------------------------------------------------------------------------
(* What the callbacks make of a router's connection *)

LEMMA TunnelOpened ==
  ASSUME NEW l, Good(l), NEW r \in Sides, l.state \in TunnelStates(r), "opening" \in l.flags, "closing" \notin l.flags
  PROVE  LET k == OpenSucceeded(l) IN
         /\ Good(k) /\ k.state \in TunnelStates(r) /\ k.bad = l.bad /\ k.flags = {"open"} /\ l.flags = {"opening"}
<1> DEFINE m == Raise(Lower(l, "opening"), "open")
<1>1. l \in Connections /\ StateFlags(l) /\ Good(OpenSucceeded(l))
  BY TunnelFlags, OpenSucceededGood DEF Good
<1>2. l.state \in {"Opening", "OpeningOne"} /\ l.flags = {"opening"}
  BY <1>1 DEF StateFlags, TunnelStates, Sides
<1>3. /\ m \in Connections /\ m.state = l.state /\ m.bad = l.bad /\ m.flags = {"open"}
  BY <1>1, <1>2, FlagFields DEF Flags
<1> HIDE DEF m
<1>4. OpenSucceeded(l) = OnLayerOpen(m)
  BY DEF OpenSucceeded, m
<1>5. OnLayerOpen(m) = IF l.state = "Opening" THEN Goto(m, "Open") ELSE Goto(m, "OpenOne")
  BY <1>2, <1>3 DEF OnLayerOpen
<1>6. \A s \in {"Open", "OpenOne"} : Goto(m, s).state = s /\ Goto(m, s).bad = l.bad /\ Goto(m, s).flags = {"open"}
  BY <1>3, GotoFields DEF States
<1> QED
  BY <1>1, <1>2, <1>4, <1>5, <1>6 DEF TunnelStates, Sides

LEMMA TunnelOpenFailed ==
  ASSUME NEW l, Good(l), NEW r \in Sides, l.state \in TunnelStates(r), "opening" \in l.flags,
         r = "client" \/ "closing" \in l.flags
  PROVE  LET k == OpenFailed(l) IN
         /\ Good(k) /\ k.state \in TunnelStates(r) /\ k.bad = l.bad /\ k.flags = {}
         /\ Quiet(r, k) /\ ~IsLayerUp(l)
<1> DEFINE n == Settle(Lower(l, "opening"))
<1>1. l \in Connections /\ StateFlags(l) /\ Good(OpenFailed(l)) /\ (l.timer <=> l.state = "Waiting")
  BY TunnelFlags, OpenFailedGood DEF Good
<1>2. /\ l.state \in {"Opening", "OpeningOne", "OpeningClosing", "OpeningSuspending"}
      /\ l.flags = {"opening"} \/ l.flags = {"opening", "closing"}
      /\ l.state = "Opening" => r = "server" /\ l.flags = {"opening"}
      /\ l.state = "OpeningClosing" => r = "server"
      /\ l.state \in {"OpeningOne", "OpeningSuspending"} => r = "client"
  BY <1>1 DEF StateFlags, TunnelStates, Sides
<1>3. l.state # "Opening"
  BY <1>2
<1>4. /\ n \in Connections /\ n.state = l.state /\ n.bad = l.bad /\ n.flags = {} /\ n.timer = l.timer
  <2> DEFINE m == Lower(l, "opening")
  <2>1. m \in Connections /\ m.state = l.state /\ m.bad = l.bad /\ m.flags = l.flags \ {"opening"} /\ m.timer = l.timer
    BY <1>1, FlagFields DEF Flags
  <2>2. m.flags = {} \/ m.flags = {"closing"}
    BY <1>2, <2>1
  <2> HIDE DEF m
  <2>3. n = Settle(m)
    BY DEF m
  <2>4. QED
    BY <2>1, <2>2, <2>3, SettleFields DEF Closed
<1> HIDE DEF n
<1>5. OpenFailed(l) = IF l.state = "OpeningClosing" THEN StartOpenTimer(Goto(n, "Waiting")) ELSE Goto(n, "Suspended")
  BY <1>2, <1>3, <1>4 DEF OpenFailed, OnOpenFailure, n
<1>6. /\ Goto(n, "Suspended").state = "Suspended" /\ Goto(n, "Suspended").bad = l.bad /\ Goto(n, "Suspended").flags = {}
      /\ Goto(n, "Waiting") \in Connections /\ Goto(n, "Waiting").timer = n.timer
      /\ Goto(n, "Waiting").state = "Waiting" /\ Goto(n, "Waiting").bad = l.bad /\ Goto(n, "Waiting").flags = {}
  BY <1>4, GotoFields DEF States
<1>7. l.state = "OpeningClosing" =>
        LET k == StartOpenTimer(Goto(n, "Waiting")) IN k.state = "Waiting" /\ k.bad = l.bad /\ k.flags = {}
  BY <1>1, <1>4, <1>6, TimerFields
<1> QED
  BY <1>1, <1>2, <1>3, <1>5, <1>6, <1>7 DEF TunnelStates, Sides, Quiet, IsLayerUp

LEMMA TunnelSettles ==
  ASSUME NEW l \in Connections, NEW r \in Sides, "open" \in l.flags, "opening" \notin l.flags, l.bad = {},
         l.state \in TunnelStates(r), l.state \in {"Open", "OpenOne", "Closing", "Suspending"},
         NEW how \in Ways(r)
  PROVE  LET k == CheckForClose(l, how) IN
         \/ k = l /\ ~Closed(l)
         \/ /\ k.state \in TunnelStates(r) /\ Quiet(r, k) /\ ~IsLayerUp(k)
            /\ r = "client" => k.flags = {} /\ k.bad = {}
            /\ r = "server" => k.state = "Opening" /\ k.bad \in {{}, {"open"}}
<1>1. CASE ~Closed(l)
  BY <1>1 DEF CheckForClose
<1>2. CASE Closed(l)
  <2> DEFINE n == Settle(l)
  <2>1. l.flags \subseteq Flags
    BY DEF Connections
  <2>2. n \in Connections /\ n.state = l.state /\ n.bad = l.bad /\ n.flags = {}
    BY <1>2, <2>1, SettleFields DEF Closed, Flags
  <2> HIDE DEF n
  <2>3. CheckForClose(l, how) = OnLayerClose(n, how)
    BY <1>2 DEF CheckForClose, n
  <2>4. CASE l.state \in {"Open", "Closing"}
    <3> DEFINE g == Goto(n, "Opening")
    <3>1. g \in Connections /\ g.state = "Opening" /\ g.bad = l.bad /\ g.flags = {}
      BY <2>2, GotoFields DEF States
    <3> HIDE DEF g
    <3>2. Raise(g, "opening").state = "Opening" /\ Raise(g, "opening").bad = l.bad /\ Raise(g, "opening").flags = {"opening"}
      BY <3>1, FlagFields DEF Flags
    <3>6. r = "server"
      BY <2>4 DEF TunnelStates, Sides
    <3>3. how \in {"pending", "refused"}
      BY <3>6 DEF Ways
    <3>4. /\ how = "pending" => OnLayerClose(n, how) = Raise(g, "opening")
          /\ how = "refused" => OnLayerClose(n, how) = Error(Raise(g, "opening"), "open")
      BY <2>2, <2>4, <3>1 DEF OnLayerClose, AsyncOpen, g
    <3>7. /\ Error(Raise(g, "opening"), "open").state = "Opening"
          /\ Error(Raise(g, "opening"), "open").flags = {"opening"}
          /\ Error(Raise(g, "opening"), "open").bad = {"open"}
      BY <3>1, <3>2, FlagFields DEF Flags, Error, Connections
    <3>5. QED
      BY <2>3, <3>2, <3>3, <3>4, <3>6, <3>7 DEF TunnelStates, Quiet, IsLayerUp
  <2>5. CASE l.state \in {"OpenOne", "Suspending"}
    <3>1. OnLayerClose(n, how) = Goto(n, "Suspended")
      BY <2>2, <2>5 DEF OnLayerClose
    <3>2. Goto(n, "Suspended").state = "Suspended" /\ Goto(n, "Suspended").bad = l.bad /\ Goto(n, "Suspended").flags = {}
      BY <2>2, GotoFields DEF States
    <3>3. r = "client"
      BY <2>5 DEF TunnelStates, Sides
    <3>4. QED
      BY <2>3, <3>1, <3>2, <3>3 DEF TunnelStates, Quiet, IsLayerUp
  <2>6. QED
    BY <2>4, <2>5
<1> QED
  BY <1>1, <1>2

LEMMA TunnelTransferEnds ==
  ASSUME NEW l, Good(l), l.bad = {}, NEW r \in Sides, l.state \in TunnelStates(r), NEW f \in {"reading", "writing"}, f \in l.flags,
         NEW how \in Ways(r),
         NEW k, \/ k = TransferFailed(l, f, how)
                \/ k = TransferIgnored(l, f, how) /\ "closing" \in l.flags
  PROVE  /\ Good(k) /\ k.state \in TunnelStates(r) /\ IsLayerUp(l)
         /\ \/ IsLayerUp(k) /\ ~CanClose(k) /\ k.bad = {}
            \/ Quiet(r, k) /\ ~IsLayerUp(k) /\ ~CanClose(k) /\ k.bad = {}
            \/ r = "server" /\ k.state = "Opening" /\ ~IsLayerUp(k) /\ k.bad \in {{}, {"open"}}
<1> DEFINE m == Lower(l, f)
           n == Raise(m, "closing")
<1>1. l \in Connections /\ StateFlags(l) /\ Good(k) /\ how \in AllOutcomes
  BY TunnelFlags, TransferGood, WaysAreOutcomes DEF Good
<1>2. l.state \in {"Open", "OpenOne", "Closing", "Suspending"} /\ "open" \in l.flags /\ "opening" \notin l.flags
  BY <1>1 DEF StateFlags, TunnelStates, Sides
<1>3. /\ m \in Connections /\ m.state = l.state /\ m.bad = l.bad /\ m.flags = l.flags \ {f}
      /\ n \in Connections /\ n.state = l.state /\ n.bad = l.bad /\ n.flags = (l.flags \ {f}) \cup {"closing"}
  BY <1>1, FlagFields DEF Flags
<1>4. \/ k = CheckForClose(IF CanClose(m) THEN n ELSE m, how)
      \/ k = CheckForClose(m, how) /\ "closing" \in l.flags
  BY DEF TransferFailed, TransferIgnored
<1> HIDE DEF m, n
<1>5. k = CheckForClose(n, how) \/ (k = CheckForClose(m, how) /\ "closing" \in m.flags)
  BY <1>2, <1>3, <1>4 DEF CanClose
<1>6. ASSUME NEW c \in {m, n}, k = CheckForClose(c, how), "closing" \in c.flags
      PROVE  /\ k.state \in TunnelStates(r)
             /\ \/ IsLayerUp(k) /\ ~CanClose(k) /\ k.bad = {}
                \/ Quiet(r, k) /\ ~IsLayerUp(k) /\ ~CanClose(k) /\ k.bad = {}
                \/ r = "server" /\ k.state = "Opening" /\ ~IsLayerUp(k) /\ k.bad \in {{}, {"open"}}
  <2>1. c \in Connections /\ c.state = l.state /\ c.bad = {} /\ "open" \in c.flags /\ "opening" \notin c.flags
    BY <1>2, <1>3
  <2>2. \/ k = c
        \/ /\ k.state \in TunnelStates(r) /\ Quiet(r, k) /\ ~IsLayerUp(k)
           /\ r = "client" => k.flags = {} /\ k.bad = {}
           /\ r = "server" => k.state = "Opening" /\ k.bad \in {{}, {"open"}}
    BY <1>2, <1>6, <2>1, TunnelSettles
  <2>3. k = c => IsLayerUp(k) /\ ~CanClose(k)
    BY <1>6, <2>1 DEF IsLayerUp, CanClose
  <2>4. r = "client" /\ k.flags = {} => ~CanClose(k)
    BY DEF CanClose
  <2>5. k.state \in TunnelStates(r)
    BY <2>1, <2>2
  <2>6. \/ IsLayerUp(k) /\ ~CanClose(k) /\ k.bad = {}
        \/ Quiet(r, k) /\ ~IsLayerUp(k) /\ ~CanClose(k) /\ k.bad = {}
        \/ r = "server" /\ k.state = "Opening" /\ ~IsLayerUp(k) /\ k.bad \in {{}, {"open"}}
    BY <2>1, <2>2, <2>3, <2>4 DEF Sides
  <2>7. QED
    BY <2>5, <2>6
<1> QED
  BY <1>1, <1>2, <1>3, <1>5, <1>6 DEF IsLayerUp

LEMMA TunnelWriteEnds ==
  ASSUME NEW l, Good(l), NEW f \in {"reading", "writing"}, f \in l.flags, "closing" \notin l.flags,
         NEW r \in Sides, l.state \in TunnelStates(r)
  PROVE  /\ Good(Lower(l, f)) /\ Lower(l, f).state = l.state /\ Lower(l, f).bad = l.bad
         /\ Lower(l, f).flags # {} /\ l.flags # {}
         /\ CanClose(l) /\ CanClose(Lower(l, f)) /\ IsLayerUp(l) /\ IsLayerUp(Lower(l, f))
<1>1. l \in Connections /\ StateFlags(l)
  BY TunnelFlags DEF Good
<1>2. /\ Lower(l, f) \in Connections /\ Lower(l, f).state = l.state /\ Lower(l, f).bad = l.bad
      /\ Lower(l, f).timer = l.timer /\ Lower(l, f).flags = l.flags \ {f}
  BY <1>1, FlagFields DEF Flags
<1>3. "open" \in l.flags
  BY <1>1 DEF StateFlags, TunnelStates, Sides
<1>4. Good(Lower(l, f))
  BY <1>2, <1>3 DEF Good, Fits, Clean, OpeningStates, ClosingOpeningStates, OpenStates, ClosingStates, WaitStates
<1> QED
  BY <1>2, <1>3, <1>4 DEF CanClose, IsLayerUp

LEMMA TunnelTimer ==
  ASSUME NEW l, Good(l), l.bad = {}, NEW r \in Sides, l.state \in TunnelStates(r), l.timer,
         NEW how \in Ways(r)
  PROVE  LET k == OnOpenTimerExpiration(l, how) IN
         /\ Good(k) /\ k.state = "Opening" /\ k.bad \in {{}, {"open"}} /\ k.flags = {"opening"}
         /\ r = "server" /\ l.state = "Waiting" /\ l.flags = {}
<1> DEFINE m == [l EXCEPT !.timer = FALSE]
           g == Goto(m, "Opening")
<1>1. l \in Connections /\ StateFlags(l) /\ l.state = "Waiting" /\ Good(OnOpenTimerExpiration(l, how))
  BY TunnelFlags, OpenTimeoutGood, WaysAreOutcomes DEF Good
<1>2. r = "server" /\ l.flags = {}
  BY <1>1 DEF StateFlags, TunnelStates, Sides
<1>3. m \in Connections /\ m.state = "Waiting" /\ m.bad = l.bad /\ m.flags = {}
  BY <1>1, <1>2 DEF Connections
<1> HIDE DEF m
<1>4. g \in Connections /\ g.state = "Opening" /\ g.bad = l.bad /\ g.flags = {}
  BY <1>3, GotoFields DEF States
<1> HIDE DEF g
<1>5. Raise(g, "opening").state = "Opening" /\ Raise(g, "opening").bad = l.bad /\ Raise(g, "opening").flags = {"opening"}
  BY <1>4, FlagFields DEF Flags
<1>6. how \in {"pending", "refused"}
  BY <1>2 DEF Ways
<1>7. /\ how = "pending" => OnOpenTimerExpiration(l, how) = Raise(g, "opening")
      /\ how = "refused" => OnOpenTimerExpiration(l, how) = Error(Raise(g, "opening"), "open")
  BY <1>3, <1>4 DEF OnOpenTimerExpiration, OnOpenTimeout, AsyncOpen, m, g
<1>8. /\ Error(Raise(g, "opening"), "open").state = "Opening"
      /\ Error(Raise(g, "opening"), "open").flags = {"opening"}
      /\ Error(Raise(g, "opening"), "open").bad = {"open"}
  BY <1>4, <1>5, FlagFields DEF Flags, Error, Connections
<1> QED
  BY <1>1, <1>2, <1>5, <1>6, <1>7, <1>8
-----------------------------------------------------------------------------
(* The two routers together *)

\* What a router was given or still has, and what it sends next: behind the one and before
\* the other come the objects of its peer.
Passed(view, s) == IF view = "stream" /\ s.role = "client" THEN Lead(s) \o s.toPhys
                   ELSE s.wrote \o s.toPhys
Later(view, s, ses, m) == IF view = "stream" /\ s.role = "server" THEN Sends(s, ses, m)
                          ELSE Coming(ses, m)
Ahead(view, b, q) == Passed(view, q) \o b
Beyond(view, b, q, ses, m) == b \o (Out(q) \o <<Later(view, q, ses, m)>>)

Linked(view, r) ==
  Flow(view, side[r], Ahead(view, batch[r], side[Other(r)]),
       Beyond(view, batch[Other(r)], side[Other(r)], session[Other(r)], made[Other(r)]),
       session[r], made[r])

\* What the two routers know, and that the streams are in order from end to end.
TunnelInv(view) ==
  /\ VtoTypeOK
  /\ \A r \in Sides : /\ side[r].role = r /\ ~side[r].thrown
                      /\ Sound(side[r]) /\ Knows(side[r]) /\ Counted(side[r], session[r])
  /\ Covers(view) => \A r \in Sides : Linked(view, r)

LEMMA Others ==
  ASSUME NEW r \in Sides
  PROVE  /\ Other(r) \in Sides /\ Other(r) # r /\ Other(Other(r)) = r
         /\ \A p \in Sides : p = r \/ p = Other(r)
BY DEF Sides, Other

LEMMA ContextTypes ==
  ASSUME NEW view \in Views, NEW q \in Routers, NEW a \in Seq(Objects), NEW b \in Seq(Objects), NEW ses \in Nat, NEW m \in Nat
  PROVE  /\ Passed(view, q) \in Seq(Items) /\ Later(view, q, ses, m) \in Items /\ Out(q) \in Seq(Items)
         /\ Out(q) \o <<Later(view, q, ses, m)>> \in Seq(Items)
         /\ Ahead(view, a, q) \in Seq(Items) /\ Beyond(view, b, q, ses, m) \in Seq(Items)
<1>1. Passed(view, q) \in Seq(Items)
  BY RouterTypes, LeadTypes, Joined DEF Passed
<1>2. Later(view, q, ses, m) \in Items /\ Out(q) \in Seq(Items)
  BY SendsTypes, LeadTypes DEF Later
<1>3. <<Later(view, q, ses, m)>> \in Seq(Items)
  BY <1>2, OneItem
<1>4. Out(q) \o <<Later(view, q, ses, m)>> \in Seq(Items) /\ a \in Seq(Items) /\ b \in Seq(Items)
  BY <1>2, <1>3, Joined, ObjectSeqs
<1> QED
  BY <1>1, <1>2, <1>4, Joined DEF Ahead, Beyond

\* The streams seen from the other side.
LEMMA Reversed ==
  ASSUME NEW view \in Views, NEW p \in Routers, NEW q \in Routers, p.role # q.role,
         NEW a \in Seq(Objects), NEW b \in Seq(Objects),
         NEW sp \in Nat, NEW mp \in Nat, NEW sq \in Nat, NEW mq \in Nat,
         Flow(view, p, Ahead(view, a, q), Beyond(view, b, q, sq, mq), sp, mp),
         view = "stream" /\ q.role = "client" => Tuned(q)
  PROVE  Flow(view, q, Ahead(view, b, p), Beyond(view, a, p, sp, mp), sq, mq)
<1> DEFINE P == Passed(view, p)
           Q == Passed(view, q)
           O == Out(p) \o <<Later(view, p, sp, mp)>>
           U == Out(q) \o <<Later(view, q, sq, mq)>>
<1>1. /\ P \in Seq(Items) /\ Q \in Seq(Items) /\ O \in Seq(Items) /\ U \in Seq(Items)
      /\ a \in Seq(Items) /\ b \in Seq(Items)
  BY ContextTypes, ObjectSeqs
<1>2. /\ Ahead(view, a, q) = Q \o a /\ Beyond(view, b, q, sq, mq) = b \o U
      /\ Ahead(view, b, p) = P \o b /\ Beyond(view, a, p, sp, mp) = a \o O
  BY DEF Ahead, Beyond
<1>3. /\ view = "order" =>
           /\ P = p.wrote \o p.toPhys /\ O = Out(p) \o <<Coming(sp, mp)>>
           /\ Q = q.wrote \o q.toPhys /\ U = Out(q) \o <<Coming(sq, mq)>>
      /\ view = "stream" /\ p.role = "server" /\ q.role = "client" =>
           O = Out(p) \o <<Sends(p, sp, mp)>> /\ Q = Lead(q) \o q.toPhys
      /\ view = "stream" /\ p.role = "client" /\ q.role = "server" =>
           P = Lead(p) \o p.toPhys /\ U = Out(q) \o <<Sends(q, sq, mq)>>
  BY DEF Passed, Later
<1>4. p.role \in Sides /\ q.role \in Sides
  BY RouterTypes
<1> HIDE DEF P, Q, O, U
<1>5. P \o (b \o U) = (P \o b) \o U
  <2>1. P \in Seq(Items) /\ b \in Seq(Items) /\ U \in Seq(Items)
    BY <1>1
  <2>2. QED
    BY <2>1, Associative
<1>6. (Q \o a) \o O = Q \o (a \o O)
  <2>1. Q \in Seq(Items) /\ a \in Seq(Items) /\ O \in Seq(Items)
    BY <1>1
  <2>2. QED
    BY <2>1, Associative
<1>7. CASE view = "order"
  <2>1. Ascending(P \o (b \o U)) /\ Ascending((Q \o a) \o O)
    BY <1>2, <1>3, <1>7 DEF Flow
  <2>2. Ascending((P \o b) \o U) /\ Ascending(Q \o (a \o O))
    BY <1>5, <1>6, <2>1
  <2>3. QED
    BY <1>2, <1>3, <1>7, <2>2 DEF Flow
<1>8. CASE view = "stream" /\ p.role = "server" /\ q.role = "client"
  <2>1. Chain((Q \o a) \o O)
    BY <1>2, <1>3, <1>8 DEF Flow
  <2>2. Chain(Q \o (a \o O))
    BY <1>6, <2>1
  <2>3. QED
    BY <1>2, <1>3, <1>8, <2>2 DEF Flow
<1>9. CASE view = "stream" /\ p.role = "client" /\ q.role = "server"
  <2>1. Chain(P \o (b \o U))
    BY <1>2, <1>3, <1>9 DEF Flow
  <2>2. Chain((P \o b) \o U)
    BY <1>5, <2>1
  <2>3. QED
    BY <1>2, <1>3, <1>9, <2>2 DEF Flow
<1> QED
  BY <1>4, <1>7, <1>8, <1>9 DEF Sides, Views

\* What a router finds when it is called.
LEMMA Here ==
  ASSUME NEW view \in Views, TunnelInv(view), NEW r \in Sides
  PROVE  LET o == Other(r)
             s == side[r]
             q == side[o]
             pre == Ahead(view, batch[r], q)
             rest == Beyond(view, batch[o], q, session[o], made[o]) IN
         /\ s \in Routers /\ q \in Routers /\ s.role = r /\ q.role = o /\ ~s.thrown
         /\ batch[r] \in Seq(Objects) /\ batch[o] \in Seq(Objects)
         /\ session[r] \in Nat /\ session[r] <= MaxSessions /\ made[r] \in Nat
         /\ session[o] \in Nat /\ made[o] \in Nat
         /\ Context(pre, rest, session[r], made[r])
         /\ Fine(view, s, pre, rest, session[r], made[r])
<1> DEFINE o == Other(r)
           s == side[r]
           q == side[o]
<1>1. o \in Sides
  BY Others
<1>2. /\ s \in Routers /\ q \in Routers /\ s.role = r /\ q.role = o /\ ~s.thrown
      /\ batch[r] \in Seq(Objects) /\ batch[o] \in Seq(Objects)
      /\ Sound(s) /\ Knows(s) /\ Counted(s, session[r])
  BY <1>1 DEF TunnelInv, VtoTypeOK
<1>3. /\ session[r] \in Nat /\ session[r] <= MaxSessions /\ made[r] \in Nat
      /\ session[o] \in Nat /\ made[o] \in Nat
  <2>1. session \in [Sides -> 0 .. MaxSessions] /\ made \in [Sides -> Nat] /\ MaxSessions \in Nat
    BY TunnelAssumption DEF TunnelInv, VtoTypeOK
  <2>2. session[r] \in 0 .. MaxSessions /\ session[o] \in 0 .. MaxSessions /\ made[r] \in Nat /\ made[o] \in Nat
    BY <1>1, <2>1
  <2>3. QED
    BY <2>1, <2>2
<1>4. Context(Ahead(view, batch[r], q), Beyond(view, batch[o], q, session[o], made[o]), session[r], made[r])
  BY <1>2, <1>3, ContextTypes DEF Context
<1>5. Flows(view, s, Ahead(view, batch[r], q), Beyond(view, batch[o], q, session[o], made[o]), session[r], made[r])
  BY DEF TunnelInv, Linked, Flows
<1> QED
  BY <1>2, <1>3, <1>4, <1>5 DEF Fine

\* A callback ends: the exception, if there is one, has left the router.
Caught(t) == [t EXCEPT !.thrown = FALSE]

LEMMA CaughtKeeps ==
  ASSUME NEW t, NEW view \in Views, NEW pre, NEW rest, NEW ses, NEW m, Context(pre, rest, ses, m),
         Sound(t), Knows(t), Counted(t, ses)
  PROVE  /\ Caught(t) \in Routers /\ Caught(t).role = t.role /\ ~Caught(t).thrown
         /\ Sound(Caught(t)) /\ Knows(Caught(t)) /\ Counted(Caught(t), ses)
         /\ Flow(view, t, pre, rest, ses, m) => Flow(view, Caught(t), pre, rest, ses, m)
<1> DEFINE c == Caught(t)
<1>0. t \in Routers
  BY DEF Sound
<1>1. /\ c \in Routers /\ c.role = t.role /\ c.conn = t.conn /\ c.local = t.local /\ c.remote = t.remote
      /\ c.inst = t.inst /\ c.toPhys = t.toPhys /\ c.toVto = t.toVto /\ c.queue = t.queue
      /\ c.wrote = t.wrote /\ c.thrown = FALSE
  BY <1>0 DEF Caught, Routers
<1> HIDE DEF c
<1>2. Sound(c) /\ Knows(c) /\ Counted(c, ses)
  BY <1>1 DEF Sound, Knows, Counted
<1>3. ASSUME Flow(view, t, pre, rest, ses, m)
      PROVE  Flow(view, c, pre, rest, ses, m)
  <2>1. rest \in Seq(Items)
    BY DEF Context
  <2>2. <<>> \o rest = rest /\ <<>> \in Seq(Items)
    BY <2>1, Empty, Nothing
  <2>3. Flow(view, t, pre, <<>> \o rest, ses, m)
    BY <1>3, <2>2
  <2>4. Out(c) = Out(t) /\ Live(c) = Live(t) /\ Latest(c) = Latest(t)
    BY <1>1 DEF Out, Live, Latest
  <2>5. QED
    BY <1>0, <1>1, <2>2, <2>3, <2>4, FlowKept
<1> QED
  BY <1>1, <1>2, <1>3 DEF c

\* A step of side r.
LEMMA TunnelStep ==
  ASSUME NEW view \in Views, TunnelInv(view), NEW r \in Sides, NEW t, side' = [side EXCEPT ![r] = Caught(t)],
         t.role = r,
         batch' \in [Sides -> Seq(Objects)], \A p \in Sides : Len(batch'[p]) <= BatchSize,
         session' \in [Sides -> 0 .. MaxSessions], made' \in [Sides -> Nat],
         repeats' \in 0 .. MaxMishaps, drops' \in 0 .. MaxMishaps, Covers(view)' => Covers(view),
         dead' \subseteq Sides,
         session'[Other(r)] = session[Other(r)], made'[Other(r)] = made[Other(r)],
         Sound(t), Knows(t), Counted(t, session'[r]),
         Covers(view)' =>
           Flow(view, t, Ahead(view, batch'[r], side[Other(r)]),
                Beyond(view, batch'[Other(r)], side[Other(r)], session[Other(r)], made[Other(r)]),
                session'[r], made'[r])
  PROVE  TunnelInv(view)'
<1> DEFINE o == Other(r)
           s == side[r]
           q == side[o]
           c == Caught(t)
           a == batch'[r]
           b == batch'[o]
           pre == Ahead(view, a, q)
           rest == Beyond(view, b, q, session[o], made[o])
<1>1. /\ o \in Sides /\ o # r /\ Other(o) = r /\ \A p \in Sides : p = r \/ p = o
  BY Others
<1>2. /\ q \in Routers /\ q.role = o /\ a \in Seq(Objects) /\ b \in Seq(Objects)
      /\ session'[r] \in Nat /\ made'[r] \in Nat /\ session[o] \in Nat /\ made[o] \in Nat
  <2>1. session'[r] \in 0 .. MaxSessions /\ made'[r] \in Nat /\ MaxSessions \in Nat
    BY TunnelAssumption
  <2>2. QED
    BY <1>1, <2>1, Here
<1>3. Context(pre, rest, session'[r], made'[r])
  BY <1>2, ContextTypes DEF Context
<1>4. /\ Sound(c) /\ Knows(c) /\ Counted(c, session'[r]) /\ c.role = r /\ ~c.thrown /\ c \in Routers
      /\ Flow(view, t, pre, rest, session'[r], made'[r]) => Flow(view, c, pre, rest, session'[r], made'[r])
  BY <1>3, CaughtKeeps
<1>5. side'[r] = c /\ side'[o] = q /\ side' \in [Sides -> Routers]
  BY <1>1, <1>4 DEF TunnelInv, VtoTypeOK
<1>6. VtoTypeOK'
  BY <1>5 DEF VtoTypeOK
<1>7. \A p \in Sides : /\ side'[p].role = p /\ ~side'[p].thrown
                       /\ Sound(side'[p]) /\ Knows(side'[p]) /\ Counted(side'[p], session'[p])
  <2>1. /\ side'[r].role = r /\ ~side'[r].thrown
        /\ Sound(side'[r]) /\ Knows(side'[r]) /\ Counted(side'[r], session'[r])
    BY <1>4, <1>5
  <2>2. /\ side'[o].role = o /\ ~side'[o].thrown
        /\ Sound(side'[o]) /\ Knows(side'[o]) /\ Counted(side'[o], session'[o])
    BY <1>1, <1>5 DEF TunnelInv
  <2>3. QED
    BY <1>1, <2>1, <2>2
<1>8. ASSUME Covers(view)'
      PROVE  \A p \in Sides : Linked(view, p)'
  <2>1. Flow(view, c, pre, rest, session'[r], made'[r]) /\ Covers(view)
    BY <1>4, <1>8
  <2>2. view = "stream" /\ o = "client" => Tuned(q)
    BY <1>1, <1>2, <2>1 DEF TunnelInv, Linked, Flow
  <2>3. Linked(view, r)'
    BY <1>1, <1>5, <2>1 DEF Linked
  <2>4. Flow(view, q, Ahead(view, b, c), Beyond(view, a, c, session'[r], made'[r]), session[o], made[o])
    BY <1>1, <1>2, <1>4, <2>1, <2>2, Reversed
  <2>5. Linked(view, o)'
    BY <1>1, <1>5, <2>4 DEF Linked
  <2>6. QED
    BY <1>1, <2>3, <2>5
<1> QED
  BY <1>6, <1>7, <1>8 DEF TunnelInv

\* A callback that leaves the stack's objects alone.
LEMMA CallbackStep ==
  ASSUME NEW view \in Views, TunnelInv(view), NEW r \in Sides, NEW t, Returns(r, t), t.role = r, UNCHANGED <<batch, repeats, drops>>,
         session' \in [Sides -> 0 .. MaxSessions], made' \in [Sides -> Nat],
         session'[Other(r)] = session[Other(r)], made'[Other(r)] = made[Other(r)],
         Fine(view, t, Ahead(view, batch[r], side[Other(r)]),
              Beyond(view, batch[Other(r)], side[Other(r)], session[Other(r)], made[Other(r)]),
              session'[r], made'[r])
  PROVE  TunnelInv(view)'
<1>1. side' = [side EXCEPT ![r] = Caught(t)] /\ dead' \subseteq Sides
  BY DEF Returns, Leaves, Caught, TunnelInv, VtoTypeOK
<1>2. /\ batch' \in [Sides -> Seq(Objects)] /\ \A p \in Sides : Len(batch'[p]) <= BatchSize
      /\ repeats' \in 0 .. MaxMishaps /\ repeats' = repeats /\ batch' = batch
      /\ drops' \in 0 .. MaxMishaps /\ drops' = drops /\ (Covers(view)' <=> Covers(view))
  BY DEF TunnelInv, VtoTypeOK, Covers
<1>3. /\ Sound(t) /\ Knows(t) /\ Counted(t, session'[r])
      /\ Covers(view) =>
           Flow(view, t, Ahead(view, batch[r], side[Other(r)]),
                Beyond(view, batch[Other(r)], side[Other(r)], session[Other(r)], made[Other(r)]),
                session'[r], made'[r])
  BY DEF Fine, Flows
<1> QED
  BY <1>1, <1>2, <1>3, TunnelStep
-----------------------------------------------------------------------------
(* What the callbacks of the tunnel do *)

LEMMA WithFields ==
  ASSUME NEW s \in Routers, NEW k \in Connections
  PROVE  LET u == [s EXCEPT !.conn = k] IN
         /\ u \in Routers /\ u.conn = k /\ u.role = s.role /\ u.local = s.local /\ u.remote = s.remote
         /\ u.inst = s.inst /\ u.toPhys = s.toPhys /\ u.toVto = s.toVto /\ u.queue = s.queue
         /\ u.wrote = s.wrote /\ u.thrown = s.thrown /\ Out(u) = Out(s)
BY DEF Routers, Out

\* The flows of a router of which only the connection has changed.
LEMMA FlowsWith ==
  ASSUME NEW s \in Routers, NEW k \in Connections, NEW view \in Views, NEW pre, NEW rest, NEW ses, NEW m, Context(pre, rest, ses, m),
         Flows(view, s, pre, rest, ses, m), ~s.thrown, s.role = "client" => ~CanClose(k)
  PROVE  Flows(view, [s EXCEPT !.conn = k], pre, rest, ses, m)
<1> DEFINE u == [s EXCEPT !.conn = k]
<1>1. /\ u \in Routers /\ u.conn = k /\ u.role = s.role /\ u.local = s.local /\ u.remote = s.remote
      /\ u.inst = s.inst /\ u.toPhys = s.toPhys /\ u.wrote = s.wrote /\ ~u.thrown /\ Out(u) = Out(s)
  BY WithFields
<1> HIDE DEF u
<1>2. ASSUME Covers(view)
      PROVE  Flow(view, u, pre, rest, ses, m)
  <2>1. Flow(view, s, pre, rest, ses, m) /\ rest \in Seq(Items)
    BY <1>2 DEF Flows, Context
  <2>2. <<>> \o rest = rest /\ <<>> \in Seq(Items)
    BY <2>1, Empty, Nothing
  <2>3. Flow(view, s, pre, <<>> \o rest, ses, m)
    BY <2>1, <2>2
  <2>4. u.role = "client" => ~Live(u)
    BY <1>1 DEF Live
  <2>5. QED
    BY <1>1, <2>2, <2>3, <2>4, FlowKept
<1> QED
  BY <1>2 DEF Flows, u

\* _OnSendSuccess
LEMMA WriteCallbackKeeps ==
  ASSUME NEW view \in Views, TunnelInv(view), NEW r \in Sides, NEW how \in Ways(r), WriteCallback(r, how)
  PROVE  TunnelInv(view)'
<1> DEFINE o == Other(r)
           s == side[r]
           l == s.conn
           u == With(r, Lower(l, "writing"))
           t == CheckForPhysWrite(u, how, Down(how))
           pre == Ahead(view, batch[r], side[o])
           rest == Beyond(view, batch[o], side[o], session[o], made[o])
<1>1. /\ Context(pre, rest, session[r], made[r]) /\ Fine(view, s, pre, rest, session[r], made[r])
      /\ s \in Routers /\ s.role = r /\ ~s.thrown
  BY Here
<1>2. "writing" \in l.flags /\ "closing" \notin l.flags /\ Returns(r, t) /\ UNCHANGED <<batch, session, made, repeats, drops>>
  BY DEF WriteCallback
<1>3. /\ Good(Lower(l, "writing")) /\ Lower(l, "writing").state = l.state /\ Lower(l, "writing").bad = l.bad
      /\ Lower(l, "writing").flags # {} /\ l.flags # {}
      /\ CanClose(l) /\ CanClose(Lower(l, "writing")) /\ IsLayerUp(l) /\ IsLayerUp(Lower(l, "writing"))
  BY <1>1, <1>2, TunnelWriteEnds DEF Fine, Sound
<1>4. /\ u \in Routers /\ u.conn = Lower(l, "writing") /\ u.role = s.role /\ u.local = s.local /\ u.remote = s.remote
      /\ u.inst = s.inst /\ u.toPhys = s.toPhys /\ u.wrote = s.wrote /\ u.thrown = s.thrown /\ Out(u) = Out(s)
  BY <1>1, <1>3, WithFields DEF With, Good
<1> HIDE DEF u
<1>5. Sound(u) /\ Alike(s, u) /\ Counted(u, session[r])
  BY <1>1, <1>3, <1>4 DEF Sound, Alike, Live, Fine, Counted
<1>6. Fine(view, u, pre, rest, session[r], made[r]) /\ u.role = r
  BY <1>1, <1>4, <1>5, AlikeKeeps DEF Fine
<1> HIDE DEF pre, rest
<1>7. Fine(view, t, pre, rest, session[r], made[r]) /\ t.role = r
  BY <1>1, <1>6, PhysWriteFine
<1> HIDE DEF t
<1>8. /\ session' \in [Sides -> 0 .. MaxSessions] /\ made' \in [Sides -> Nat]
      /\ session' = session /\ made' = made
  BY <1>2 DEF TunnelInv, VtoTypeOK
<1> QED
  BY <1>2, <1>7, <1>8, CallbackStep DEF pre, rest

\* An event of the layer that leaves the connection k to the router s.
Heard(s, k, how) ==
  /\ how \in Ways(s.role) /\ "open" \notin s.conn.bad
  /\ Good(k) /\ k.state \in TunnelStates(s.role) /\ k.bad \in {{}, {"open"}}
  /\ s.role = "client" => ~CanClose(k) /\ k.bad = {}
  /\ k.bad # {} => k.state = "Opening" /\ ~IsLayerUp(k)
  /\ IsLayerUp(k) => IsLayerUp(s.conn)
  /\ IsLayerUp(s.conn) /\ ~IsLayerUp(k) => Quiet(s.role, k)
  /\ ~IsLayerUp(s.conn) => s.role = "server" /\ ~s.local

\* The router t that is left is as it should be.
FineAfter(view, t, s, pre, rest, ses, m) == Fine(view, t, pre, rest, ses, m) /\ t.role = s.role

\* The router hears that its connection is down, unless the attempt to listen again was refused.
LEMMA EventFine ==
  ASSUME NEW s, NEW view \in Views, NEW pre, NEW rest, NEW ses, NEW m, Context(pre, rest, ses, m),
         Fine(view, s, pre, rest, ses, m), ~s.thrown, NEW how, NEW k, Heard(s, k, how),
         NEW t, t = Asked(s, k, FALSE, Down(how))
  PROVE  FineAfter(view, t, s, pre, rest, ses, m)
<1> DEFINE c == [k EXCEPT !.bad = @ \cup s.conn.bad]
           x == [s EXCEPT !.conn = c]
           u == [x EXCEPT !.thrown = TRUE]
<1> SUFFICES Fine(view, t, pre, rest, ses, m) /\ t.role = s.role
  BY DEF FineAfter
<1>0. /\ how \in Ways(s.role) /\ "open" \notin s.conn.bad
      /\ Good(k) /\ k.state \in TunnelStates(s.role) /\ k.bad \in {{}, {"open"}}
      /\ s.role = "client" => ~CanClose(k) /\ k.bad = {}
      /\ k.bad # {} => k.state = "Opening" /\ ~IsLayerUp(k)
      /\ IsLayerUp(k) => IsLayerUp(s.conn)
      /\ IsLayerUp(s.conn) /\ ~IsLayerUp(k) => Quiet(s.role, k)
      /\ ~IsLayerUp(s.conn) => s.role = "server" /\ ~s.local
  BY DEF Heard
<1>1. /\ s \in Routers /\ Sound(s) /\ Knows(s) /\ Counted(s, ses) /\ Flows(view, s, pre, rest, ses, m)
      /\ s.role \in Sides
  BY RouterTypes DEF Fine, Sound
<1>2. /\ Good(c) /\ c.bad \subseteq {"close", "open"} /\ c.bad = k.bad \cup s.conn.bad /\ c.state = k.state
      /\ c.flags = k.flags /\ c \in Connections
  BY <1>0, <1>1, AfterRequest
<1> HIDE DEF c
<1>3. /\ x \in Routers /\ x.conn = c /\ x.role = s.role /\ x.local = s.local /\ ~x.thrown
  BY <1>1, <1>2, WithFields
<1>4. Flows(view, x, pre, rest, ses, m)
  BY <1>0, <1>1, <1>2, FlowsWith DEF CanClose
<1>5. /\ u \in Routers /\ u.conn = c /\ u.role = s.role /\ u.local = s.local
      /\ u.inst = x.inst /\ u.toPhys = x.toPhys /\ u.remote = x.remote /\ u.wrote = x.wrote
      /\ u.queue = x.queue /\ u.toVto = x.toVto
  BY <1>3 DEF Routers
<1> HIDE DEF x, u
<1>6. "open" \in c.bad => s.role = "server" /\ c.state = "Opening"
  BY <1>0, <1>1, <1>2 DEF Sides
<1>7. Sound(x) /\ Sound(u)
  BY <1>0, <1>1, <1>2, <1>3, <1>5, <1>6 DEF Sound
<1>8. CASE k.bad # {}
  <2>1. t = u
    BY <1>8 DEF Asked, u, x, c
  <2>2. s.role = "server" /\ ~IsLayerUp(c) /\ "open" \in c.bad
    BY <1>0, <1>1, <1>2, <1>8 DEF IsLayerUp, Sides
  <2>3. Flows(view, u, pre, rest, ses, m)
    <3>1. Flows(view, x, pre, <<>> \o rest, ses, m) /\ <<>> \in Seq(Items)
      BY <1>4, Empty, Nothing DEF Context
    <3>2. Out(u) = Out(x) /\ x.role = "server" /\ u.role = "server"
      BY <1>3, <1>5, <2>2 DEF Out
    <3>3. QED
      BY <1>3, <1>5, <3>1, <3>2, FlowKept DEF Flows
  <2>4. Knows(u) /\ Counted(u, ses)
    BY <1>5, <2>2 DEF Knows, Counted
  <2>5. QED
    BY <1>5, <1>7, <2>1, <2>3, <2>4 DEF Fine
<1>9. CASE k.bad = {} /\ IsLayerUp(s.conn) /\ ~IsLayerUp(k)
  <2>1. t = Down(how)[x]
    BY <1>9 DEF Asked, x, c
  <2>2. Down(how)[x] = NotConnected(x, how, TooDeep)
    BY <1>3, DownIs
  <2>3. s.local
    BY <1>1, <1>9 DEF Knows, IsLayerUp
  <2>4. Quiet(x.role, x.conn) /\ how \in Ways(x.role) /\ x.local
    BY <1>0, <1>2, <1>3, <1>9, <2>3 DEF Quiet
  <2>5. /\ Fine(view, NotConnected(x, how, TooDeep), pre, rest, ses, m)
        /\ NotConnected(x, how, TooDeep).role = x.role
    BY <1>3, <1>4, <1>7, <2>4, NotConnectedFine
  <2>6. QED
    BY <1>3, <2>1, <2>2, <2>5
<1>10. CASE k.bad = {} /\ ~(IsLayerUp(s.conn) /\ ~IsLayerUp(k))
  <2>1. t = x
    BY <1>10 DEF Asked, x, c
  <2>2. IsLayerUp(x.conn) <=> IsLayerUp(s.conn)
    BY <1>0, <1>2, <1>3, <1>10 DEF IsLayerUp
  <2>3. CASE IsLayerUp(s.conn)
    <3>1. s.local /\ x.conn.flags # {} /\ Counted(x, ses)
      BY <1>1, <2>2, <2>3 DEF Knows, IsLayerUp, Counted
    <3>2. Knows(x)
      BY <1>3, <2>2, <2>3, <3>1 DEF Knows
    <3>3. QED
      BY <1>3, <1>4, <1>7, <2>1, <3>1, <3>2 DEF Fine
  <2>4. CASE ~IsLayerUp(s.conn)
    <3>1. Knows(x) /\ Counted(x, ses)
      BY <1>0, <1>3, <2>2, <2>4 DEF Knows, Counted
    <3>2. QED
      BY <1>3, <1>4, <1>7, <2>1, <3>1 DEF Fine
  <2>5. QED
    BY <2>3, <2>4
<1> QED
  BY <1>8, <1>9, <1>10

\* _OnOpenTimer
LEMMA OpenTimerKeeps ==
  ASSUME NEW view \in Views, TunnelInv(view), NEW r \in Sides, NEW how \in Ways(r), OpenTimerCallback(r, how)
  PROVE  TunnelInv(view)'
<1> DEFINE o == Other(r)
           s == side[r]
           l == Calm(s)
           k == OnOpenTimerExpiration(l, how)
           t == Asked(s, k, FALSE, Down(how))
           pre == Ahead(view, batch[r], side[o])
           rest == Beyond(view, batch[o], side[o], session[o], made[o])
<1>1. /\ Context(pre, rest, session[r], made[r]) /\ Fine(view, s, pre, rest, session[r], made[r])
      /\ s \in Routers /\ s.role = r /\ ~s.thrown /\ Sound(s) /\ Knows(s)
  BY Here DEF Fine
<1>2. s.conn.timer /\ Returns(r, t) /\ UNCHANGED <<batch, session, made, repeats, drops>>
  BY DEF OpenTimerCallback
<1>3. /\ Good(l) /\ l.bad = {} /\ l.state = s.conn.state /\ l.flags = s.conn.flags /\ l.state \in TunnelStates(r)
      /\ l.timer
  BY <1>1, <1>2, CalmFacts DEF Calm, Routers, Connections
<1> HIDE DEF l
<1>4. /\ Good(k) /\ k.state = "Opening" /\ k.bad \in {{}, {"open"}} /\ k.flags = {"opening"}
      /\ r = "server" /\ l.state = "Waiting" /\ l.flags = {}
  BY <1>3, TunnelTimer
<1> HIDE DEF k
<1>5. ~IsLayerUp(s.conn) /\ ~IsLayerUp(k) /\ "open" \notin s.conn.bad /\ ~s.local
  BY <1>1, <1>3, <1>4 DEF IsLayerUp, Sound, Knows
<1>6. Heard(s, k, how)
  BY <1>1, <1>4, <1>5 DEF TunnelStates, Heard
<1> HIDE DEF pre, rest
<1>7. t = Asked(s, k, FALSE, Down(how))
  OBVIOUS
<1> HIDE DEF s, t
<1>8. FineAfter(view, t, s, pre, rest, session[r], made[r])
  BY <1>1, <1>6, <1>7, EventFine
<1>9. Fine(view, t, pre, rest, session[r], made[r]) /\ t.role = r
  BY <1>1, <1>8 DEF FineAfter
<1>10. /\ session' \in [Sides -> 0 .. MaxSessions] /\ made' \in [Sides -> Nat]
      /\ session' = session /\ made' = made
  BY <1>2 DEF TunnelInv, VtoTypeOK
<1> QED
  BY <1>2, <1>9, <1>10, CallbackStep DEF pre, rest

\* _OnOpenFailure
LEMMA OpenFailureKeeps ==
  ASSUME NEW view \in Views, TunnelInv(view), NEW r \in Sides, NEW how \in Ways(r), OpenFailureCallback(r, how)
  PROVE  TunnelInv(view)'
<1> DEFINE o == Other(r)
           s == side[r]
           l == s.conn
           k == OpenFailed(l)
           u == With(r, k)
           t == NotConnected(u, how, Down(how))
           pre == Ahead(view, batch[r], side[o])
           rest == Beyond(view, batch[o], side[o], session[o], made[o])
<1>1. /\ Context(pre, rest, session[r], made[r]) /\ Fine(view, s, pre, rest, session[r], made[r])
      /\ s \in Routers /\ s.role = r /\ ~s.thrown
  BY Here
<1>2. /\ "opening" \in l.flags /\ "open" \notin l.bad /\ (r = "client" \/ "closing" \in l.flags)
      /\ Returns(r, t) /\ UNCHANGED <<batch, session, made, repeats, drops>>
  BY DEF OpenFailureCallback, Attempt
<1>3. /\ Good(k) /\ k.state \in TunnelStates(r) /\ k.bad = l.bad /\ k.flags = {}
      /\ Quiet(r, k) /\ ~IsLayerUp(l)
  BY <1>1, <1>2, TunnelOpenFailed DEF Fine, Sound
<1> HIDE DEF k
<1>4. ~CanClose(k) /\ ~IsLayerUp(k)
  BY <1>3 DEF CanClose, IsLayerUp
<1>5. /\ u \in Routers /\ u.conn = k /\ u.role = s.role /\ u.local = s.local /\ u.thrown = s.thrown
  BY <1>1, <1>3, WithFields DEF With, Good
<1>6. Flows(view, u, pre, rest, session[r], made[r])
  BY <1>1, <1>3, <1>4, FlowsWith DEF With, Fine, Good
<1> HIDE DEF u
<1>7. Sound(u)
  BY <1>1, <1>2, <1>3, <1>5 DEF Fine, Sound
<1>8. \/ u.local /\ Quiet(u.role, u.conn)
      \/ ~u.local /\ Knows(u) /\ Counted(u, session[r])
  <2>1. CASE r = "client"
    <3>1. s.local
      BY <1>1, <1>2, <2>1 DEF Fine, Knows
    <3>2. QED
      BY <1>1, <1>3, <1>5, <3>1
  <2>2. CASE r # "client"
    <3>1. ~s.local
      BY <1>1, <1>2, <1>3, <2>2 DEF Fine, Knows
    <3>2. QED
      BY <1>1, <1>4, <1>5, <2>2, <3>1 DEF Knows, Counted
  <2>3. QED
    BY <2>1, <2>2
<1> HIDE DEF pre, rest
<1>9. Fine(view, t, pre, rest, session[r], made[r]) /\ t.role = r
  BY <1>1, <1>5, <1>6, <1>7, <1>8, NotConnectedKeeps
<1> HIDE DEF t
<1>10. /\ session' \in [Sides -> 0 .. MaxSessions] /\ made' \in [Sides -> Nat]
       /\ session' = session /\ made' = made
  BY <1>2 DEF TunnelInv, VtoTypeOK
<1> QED
  BY <1>2, <1>9, <1>10, CallbackStep DEF pre, rest

\* _OnReceive and _OnSendSuccess of a transfer that failed or that the layer ignores
LEMMA TransferEndKeeps ==
  ASSUME NEW view \in Views, TunnelInv(view), NEW r \in Sides, NEW f \in {"reading", "writing"}, NEW failed \in BOOLEAN,
         NEW how \in Ways(r), TransferEndCallback(r, f, failed, how)
  PROVE  TunnelInv(view)'
<1> DEFINE o == Other(r)
           s == side[r]
           l == Calm(s)
           k == IF failed THEN TransferFailed(l, f, how) ELSE TransferIgnored(l, f, how)
           t == Asked(s, k, FALSE, Down(how))
           pre == Ahead(view, batch[r], side[o])
           rest == Beyond(view, batch[o], side[o], session[o], made[o])
<1>1. /\ Context(pre, rest, session[r], made[r]) /\ Fine(view, s, pre, rest, session[r], made[r])
      /\ s \in Routers /\ s.role = r /\ ~s.thrown /\ Sound(s)
  BY Here DEF Fine
<1>2. /\ f \in s.conn.flags /\ (failed \/ "closing" \in s.conn.flags)
      /\ Returns(r, t) /\ UNCHANGED <<batch, session, made, repeats, drops>>
  BY DEF TransferEndCallback
<1>3. /\ Good(l) /\ l.bad = {} /\ l.state = s.conn.state /\ l.flags = s.conn.flags /\ l.state \in TunnelStates(r)
  BY <1>1, CalmFacts
<1> HIDE DEF l
<1>4. \/ k = TransferFailed(l, f, how)
      \/ k = TransferIgnored(l, f, how) /\ "closing" \in l.flags
  BY <1>2, <1>3
<1> HIDE DEF k
<1>5. /\ Good(k) /\ k.state \in TunnelStates(r) /\ IsLayerUp(l)
      /\ \/ IsLayerUp(k) /\ ~CanClose(k) /\ k.bad = {}
         \/ Quiet(r, k) /\ ~IsLayerUp(k) /\ ~CanClose(k) /\ k.bad = {}
         \/ r = "server" /\ k.state = "Opening" /\ ~IsLayerUp(k) /\ k.bad \in {{}, {"open"}}
  BY <1>2, <1>3, <1>4, TunnelTransferEnds
<1>6. IsLayerUp(s.conn) /\ "open" \notin s.conn.bad
  <2>1. StateFlags(l)
    BY <1>3, TunnelFlags
  <2>2. QED
    BY <1>1, <1>3, <1>5, <2>1 DEF IsLayerUp, StateFlags, Sound
<1>7. Heard(s, k, how)
  BY <1>1, <1>5, <1>6 DEF Quiet, Heard
<1> HIDE DEF pre, rest
<1>8. t = Asked(s, k, FALSE, Down(how))
  OBVIOUS
<1> HIDE DEF s, t
<1>9. FineAfter(view, t, s, pre, rest, session[r], made[r])
  BY <1>1, <1>7, <1>8, EventFine
<1>10. Fine(view, t, pre, rest, session[r], made[r]) /\ t.role = r
  BY <1>1, <1>9 DEF FineAfter
<1>11. /\ session' \in [Sides -> 0 .. MaxSessions] /\ made' \in [Sides -> Nat]
      /\ session' = session /\ made' = made
  BY <1>2 DEF TunnelInv, VtoTypeOK
<1> QED
  BY <1>2, <1>10, <1>11, CallbackStep DEF pre, rest

\* A chunk was read.
LEMMA FlowRead ==
  ASSUME NEW s \in Routers, NEW t \in Routers, NEW view \in Views, NEW pre, NEW rest, NEW ses, NEW m,
         Context(pre, rest, ses, m), Flow(view, s, pre, rest, ses, m), s.local, ~s.thrown,
         t.role = s.role, t.wrote = s.wrote, t.toPhys = s.toPhys, t.queue = s.queue,
         t.toVto = Append(s.toVto, Coming(ses, m)), t.local = s.local, t.inst = s.inst,
         t.remote = s.remote, t.thrown = s.thrown,
         Live(t) <=> Live(s), IsLayerUp(t.conn) <=> IsLayerUp(s.conn)
  PROVE  Flow(view, t, pre, rest, ses, m + 1)
<1> DEFINE x == Coming(ses, m)
           y == Coming(ses, m + 1)
           a == pre \o Out(s)
<1>1. pre \in Seq(Items) /\ rest \in Seq(Items) /\ ses \in Nat /\ m \in Nat /\ m + 1 \in Nat
  BY DEF Context
<1>2. x \in Items /\ y \in Items /\ x.type = "data" /\ y.type = "data"
  BY <1>1, SendsTypes
<1>3. /\ a \in Seq(Items)
      /\ pre \o (Out(s) \o <<x>>) = a \o <<x>>
      /\ pre \o (Out(t) \o <<y>>) = a \o (<<x>> \o <<y>>)
  <2>1. t.toVto = Append(s.toVto, x)
    OBVIOUS
  <2> HIDE DEF x, y
  <2>2. x \in Items /\ y \in Items /\ pre \in Seq(Items)
    BY <1>1, <1>2
  <2>3. /\ pre \o Out(s) \in Seq(Items)
        /\ \A z \in Items : /\ pre \o (Out(s) \o <<z>>) = (pre \o Out(s)) \o <<z>>
                            /\ pre \o (Out(t) \o <<z>>) = (pre \o Out(s)) \o (<<x>> \o <<z>>)
    <3>1. Grows(s, t, x)
      BY <2>1 DEF Grows
    <3>2. Extended(s, t, x, pre)
      BY <2>2, <3>1, OutGrows
    <3>3. QED
      BY <3>2 DEF Extended
  <2>4. QED
    BY <2>2, <2>3
<1>4. Before(x, y) /\ Follows(x, y)
  BY <1>1 DEF Before, Follows, Coming, Data
<1> HIDE DEF a, x, y
<1>7. CASE view = "order"
  <2>1. Ascending(pre \o (Out(s) \o <<x>>)) /\ Ascending((s.wrote \o s.toPhys) \o rest)
    BY <1>7 DEF Flow, x
  <2>2. Ascending(a \o (<<x>> \o <<y>>))
    BY <1>2, <1>3, <1>4, <2>1, AscendingLater
  <2>3. QED
    BY <1>3, <1>7, <2>1, <2>2 DEF Flow, y
<1>5. CASE view = "stream" /\ s.role = "server"
  <2>1. Chain(pre \o (Out(s) \o <<x>>))
    BY <1>5 DEF Flow, Sends, x
  <2>2. Chain(a \o (<<x>> \o <<y>>))
    BY <1>2, <1>3, <1>4, <2>1, ChainGrows
  <2>3. QED
    BY <1>3, <1>5, <2>2 DEF Flow, Sends, y
<1>6. CASE view = "stream" /\ s.role # "server"
  <2>1. Chain((Lead(s) \o s.toPhys) \o rest) /\ Tuned(s)
    BY <1>6 DEF Flow
  <2>3. Lead(t) = Lead(s)
    BY DEF Lead, Latest
  <2>4. Tuned(t)
    BY <2>1 DEF Tuned
  <2>5. QED
    BY <1>6, <2>1, <2>3, <2>4 DEF Flow
<1> QED
  BY <1>5, <1>6, <1>7 DEF Views

\* A connection opened.
LEMMA FlowOpens ==
  ASSUME NEW s \in Routers, NEW t \in Routers, NEW view \in Views, NEW pre, NEW rest, NEW ses, NEW m,
         Context(pre, rest, ses, m), Flow(view, s, pre, rest, ses, m), ~s.thrown,
         s.role = "server" => ~s.local,
         t.role = s.role, t.wrote = <<>>, t.toPhys = s.toPhys, Out(t) = Out(s),
         t.local = s.local, t.inst = s.inst, t.remote = s.remote, t.thrown = s.thrown,
         Live(t), Live(s), ~IsLayerUp(s.conn)
  PROVE  Flow(view, t, pre, rest, ses + 1, 0)
<1> DEFINE x == Coming(ses, m)
           y == Coming(ses + 1, 0)
<1>1. pre \in Seq(Items) /\ rest \in Seq(Items) /\ ses \in Nat /\ m \in Nat /\ ses + 1 \in Nat
  BY DEF Context
<1>2. x \in Items /\ y \in Items /\ x.type = "data" /\ y.type = "data" /\ Before(x, y)
  <2>1. Before(x, y)
    BY <1>1 DEF Before, Coming, Data
  <2>2. QED
    BY <1>1, <2>1, SendsTypes
<1> HIDE DEF x, y
<1>3. /\ s.wrote \in Seq(Items) /\ s.toPhys \in Seq(Items) /\ Out(s) \in Seq(Items)
  BY RouterTypes, LeadTypes
<1>4. CASE view = "stream" /\ s.role = "server"
  BY <1>4 DEF Flow, Sends
<1>5. CASE view = "order"
  <2>1. Ascending(pre \o (Out(s) \o <<x>>)) /\ Ascending((s.wrote \o s.toPhys) \o rest)
    BY <1>5 DEF Flow, x
  <2>3. Ascending(s.toPhys \o rest)
    BY <1>1, <1>3, <2>1, AscendingWithout
  <2>4. t.wrote \o t.toPhys = s.toPhys
    BY <1>3, Empty
  <2>2. Ascending(pre \o (Out(t) \o <<y>>))
    <3> DEFINE o == Out(s)
               u == <<x>>
               v == <<y>>
    <3>1. o \in Seq(Items) /\ u \in Seq(Items) /\ v \in Seq(Items) /\ pre \o o \in Seq(Items)
      BY <1>1, <1>2, <1>3, OneItem, Joined
    <3> HIDE DEF o, u, v
    <3>2. pre \o (o \o u) = (pre \o o) \o u /\ pre \o (o \o v) = (pre \o o) \o v
      <4>1. pre \in Seq(Items) /\ o \in Seq(Items) /\ u \in Seq(Items) /\ v \in Seq(Items)
        BY <1>1, <3>1
      <4>2. pre \o (o \o u) = (pre \o o) \o u
        BY <4>1, Associative
      <4>3. pre \o (o \o v) = (pre \o o) \o v
        BY <4>1, Associative
      <4>4. QED
        BY <4>2, <4>3
    <3>3. Ascending((pre \o o) \o <<x>>)
      BY <2>1, <3>2 DEF o, u
    <3>4. Ascending((pre \o o) \o <<y>>)
      BY <1>2, <3>1, <3>3, AscendingLater
    <3>5. QED
      BY <3>2, <3>4 DEF o, v
  <2>5. QED
    BY <1>5, <2>2, <2>3, <2>4 DEF Flow, y
<1>6. CASE view = "stream" /\ s.role # "server"
  <2>1. Chain((Lead(s) \o s.toPhys) \o rest) /\ Tuned(s)
    BY <1>6 DEF Flow
  <2>2. Lead(t) = Lead(s)
    BY DEF Lead, Latest
  <2>3. Tuned(t)
    BY <2>1 DEF Tuned
  <2>4. QED
    BY <1>6, <2>1, <2>2, <2>3 DEF Flow
<1> QED
  BY <1>4, <1>5, <1>6 DEF Views

\* The stack takes objects from the queue.
LEMMA FlowFlushed ==
  ASSUME NEW s \in Routers, NEW t \in Routers, NEW view \in Views, NEW pre, NEW rest, NEW ses, NEW m,
         Context(pre, rest, ses, m), Flow(view, s, pre, rest, ses, m),
         NEW u \in Seq(Items), NEW v \in Seq(Items), s.queue = u \o v,
         t.queue = v, t.toVto = s.toVto, t.role = s.role, t.wrote = s.wrote, t.toPhys = s.toPhys,
         t.local = s.local, t.inst = s.inst, t.remote = s.remote, t.thrown = s.thrown, t.conn = s.conn
  PROVE  Flow(view, t, pre \o u, rest, ses, m)
<1>1. pre \in Seq(Items) /\ ses \in Nat /\ m \in Nat
  BY DEF Context
<1>2. ASSUME NEW y \in Items
      PROVE  (pre \o u) \o (Out(t) \o <<y>>) = pre \o (Out(s) \o <<y>>)
  <2> DEFINE c == s.toVto
             w == <<y>>
  <2>1. c \in Seq(Items) /\ w \in Seq(Items)
    BY <1>2, RouterTypes, OneItem
  <2>2. Out(t) = v \o c /\ Out(s) = (u \o v) \o c
    BY DEF Out
  <2> HIDE DEF c, w
  <2>3. v \o c \in Seq(Items) /\ (v \o c) \o w \in Seq(Items)
    BY <2>1, Joined
  <2> DEFINE d == v \o c
             e == d \o w
  <2>4. (u \o v) \o c = u \o d
    BY <2>1, Associative
  <2>5. d \in Seq(Items) /\ e \in Seq(Items)
    BY <2>3
  <2> HIDE DEF d
  <2>6. (u \o d) \o w = u \o e
    BY <2>1, <2>5, Associative
  <2> HIDE DEF e
  <2>7. (pre \o u) \o e = pre \o (u \o e)
    BY <1>1, <2>5, Associative
  <2>8. QED
    BY <2>2, <2>4, <2>6, <2>7 DEF d, e, w
<1>3. /\ Coming(ses, m) \in Items /\ Sends(s, ses, m) \in Items /\ Sends(t, ses, m) = Sends(s, ses, m)
  BY <1>1, SendsTypes DEF Sends
<1>6. CASE view = "order"
  BY <1>2, <1>3, <1>6 DEF Flow
<1>4. CASE view = "stream" /\ s.role = "server"
  BY <1>2, <1>3, <1>4 DEF Flow
<1>5. CASE view = "stream" /\ s.role # "server"
  <2>1. Tuned(s) /\ Lead(t) = Lead(s)
    BY <1>5 DEF Flow, Lead, Live, Latest
  <2>2. Tuned(t)
    BY <2>1 DEF Tuned, Live
  <2>3. QED
    BY <1>5, <2>1, <2>2 DEF Flow
<1> QED
  BY <1>4, <1>5, <1>6 DEF Views

LEMMA ChunkIsObject ==
  ASSUME NEW r \in Sides, NEW ses \in 1 .. MaxSessions, NEW n \in 1 .. MaxChunks[r]
  PROVE  Data(ses, n) \in Objects
BY DEF Objects

\* _OnReceive
LEMMA ReadCallbackKeeps ==
  ASSUME NEW view \in Views, TunnelInv(view), NEW r \in Sides, ReadCallback(r)
  PROVE  TunnelInv(view)'
<1> DEFINE o == Other(r)
           s == side[r]
           l == s.conn
           k == Lower(l, "reading")
           ses == session[r]
           m == made[r]
           chunk == Coming(ses, m)
           g == [With(r, k) EXCEPT !.toVto = Append(@, chunk)]
           t == CheckForPhysRead(CheckForVtoWrite(g))
           pre == Ahead(view, batch[r], side[o])
           rest == Beyond(view, batch[o], side[o], session[o], made[o])
<1>1. /\ Context(pre, rest, ses, m) /\ Fine(view, s, pre, rest, ses, m)
      /\ s \in Routers /\ s.role = r /\ ~s.thrown /\ ses \in Nat /\ ses <= MaxSessions /\ m \in Nat
  BY Here
<1>2. /\ "reading" \in l.flags /\ "closing" \notin l.flags /\ m < MaxChunks[r]
      /\ made' = [made EXCEPT ![r] = @ + 1] /\ Returns(r, t) /\ UNCHANGED <<batch, session, repeats, drops>>
  BY DEF ReadCallback, Coming
<1>3. /\ Good(k) /\ k.state = l.state /\ k.bad = l.bad
      /\ k.flags # {} /\ l.flags # {}
      /\ CanClose(l) /\ CanClose(k) /\ IsLayerUp(l) /\ IsLayerUp(k)
  BY <1>1, <1>2, TunnelWriteEnds DEF Fine, Sound
<1>4. chunk \in Objects
  <2>1. ses # 0
    BY <1>1, <1>3 DEF Fine, Counted
  <2>2. MaxSessions \in Nat /\ MaxChunks[r] \in Nat
    BY TunnelAssumption DEF Sides
  <2>3. ses \in 1 .. MaxSessions /\ m + 1 \in 1 .. MaxChunks[r]
    BY <1>1, <1>2, <2>1, <2>2
  <2>4. QED
    BY <2>3, ChunkIsObject DEF Coming
<1>5. s.local
  BY <1>1, <1>3 DEF Fine, Knows
<1> HIDE DEF k, chunk
<1>6. /\ g \in Routers /\ g.conn = k /\ g.role = s.role /\ g.local = s.local /\ g.remote = s.remote
      /\ g.inst = s.inst /\ g.toPhys = s.toPhys /\ g.toVto = Append(s.toVto, chunk) /\ g.queue = s.queue
      /\ g.wrote = s.wrote /\ g.thrown = s.thrown
  <2> DEFINE u == With(r, k)
  <2>1. /\ u \in Routers /\ u.conn = k /\ u.role = s.role /\ u.local = s.local /\ u.remote = s.remote
        /\ u.inst = s.inst /\ u.toPhys = s.toPhys /\ u.toVto = s.toVto /\ u.queue = s.queue
        /\ u.wrote = s.wrote /\ u.thrown = s.thrown
    BY <1>1, <1>3, WithFields DEF With, Good
  <2> HIDE DEF u
  <2>2. Append(u.toVto, chunk) \in Seq(Objects)
    BY <1>4, <2>1, RouterTypes, AppendProperties
  <2>3. QED
    BY <2>1, <2>2 DEF Routers, u
<1> HIDE DEF g
<1>7. Flows(view, g, pre, rest, ses, m + 1)
  <2>1. ASSUME Covers(view)
        PROVE  Flow(view, g, pre, rest, ses, m + 1)
    <3>1. Flow(view, s, pre, rest, ses, m)
      BY <1>1, <2>1 DEF Fine, Flows
    <3>2. Live(g) <=> Live(s)
      BY <1>3, <1>6 DEF Live
    <3> HIDE DEF pre, rest, ses, m, s
    <3>3. QED
      BY <1>1, <1>3, <1>5, <1>6, <3>1, <3>2, FlowRead DEF chunk, l
  <2>2. QED
    BY <2>1 DEF Flows
<1>8. Fine(view, g, pre, rest, ses, m + 1) /\ g.role = r
  BY <1>1, <1>3, <1>5, <1>6, <1>7 DEF Fine, Sound, Knows, Counted
<1>9. Context(pre, rest, ses, m + 1)
  BY <1>1 DEF Context
<1> DEFINE h == CheckForVtoWrite(g)
<1> HIDE DEF pre, rest
<1>10. Fine(view, h, pre, rest, ses, m + 1) /\ h.role = r
  BY <1>8, <1>9, VtoWriteFine
<1> HIDE DEF h
<1>11. Fine(view, t, pre, rest, ses, m + 1) /\ t.role = r
  BY <1>9, <1>10, VtoWriteFine DEF h
<1> HIDE DEF t
<1>12. /\ session' \in [Sides -> 0 .. MaxSessions] /\ made' \in [Sides -> Nat]
       /\ session' = session /\ made'[r] = m + 1 /\ made'[o] = made[o]
  <2>1. session \in [Sides -> 0 .. MaxSessions] /\ made \in [Sides -> Nat]
    BY DEF TunnelInv, VtoTypeOK
  <2>2. QED
    BY <1>1, <1>2, <2>1, Others
<1> QED
  BY <1>2, <1>11, <1>12, CallbackStep DEF pre, rest

\* DoThisLayerUp of either router, when the connection has been made
LEMMA UpFine ==
  ASSUME NEW s, NEW view \in Views, NEW pre, NEW rest, NEW ses, NEW m, Context(pre, rest, ses, m),
         Fine(view, s, pre, rest, ses, m), ~s.thrown, NEW how \in Ways(s.role), "open" \notin s.conn.bad,
         NEW k, Good(k), k.state \in TunnelStates(s.role), k.bad = s.conn.bad, k.flags = {"open"}, s.conn.flags = {"opening"},
         NEW t, t = SetLocalConnected([[s EXCEPT !.conn = k] EXCEPT !.wrote = <<>>], TRUE, how, Down(how))
  PROVE  FineAfter(view, t, s, pre, rest, ses + 1, 0)
<1> DEFINE u == [[s EXCEPT !.conn = k] EXCEPT !.wrote = <<>>]
<1> SUFFICES Fine(view, t, pre, rest, ses + 1, 0) /\ t.role = s.role
  BY DEF FineAfter
<1>0. s \in Routers /\ s.role \in Sides /\ Flows(view, s, pre, rest, ses, m) /\ ses \in Nat
  BY RouterTypes DEF Fine, Sound, Context
<1>1. /\ u \in Routers /\ u.conn = k /\ u.role = s.role /\ u.local = s.local /\ u.remote = s.remote
      /\ u.inst = s.inst /\ u.toPhys = s.toPhys /\ u.toVto = s.toVto /\ u.queue = s.queue
      /\ u.wrote = <<>> /\ u.thrown = s.thrown /\ Out(u) = Out(s)
  <2> DEFINE w == [s EXCEPT !.conn = k]
  <2>1. /\ w \in Routers /\ w.conn = k /\ w.role = s.role /\ w.local = s.local /\ w.remote = s.remote
        /\ w.inst = s.inst /\ w.toPhys = s.toPhys /\ w.toVto = s.toVto /\ w.queue = s.queue
        /\ w.thrown = s.thrown
    BY <1>0, WithFields DEF Good
  <2> HIDE DEF w
  <2>2. [w EXCEPT !.wrote = <<>>] = u
    BY DEF w
  <2>3. QED
    BY <2>1, <2>2, Nothing DEF Routers, Out
<1>a. t = SetLocalConnected(u, TRUE, how, Down(how))
  OBVIOUS
<1> HIDE DEF u
<1>2. CanClose(k) /\ CanClose(s.conn) /\ IsLayerUp(k) /\ ~IsLayerUp(s.conn)
  BY DEF CanClose, IsLayerUp
<1>3. s.local <=> s.role = "client"
  BY <1>0, <1>2 DEF Fine, Knows, Sides
<1>4. Context(pre, rest, ses + 1, 0) /\ ses + 1 # 0
  BY DEF Context
<1>5. Flows(view, u, pre, rest, ses + 1, 0)
  <2>1. ASSUME Covers(view)
        PROVE  Flow(view, u, pre, rest, ses + 1, 0)
    <3>1. Flow(view, s, pre, rest, ses, m)
      BY <1>0, <2>1 DEF Flows
    <3>2. Live(u) /\ Live(s) /\ (s.role = "server" => ~s.local)
      BY <1>1, <1>2, <1>3 DEF Live
    <3>3. QED
      BY <1>0, <1>1, <1>2, <3>1, <3>2, FlowOpens
  <2>2. QED
    BY <2>1 DEF Flows
<1>6. Sound(u)
  BY <1>1 DEF Fine, Sound
<1>7. CASE s.role = "client"
  <2>1. t = u
    BY <1>a, <1>1, <1>3, <1>7 DEF SetLocalConnected
  <2>2. Knows(u) /\ Counted(u, ses + 1)
    BY <1>1, <1>3, <1>4, <1>7 DEF Knows, Counted
  <2>3. QED
    BY <1>1, <1>5, <1>6, <2>1, <2>2 DEF Fine
<1>8. CASE s.role # "client"
  <2> DEFINE w == [u EXCEPT !.local = TRUE, !.toVto = Append(@, Opened)]
             n == [u EXCEPT !.local = TRUE]
             v == CheckForVtoWrite(w)
  <2>1. ~u.local /\ ~u.thrown /\ u.role = "server"
    BY <1>0, <1>1, <1>3, <1>8 DEF Sides
  <2>2. /\ n \in Routers /\ n.thrown = u.thrown /\ n.toVto = u.toVto
        /\ [n EXCEPT !.toVto = Append(@, Opened)] = w
    BY <1>1 DEF Routers
  <2>3. t = NotifyRemoteSideOfState(n, TRUE)
    BY <1>a, <2>1 DEF SetLocalConnected
  <2> HIDE DEF n
  <2>4. t = v
    BY <2>1, <2>2, <2>3 DEF NotifyRemoteSideOfState
  <2>5. w.local = TRUE /\ w.role = u.role /\ w.conn = u.conn
    BY <1>1 DEF Routers
  <2>6. Sound(v) /\ Flows(view, v, pre, rest, ses + 1, 0) /\ Alike(w, v)
    BY <1>4, <1>5, <1>6, <2>1, Tells
  <2> HIDE DEF w, v
  <2>7. v.role = s.role /\ v.local /\ IsLayerUp(v.conn)
    BY <1>1, <1>2, <2>5, <2>6 DEF Alike
  <2>8. Knows(v) /\ Counted(v, ses + 1)
    BY <1>4, <1>8, <2>7 DEF Knows, Counted
  <2>9. QED
    BY <2>4, <2>6, <2>7, <2>8 DEF Fine
<1> QED
  BY <1>7, <1>8

\* _OnOpenSuccess
LEMMA OpenSuccessKeeps ==
  ASSUME NEW view \in Views, TunnelInv(view), NEW r \in Sides, NEW how \in Ways(r), OpenSuccessCallback(r, how)
  PROVE  TunnelInv(view)'
<1> DEFINE o == Other(r)
           s == side[r]
           l == s.conn
           k == OpenSucceeded(l)
           ses == session[r]
           u == [[s EXCEPT !.conn = k] EXCEPT !.wrote = <<>>]
           ready == SetLocalConnected(u, TRUE, how, Down(how))
           pr == CheckForPhysRead(ready)
           pw == CheckForPhysWrite(pr, how, Down(how))
           t == CheckForVtoWrite(pw)
           pre == Ahead(view, batch[r], side[o])
           rest == Beyond(view, batch[o], side[o], session[o], made[o])
<1>1. /\ Context(pre, rest, ses, made[r]) /\ Fine(view, s, pre, rest, ses, made[r])
      /\ s \in Routers /\ s.role = r /\ ~s.thrown /\ ses \in Nat
  BY Here
<1>2. /\ "opening" \in l.flags /\ "open" \notin l.bad /\ "closing" \notin l.flags /\ ses < MaxSessions
      /\ session' = [session EXCEPT ![r] = @ + 1] /\ made' = [made EXCEPT ![r] = 0]
      /\ Returns(r, t) /\ UNCHANGED <<batch, repeats, drops>>
  BY DEF OpenSuccessCallback, With, Attempt
<1>3. /\ Good(k) /\ k.state \in TunnelStates(r) /\ k.bad = l.bad /\ k.flags = {"open"} /\ l.flags = {"opening"}
  BY <1>1, <1>2, TunnelOpened DEF Fine, Sound
<1>4. Context(pre, rest, ses + 1, 0)
  BY <1>1 DEF Context
<1> HIDE DEF pre, rest, k
<1>5. FineAfter(view, ready, s, pre, rest, ses + 1, 0)
  BY <1>1, <1>2, <1>3, UpFine
<1> HIDE DEF ready
<1>6. Fine(view, pr, pre, rest, ses + 1, 0) /\ pr.role = r
  BY <1>1, <1>4, <1>5, VtoWriteFine DEF FineAfter
<1> HIDE DEF pr
<1>7. Fine(view, pw, pre, rest, ses + 1, 0) /\ pw.role = r
  BY <1>4, <1>6, PhysWriteFine
<1> HIDE DEF pw
<1>8. Fine(view, t, pre, rest, ses + 1, 0) /\ t.role = r
  BY <1>4, <1>7, VtoWriteFine
<1> HIDE DEF t
<1>9. /\ session' \in [Sides -> 0 .. MaxSessions] /\ made' \in [Sides -> Nat]
      /\ session'[r] = ses + 1 /\ made'[r] = 0 /\ session'[o] = session[o] /\ made'[o] = made[o]
  <2>1. session \in [Sides -> 0 .. MaxSessions] /\ made \in [Sides -> Nat] /\ MaxSessions \in Nat
    BY TunnelAssumption DEF TunnelInv, VtoTypeOK
  <2>2. ses + 1 \in 0 .. MaxSessions
    BY <1>1, <1>2, <2>1
  <2>3. QED
    BY <1>2, <2>1, <2>2, Others
<1> QED
  BY <1>2, <1>8, <1>9, CallbackStep DEF pre, rest

\* The stack takes objects: VtoTransmitTask of a master, the event buffer of an outstation
LEMMA FlushKeeps ==
  ASSUME NEW view \in Views, TunnelInv(view), NEW r \in Sides, Flush(r)
  PROVE  TunnelInv(view)'
<1> DEFINE o == Other(r)
           s == side[r]
           room == BatchSize - Len(batch[r])
           k == IF Len(s.queue) < room THEN Len(s.queue) ELSE room
           u == SubSeq(s.queue, 1, k)
           v == SubSeq(s.queue, k + 1, Len(s.queue))
           g == [s EXCEPT !.queue = SubSeq(@, k + 1, Len(@))]
           t == CheckForVtoWrite(g)
           ses == session[r]
           m == made[r]
           pre == Ahead(view, batch[r], side[o])
           next == Ahead(view, batch[r] \o u, side[o])
           rest == Beyond(view, batch[o], side[o], session[o], made[o])
<1>1. /\ Context(pre, rest, ses, m) /\ Fine(view, s, pre, rest, ses, m)
      /\ s \in Routers /\ s.role = r /\ ~s.thrown /\ side[o] \in Routers
      /\ batch[r] \in Seq(Objects) /\ batch[o] \in Seq(Objects)
      /\ ses \in Nat /\ m \in Nat /\ session[o] \in Nat /\ made[o] \in Nat
  BY Here
<1>2. /\ k > 0 /\ batch' = [batch EXCEPT ![r] = @ \o u]
      /\ Returns(r, t) /\ UNCHANGED <<session, made, repeats, drops>>
  BY DEF Flush
<1>3. k \in 0 .. Len(s.queue) /\ k <= BatchSize - Len(batch[r])
  <2>1. Len(s.queue) \in Nat /\ Len(batch[r]) \in Nat /\ BatchSize \in Nat
    <3>1. s.queue \in Seq(Objects) /\ batch[r] \in Seq(Objects)
      BY <1>1, RouterTypes
    <3>2. Len(s.queue) \in Nat /\ Len(batch[r]) \in Nat
      BY <3>1, LenProperties
    <3>3. QED
      BY <3>2, TunnelAssumption
  <2>2. k \in Int
    BY <2>1
  <2>3. QED
    BY <1>2, <2>1
<1> HIDE DEF k
<1>4. /\ u \in Seq(Objects) /\ v \in Seq(Objects) /\ Len(u) = k /\ u \o v = s.queue
  BY <1>1, <1>3, Split, RouterTypes
<1>5. /\ g \in Routers /\ g.queue = v /\ g.conn = s.conn /\ g.role = s.role /\ g.local = s.local
      /\ g.remote = s.remote /\ g.inst = s.inst /\ g.toPhys = s.toPhys /\ g.toVto = s.toVto
      /\ g.wrote = s.wrote /\ g.thrown = s.thrown
  BY <1>1, <1>4 DEF Routers
<1> HIDE DEF u, v, g
<1>6. batch[r] \o u \in Seq(Objects) /\ Len(batch[r] \o u) <= BatchSize
  <2>1. Len(batch[r] \o u) = Len(batch[r]) + Len(u) /\ batch[r] \o u \in Seq(Objects)
    BY <1>1, <1>4, ConcatProperties
  <2>2. Len(batch[r]) \in Nat /\ BatchSize \in Nat
    BY <1>1, TunnelAssumption
  <2> DEFINE n == Len(batch[r])
             p == Len(batch[r] \o u)
  <2>3. p = n + k /\ n \in Nat /\ k \in Nat /\ k <= BatchSize - n
    BY <1>3, <1>4, <2>1, <2>2
  <2> HIDE DEF n, p
  <2>4. p <= BatchSize
    BY <2>2, <2>3
  <2>5. QED
    BY <2>1, <2>4 DEF p
<1>7. next = pre \o u
  <2> DEFINE a == Passed(view, side[o])
             b == batch[r]
  <2>1. a \in Seq(Items) /\ b \in Seq(Items) /\ u \in Seq(Items)
    BY <1>1, <1>4, ContextTypes, ObjectSeqs
  <2> HIDE DEF a, b
  <2>2. (a \o b) \o u = a \o (b \o u)
    BY <2>1, Associative
  <2>3. QED
    BY <2>2 DEF Ahead, a, b
<1>8. Context(next, rest, ses, m)
  BY <1>1, <1>6, ContextTypes DEF Context
<1>9. Flows(view, g, next, rest, ses, m)
  <2>1. ASSUME Covers(view)
        PROVE  Flow(view, g, next, rest, ses, m)
    <3>1. Flow(view, s, pre, rest, ses, m) /\ u \in Seq(Items) /\ v \in Seq(Items)
      BY <1>1, <1>4, <2>1, ObjectSeqs DEF Fine, Flows
    <3> HIDE DEF pre, rest, s, ses, m, next
    <3>2. Flow(view, g, pre \o u, rest, ses, m)
      BY <1>1, <1>4, <1>5, <3>1, FlowFlushed
    <3>3. QED
      BY <1>7, <3>2
  <2>2. QED
    BY <2>1 DEF Flows
<1>10. Fine(view, g, next, rest, ses, m) /\ g.role = r
  BY <1>1, <1>5, <1>9 DEF Fine, Sound, Knows, Counted
<1> HIDE DEF next, rest
<1>11. Fine(view, t, next, rest, ses, m) /\ t.role = r
  BY <1>8, <1>10, VtoWriteFine
<1> HIDE DEF t
<1>12. /\ o # r /\ batch' \in [Sides -> Seq(Objects)] /\ \A p \in Sides : Len(batch'[p]) <= BatchSize
       /\ batch'[r] = batch[r] \o u /\ batch'[o] = batch[o]
  BY <1>2, <1>6, Others DEF TunnelInv, VtoTypeOK
<1>13. /\ session' \in [Sides -> 0 .. MaxSessions] /\ made' \in [Sides -> Nat]
       /\ session' = session /\ made' = made /\ repeats' \in 0 .. MaxMishaps /\ drops' \in 0 .. MaxMishaps
       /\ Covers(view)' <=> Covers(view)
  BY <1>2 DEF TunnelInv, VtoTypeOK, Covers
<1>14. side' = [side EXCEPT ![r] = Caught(t)] /\ dead' \subseteq Sides
  BY <1>2 DEF Returns, Leaves, Caught, TunnelInv, VtoTypeOK
<1>15. /\ Sound(t) /\ Knows(t) /\ Counted(t, ses)
       /\ Covers(view) => Flow(view, t, next, rest, ses, m)
  BY <1>11 DEF Fine, Flows
<1> QED
  BY <1>11, <1>12, <1>13, <1>14, <1>15, TunnelStep DEF next, rest

\* The other side's stack passes the objects on
LEMMA TransferKeeps ==
  ASSUME NEW view \in Views, TunnelInv(view), NEW r \in Sides, NEW answered \in BOOLEAN, NEW how \in Ways(Other(r)), Transfer(r, answered, how)
  PROVE  TunnelInv(view)'
<1> DEFINE o == Other(r)
           s == side[o]
           q == side[r]
           t == Update(s, batch[r], how)
           ses == session[o]
           m == made[o]
           far == Out(q) \o <<Later(view, q, session[r], made[r])>>
           pre == Ahead(view, batch[o], q)
           rest == Beyond(view, batch[r], q, session[r], made[r])
           left == Beyond(view, batch'[r], q, session[r], made[r])
<1>0. o \in Sides /\ Other(o) = r /\ o # r
  BY Others
<1>1. /\ Context(pre, rest, ses, m) /\ Fine(view, s, pre, rest, ses, m)
      /\ s \in Routers /\ s.role = o /\ q \in Routers
      /\ batch[o] \in Seq(Objects) /\ batch[r] \in Seq(Objects)
      /\ ses \in Nat /\ m \in Nat /\ session[r] \in Nat /\ made[r] \in Nat
  BY <1>0, Here
<1>2. /\ Leaves(o, t) /\ UNCHANGED <<session, made, drops, dead>>
      /\ \/ batch' = [batch EXCEPT ![r] = <<>>] /\ repeats' = repeats
         \/ repeats + drops < MaxMishaps /\ repeats' = repeats + 1 /\ batch' = batch
  BY DEF Transfer, Mishap
<1>3. rest = batch[r] \o far /\ far \in Seq(Items)
  BY <1>1, ContextTypes DEF Beyond
<1>4. Context(pre, far, ses, m)
  BY <1>1, <1>3 DEF Context
<1> HIDE DEF pre, rest, far
<1>5. Fine(view, t, pre, far, ses, m) /\ t.role = o
  BY <1>1, <1>3, <1>4, UpdateFine
<1> HIDE DEF t
<1>6. batch \in [Sides -> Seq(Objects)] /\ (\A p \in Sides : Len(batch[p]) <= BatchSize) /\ repeats \in 0 .. MaxMishaps /\ drops \in 0 .. MaxMishaps
  BY DEF TunnelInv, VtoTypeOK
<1>7. MaxMishaps \in Nat /\ BatchSize \in Nat
  BY TunnelAssumption
<1>8. /\ batch' \in [Sides -> Seq(Objects)] /\ \A p \in Sides : Len(batch'[p]) <= BatchSize
      /\ batch'[o] = batch[o] /\ batch'[r] \in Seq(Objects)
  <2>1. CASE batch' = batch
    BY <1>0, <1>6, <2>1
  <2>2. CASE batch' = [batch EXCEPT ![r] = <<>>]
    <3>1. <<>> \in Seq(Objects) /\ Len(<<>>) = 0
      BY Nothing
    <3>2. batch' \in [Sides -> Seq(Objects)] /\ batch'[r] = <<>> /\ batch'[o] = batch[o]
      BY <1>0, <1>6, <2>2, <3>1
    <3>3. \A p \in Sides : p = r \/ batch'[p] = batch[p]
      BY <1>6, <2>2
    <3>4. Len(batch'[r]) <= BatchSize
      BY <1>7, <3>1, <3>2
    <3>5. ASSUME NEW p \in Sides
          PROVE  Len(batch'[p]) <= BatchSize
      BY <1>6, <3>3, <3>4
    <3>6. batch'[r] \in Seq(Objects)
      BY <3>1, <3>2
    <3>7. QED
      BY <3>2, <3>5, <3>6
  <2>3. QED
    BY <1>2, <2>1, <2>2
<1>9. /\ repeats' \in 0 .. MaxMishaps /\ drops' \in 0 .. MaxMishaps
      /\ Covers(view)' => Covers(view) /\ batch'[r] = <<>>
  BY <1>2, <1>6, <1>7 DEF Covers
<1>10. Sound(t) /\ Knows(t) /\ Counted(t, ses)
  BY <1>5 DEF Fine
<1>11. Covers(view)' => Flow(view, t, pre, left, ses, m)
  <2>1. SUFFICES ASSUME Covers(view)' PROVE Flow(view, t, pre, left, ses, m)
    OBVIOUS
  <2>2. left = <<>> \o far
    BY <1>9, <2>1 DEF Beyond, far
  <2>3. left = far
    BY <1>3, <2>2, Empty
  <2>4. QED
    BY <1>5, <1>9, <2>1, <2>3 DEF Fine, Flows
<1>12. side' = [side EXCEPT ![o] = Caught(t)] /\ dead' \subseteq Sides
  BY <1>0, <1>2 DEF Leaves, Caught, TunnelInv, VtoTypeOK
<1>13. /\ session' \in [Sides -> 0 .. MaxSessions] /\ made' \in [Sides -> Nat]
       /\ session' = session /\ made' = made
  BY <1>2 DEF TunnelInv, VtoTypeOK
<1> HIDE DEF left
<1>14. /\ pre = Ahead(view, batch'[o], side[Other(o)])
       /\ left = Beyond(view, batch'[Other(o)], side[Other(o)], session[Other(o)], made[Other(o)])
  BY <1>0, <1>8 DEF pre, left
<1> QED
  BY <1>0, <1>5, <1>8, <1>9, <1>10, <1>11, <1>12, <1>13, <1>14, TunnelStep

\* The other side's stack answers the fragment without passing it on: what is left is still in
\* order.
LEMMA DropKeeps ==
  ASSUME NEW view \in Views, TunnelInv(view), NEW r \in Sides, Drop(r)
  PROVE  TunnelInv(view)'
<1> DEFINE o == Other(r)
           s == side[r]
           q == side[o]
           ses == session[r]
           m == made[r]
           pre == Ahead(view, batch[r], q)
           next == Ahead(view, <<>>, q)
           rest == Beyond(view, batch[o], q, session[o], made[o])
<1>1. /\ Context(pre, rest, ses, m) /\ Fine(view, s, pre, rest, ses, m)
      /\ s \in Routers /\ s.role = r /\ ~s.thrown /\ q \in Routers /\ batch[r] \in Seq(Objects)
  BY Here
<1>2. /\ batch' = [batch EXCEPT ![r] = <<>>] /\ repeats + drops < MaxMishaps /\ drops' = drops + 1
      /\ UNCHANGED <<side, session, made, repeats, dead>>
  BY DEF Drop, Mishap
<1>3. /\ o # r /\ repeats \in 0 .. MaxMishaps /\ drops \in 0 .. MaxMishaps /\ MaxMishaps \in Nat /\ BatchSize \in Nat
      /\ batch \in [Sides -> Seq(Objects)] /\ (\A p \in Sides : Len(batch[p]) <= BatchSize)
      /\ side \in [Sides -> Routers]
  BY Others, TunnelAssumption DEF TunnelInv, VtoTypeOK
<1>4. /\ batch' \in [Sides -> Seq(Objects)] /\ batch'[r] = <<>> /\ batch'[o] = batch[o]
      /\ \A p \in Sides : Len(batch'[p]) <= BatchSize
  <2>1. <<>> \in Seq(Objects) /\ Len(<<>>) = 0
    BY Nothing
  <2>2. batch' \in [Sides -> Seq(Objects)] /\ batch'[r] = <<>> /\ \A p \in Sides : p = r \/ batch'[p] = batch[p]
    BY <1>2, <1>3, <2>1
  <2>3. Len(batch'[r]) <= BatchSize
    BY <1>3, <2>1, <2>2
  <2>4. ASSUME NEW p \in Sides
        PROVE  Len(batch'[p]) <= BatchSize
    BY <1>3, <2>2, <2>3
  <2>5. o \in Sides
    BY Others
  <2>6. QED
    BY <1>3, <2>2, <2>4, <2>5
<1>5. /\ drops' \in 0 .. MaxMishaps /\ repeats' \in 0 .. MaxMishaps
      /\ Covers(view)' => Covers(view) /\ view = "order"
  BY <1>2, <1>3 DEF Covers, Views
<1>6. side' = [side EXCEPT ![r] = Caught(s)]
  <2>1. Caught(s) = s
    BY <1>1 DEF Caught, Routers
  <2>2. QED
    BY <1>2, <1>3, <2>1
<1>7. Covers(view)' => Flow(view, s, next, rest, ses, m)
  <2> SUFFICES ASSUME Covers(view)' PROVE Flow(view, s, next, rest, ses, m)
    OBVIOUS
  <2> DEFINE a == Passed(view, q)
             out == Out(s) \o <<Coming(ses, m)>>
  <2>1. view = "order" /\ Flow(view, s, pre, rest, ses, m)
    BY <1>1, <1>5 DEF Fine, Flows
  <2>2. a \in Seq(Items) /\ batch[r] \in Seq(Items) /\ out \in Seq(Items)
    <3>1. a \in Seq(Items) /\ batch[r] \in Seq(Items)
      BY <1>1, ContextTypes, ObjectSeqs DEF Context
    <3>2. Out(s) \in Seq(Items) /\ <<Coming(ses, m)>> \in Seq(Items)
      BY <1>1, LeadTypes, SendsTypes, OneItem DEF Context
    <3>3. QED
      BY <3>1, <3>2, Joined
  <2>3. pre = a \o batch[r] /\ next = a
    BY <2>2, Empty DEF Ahead
  <2>4. /\ Ascending(pre \o out) /\ Ascending((s.wrote \o s.toPhys) \o rest)
        /\ Flow(view, s, next, rest, ses, m) <=>
             Ascending((s.wrote \o s.toPhys) \o rest) /\ Ascending(next \o out)
    BY <2>1 DEF Flow
  <2> HIDE DEF a, out, pre, next
  <2>5. Ascending(next \o out)
    BY <2>2, <2>3, <2>4, AscendingWithout
  <2>6. QED
    BY <2>4, <2>5
<1>8. Sound(s) /\ Knows(s) /\ Counted(s, ses)
  BY <1>1 DEF Fine
<1>9. /\ session' \in [Sides -> 0 .. MaxSessions] /\ made' \in [Sides -> Nat] /\ dead' \subseteq Sides
      /\ session' = session /\ made' = made
  BY <1>2 DEF TunnelInv, VtoTypeOK
<1>10. /\ next = Ahead(view, batch'[r], q)
       /\ rest = Beyond(view, batch'[o], q, session[o], made[o])
  BY <1>4
<1> HIDE DEF next, rest, pre
<1> QED
  BY <1>1, <1>4, <1>5, <1>6, <1>7, <1>8, <1>9, <1>10, TunnelStep

LEMMA TunnelInitially ==
  ASSUME NEW view \in Views, VtoInit
  PROVE  TunnelInv(view)
<1> DEFINE s == side["server"]
           c == side["client"]
           start == Start(NewConnection, "pending")
<1>1. /\ NewConnection \in Connections /\ NewConnection.state = "Init" /\ NewConnection.flags = {} /\ NewConnection.bad = {}
      /\ NewConnection.timer = FALSE /\ Good(NewConnection)
  BY DEF NewConnection, Connections, States, Flags, Errors, Good, Fits, Clean, OpeningStates, ClosingOpeningStates,
         OpenStates, ClosingStates, WaitStates
<1>2. Good(start) /\ start.state = "Opening" /\ start.flags = {"opening"} /\ start.bad = {}
  <2> DEFINE g == Goto(NewConnection, "Opening")
  <2>1. /\ g \in Connections /\ g.state = "Opening" /\ g.flags = {} /\ g.bad = {} /\ g.timer = FALSE
    BY <1>1, GotoFields DEF States
  <2>2. start = Raise(g, "opening")
    BY <1>1, <2>1 DEF Start, Starting, OnStartRequest, AsyncOpen
  <2> HIDE DEF g, start
  <2>3. /\ start \in Connections /\ start.state = "Opening" /\ start.flags = {"opening"} /\ start.bad = {}
        /\ start.timer = FALSE
    BY <2>1, <2>2, FlagFields DEF Flags
  <2>4. QED
    BY <2>3 DEF Good, Fits, Clean, OpeningStates, ClosingOpeningStates, OpenStates, ClosingStates, WaitStates
<1> HIDE DEF start
<1>3. /\ s = NewRouter("server", start) /\ c = NewRouter("client", NewConnection)
      /\ batch = [r \in Sides |-> <<>>] /\ session = [r \in Sides |-> 0] /\ made = [r \in Sides |-> 0]
      /\ repeats = 0 /\ drops = 0 /\ dead = {}
  BY DEF VtoInit, Sides, start
<1>4. \A r \in Sides, l \in Connections : NewRouter(r, l) \in Routers
  BY Nothing DEF NewRouter, Routers
<1>5. s \in Routers /\ c \in Routers /\ side \in [Sides -> Routers]
  <2>1. s \in Routers /\ c \in Routers
    BY <1>1, <1>2, <1>3, <1>4 DEF Sides, Good
  <2>2. side = [r \in Sides |-> side[r]]
    BY DEF VtoInit
  <2>3. QED
    BY <2>1, <2>2 DEF Sides
<1>6. /\ s.role = "server" /\ s.conn = start /\ c.role = "client" /\ c.conn = NewConnection
      /\ \A t \in {s, c} : /\ ~t.local /\ ~t.remote /\ ~t.inst /\ t.toPhys = <<>> /\ t.toVto = <<>>
                           /\ t.queue = <<>> /\ t.wrote = <<>> /\ ~t.thrown
  BY <1>3 DEF NewRouter
<1>7. VtoTypeOK
  <2>1. 0 \in 0 .. MaxSessions /\ 0 \in 0 .. MaxMishaps /\ BatchSize \in Nat
    BY TunnelAssumption
  <2>2. batch \in [Sides -> Seq(Objects)] /\ \A r \in Sides : Len(batch[r]) = 0
    BY <1>3, Nothing
  <2>3. session \in [Sides -> 0 .. MaxSessions] /\ made \in [Sides -> Nat]
    BY <1>3, <2>1
  <2>4. QED
    BY <1>3, <1>5, <2>1, <2>2, <2>3 DEF VtoTypeOK
<1>8. ASSUME NEW r \in Sides
      PROVE  /\ side[r].role = r /\ ~side[r].thrown
             /\ Sound(side[r]) /\ Knows(side[r]) /\ Counted(side[r], session[r])
  <2>1. Sound(s) /\ Knows(s) /\ Counted(s, session["server"])
    BY <1>2, <1>5, <1>6 DEF Sound, Knows, Counted, TunnelStates, IsLayerUp
  <2>2. Sound(c) /\ Knows(c) /\ Counted(c, session["client"])
    BY <1>1, <1>5, <1>6 DEF Sound, Knows, Counted, TunnelStates, IsLayerUp
  <2>3. QED
    BY <1>6, <2>1, <2>2 DEF Sides
<1>9. Linked(view, "server") /\ Linked(view, "client")
  <2> DEFINE x == Coming(0, 0)
             y == Opened
  <2>2. ~Live(c) /\ Lead(c) = <<>> /\ Tuned(c)
    BY <1>1, <1>6 DEF Live, CanClose, Lead, Tuned
  <2>3. /\ Out(s) = <<>> /\ Out(c) = <<>> /\ Passed(view, s) = <<>> /\ Passed(view, c) = <<>>
    BY <1>6, <2>2, Nothing, Empty DEF Out, Passed
  <2>4. Later(view, c, 0, 0) = x
    BY <1>6 DEF Later
  <2>5. x \in Items /\ y \in Items
    BY SendsTypes, ObjectsAreItems
  <2>6. Flow(view, s, Ahead(view, <<>>, c), Beyond(view, <<>>, c, 0, 0), 0, 0)
    <3>1. /\ <<x>> \in Seq(Items) /\ <<y>> \in Seq(Items) /\ Ascending(<<x>>) /\ Chain(<<y>>)
      BY <2>5, OneItem
    <3>2. <<>> \o <<x>> = <<x>> /\ <<>> \o <<y>> = <<y>> /\ <<>> \o <<>> = <<>>
      BY <3>1, Empty, Nothing
    <3>3. Ahead(view, <<>>, c) = <<>> /\ Beyond(view, <<>>, c, 0, 0) = <<x>>
      BY <2>3, <2>4, <3>2 DEF Ahead, Beyond
    <3>4. Sends(s, 0, 0) = y /\ Coming(0, 0) = x
      BY <1>6 DEF Sends
    <3>5. s.wrote \o s.toPhys = <<>>
      BY <1>6, <3>2
    <3> HIDE DEF s, c, x, y
    <3>6. QED
      BY <1>6, <2>3, <3>1, <3>2, <3>3, <3>4, <3>5 DEF Flow
  <2>7. Flow(view, c, Ahead(view, <<>>, s), Beyond(view, <<>>, s, 0, 0), 0, 0)
    BY <1>5, <1>6, <2>2, <2>6, Nothing, Reversed
  <2>8. \A r \in Sides : batch[r] = <<>> /\ session[r] = 0 /\ made[r] = 0
    BY <1>3
  <2>9. Other("server") = "client" /\ Other("client") = "server"
    BY DEF Other
  <2>10. QED
    BY <2>6, <2>7, <2>8, <2>9 DEF Linked, Sides
<1> QED
  BY <1>7, <1>8, <1>9 DEF TunnelInv, Sides

\* What the two routers know is kept by every step.
LEMMA TunnelKept ==
  ASSUME NEW view \in Views, TunnelInv(view), [VtoNext]_vtoVars
  PROVE  TunnelInv(view)'
<1>1. ASSUME NEW r \in Sides, NEW how \in Ways(r),
             \/ OpenSuccessCallback(r, how) \/ OpenFailureCallback(r, how) \/ WriteCallback(r, how)
             \/ OpenTimerCallback(r, how)
      PROVE  TunnelInv(view)'
  BY <1>1, OpenSuccessKeeps, OpenFailureKeeps, WriteCallbackKeeps, OpenTimerKeeps
<1>2. ASSUME NEW r \in Sides, ReadCallback(r) \/ Flush(r) \/ Drop(r)
      PROVE  TunnelInv(view)'
  BY <1>2, ReadCallbackKeeps, FlushKeeps, DropKeeps
<1>3. ASSUME NEW r \in Sides, NEW f \in {"reading", "writing"}, NEW failed \in BOOLEAN, NEW how \in Ways(r),
             TransferEndCallback(r, f, failed, how)
      PROVE  TunnelInv(view)'
  BY <1>3, TransferEndKeeps
<1>4. ASSUME NEW r \in Sides, NEW answered \in BOOLEAN, NEW how \in Ways(Other(r)), Transfer(r, answered, how)
      PROVE  TunnelInv(view)'
  BY <1>4, TransferKeeps
<1>5. CASE UNCHANGED vtoVars
  BY <1>5 DEF vtoVars, TunnelInv, VtoTypeOK, Linked, Covers
<1> QED
  BY <1>1, <1>2, <1>3, <1>4, <1>5 DEF VtoNext

\* Both views of the streams hold in every state.
LEMMA TunnelInvariant == VtoSpec => [](TunnelInv("order") /\ TunnelInv("stream"))
<1> DEFINE I == TunnelInv("order") /\ TunnelInv("stream")
<1>1. VtoInit => I
  BY TunnelInitially DEF Views
<1>2. I /\ [VtoNext]_vtoVars => I'
  BY TunnelKept DEF Views
<1> QED
  BY <1>1, <1>2, PTL DEF VtoSpec

\* mLocalConnected is set whenever the layer is up.  The client's is set only while there is a
\* connection or an attempt; the server's only while its layer is up, or when its attempt to
\* listen again was refused, after which it says for ever that it is connected.  Nothing is
\* asked of a layer that its state excludes, except a second close.
THEOREM RoutersConsistent == VtoSpec => []Consistent
<1>1. TunnelInv("order") => Consistent
  <2> SUFFICES ASSUME TunnelInv("order") PROVE LocalMatchesLayer
    BY DEF TunnelInv, Consistent
  <2> DEFINE s == side["server"]
             c == side["client"]
  <2>1. /\ s.role = "server" /\ Sound(s) /\ Knows(s)
        /\ c.role = "client" /\ Sound(c) /\ Knows(c)
    BY DEF TunnelInv, Sides
  <2>2. /\ IsLayerUp(s.conn) => s.local
        /\ s.local => IsLayerUp(s.conn) \/ "open" \in s.conn.bad
        /\ c.local <=> c.conn.flags # {}
    BY <2>1 DEF Knows
  <2>3. IsLayerUp(c.conn) => c.local
    BY <2>2 DEF IsLayerUp
  <2>4. /\ s.conn.bad \subseteq {"close", "open"} /\ c.conn.bad \subseteq {"close"}
        /\ "open" \in s.conn.bad => s.conn.state \in {"Opening", "OpeningClosing"}
    BY <2>1 DEF Sound
  <2>5. "open" \in s.conn.bad => s.conn.flags \in {{"opening"}, {"opening", "closing"}}
    <3>1. Good(s.conn) /\ s.conn.state \in TunnelStates("server") /\ "server" \in Sides
      BY <2>1 DEF Sound, Sides
    <3> HIDE DEF s
    <3>2. StateFlags(s.conn)
      BY <3>1, TunnelFlags
    <3>3. QED
      BY <2>4, <3>2 DEF StateFlags
  <2>6. \A r \in Sides : IsLayerUp(side[r].conn) => side[r].local
    BY <2>2, <2>3 DEF Sides
  <2> HIDE DEF s, c
  <2>7. QED
    BY <2>2, <2>4, <2>5, <2>6 DEF LocalMatchesLayer, s, c
<1> QED
  BY <1>1, TunnelInvariant, PTL

\* While no fragment is repeated, what a router writes to one connection comes in the order in
\* which the other read it, each chunk once; while, besides, none is answered without being
\* passed on, what the client's writes is the beginning of one stream without a gap.
THEOREM TunnelKeepsStreams == VtoSpec => []StreamsKept
<1>1. TunnelInv("order") => InOrder
  <2> SUFFICES ASSUME TunnelInv("order"), repeats = 0,
                      NEW r \in Sides, NEW i \in DOMAIN side[r].wrote, NEW j \in DOMAIN side[r].wrote, i < j
               PROVE  Before(side[r].wrote[i], side[r].wrote[j])
    BY DEF InOrder, Before
  <2> DEFINE s == side[r]
             rest == Beyond("order", batch[Other(r)], side[Other(r)], session[Other(r)], made[Other(r)])
  <2>1. "order" \in Views /\ Covers("order")
    BY DEF Views, Covers
  <2>2. s \in Routers /\ rest \in Seq(Items)
    BY <2>1, Here DEF Context
  <2>3. Ascending((s.wrote \o s.toPhys) \o rest)
    BY <2>1 DEF TunnelInv, Linked, Flow
  <2>4. /\ s.wrote \in Seq(Items) /\ s.toPhys \in Seq(Items)
        /\ \A k \in DOMAIN s.wrote : s.wrote[k].type = "data"
    BY <2>2, RouterTypes, ChunkSeqs
  <2> HIDE DEF rest
  <2>5. Ascending(s.wrote)
    <3>1. Ascending(s.wrote \o s.toPhys)
      BY <2>2, <2>3, <2>4, Joined, AscendingParts
    <3>2. QED
      BY <2>4, <3>1, AscendingParts
  <2>6. QED
    BY <2>4, <2>5 DEF Ascending
<1>2. TunnelInv("stream") => OneStreamAtClient
  <2> SUFFICES ASSUME TunnelInv("stream"), repeats = 0, drops = 0
               PROVE  \A i \in DOMAIN side["client"].wrote :
                        side["client"].wrote[i] = Data(side["client"].wrote[1].ses, i)
    BY DEF OneStreamAtClient
  <2>1. Covers("stream") /\ side["client"].role = "client" /\ Linked("stream", "client")
    BY DEF Covers, TunnelInv, Sides
  <2>2. Tuned(side["client"])
    BY <2>1 DEF Linked, Flow
  <2>3. QED
    BY <2>2 DEF Tuned
<1>3. InOrder /\ OneStreamAtClient => StreamsKept
  BY DEF StreamsKept
<1> QED
  BY <1>1, <1>2, <1>3, TunnelInvariant, PTL

=============================================================================
