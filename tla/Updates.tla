------------------------------- MODULE Updates -------------------------------
(***************************************************************************)
(* Data from the user's threads to the outstation: ChangeBuffer and        *)
(* VtoWriter, which those threads fill, the posted call of OnDataUpdate or *)
(* OnVtoUpdate (one handler), the work that Slave defers while it waits,   *)
(* and Database, which turns changes into events.                          *)
(*                                                                         *)
(* A user's thread commits a transaction under the lock of the buffer, in  *)
(* one step, and posts the call afterwards. The thread of the stack        *)
(* applies what it finds change by change, under the same lock; its record *)
(* is io. Of the states of Slave it matters here only whether it is        *)
(* closed, idle or waits for the outcome of a response.                    *)
(*                                                                         *)
(* ChangeBuffer has a queue for each type, so a transaction is a function  *)
(* from types to what the user changed of each, in order.                  *)
(***************************************************************************)
EXTENDS Integers, Sequences

CONSTANTS
  DatabaseSize,  \* how many points Database has of each type
  EventPoints,   \* the points <<type, index>> whose class is not 0
  Deadband,      \* of the points that are numbers
  NaN,           \* the value that is not a number
  Quality,       \* what the quality octet can be
  Transactions,  \* what users commit, each a sequence of changes for each type
  VtoRoom,       \* room of the event buffer for VTO data
  MaxVtoChunks,  \* VtoWriter::mMaxVtoChunks
  MaxCommits,    \* bound: transactions
  MaxWrites,     \* bound: chunks of VTO data
  MaxIncidents   \* bound: losses of the lower layer and requests, together

\* The order in which FlushUpdates takes the types
Types == <<"Binary", "Analog", "Counter", "ControlStatus", "SetpointStatus">>
Type == {"Binary", "Analog", "Counter", "ControlStatus", "SetpointStatus"}
Booleans == {"Binary", "ControlStatus"}
Value == Int \cup {NaN}
Change == [index : Nat, value : Value, quality : Quality]

\* A change in its transaction, the place-th of its type there
Item == [tx : Nat, place : Nat, change : Change]

DatabasePoints == UNION {{t} \X (0 .. DatabaseSize[t] - 1) : t \in Type}

ASSUME UpdatesAssumption ==
  /\ DatabaseSize \in [Type -> Nat] /\ Deadband \in Nat
  /\ EventPoints \subseteq {p \in DatabasePoints : p[1] \in {"Binary", "Analog", "Counter"}}
  /\ NaN \notin Int /\ "restart" \in Quality
  /\ Transactions \subseteq [Type -> Seq(Change)]
  /\ VtoRoom \in Nat /\ MaxVtoChunks \in Nat
  /\ MaxCommits \in Nat /\ MaxWrites \in Nat /\ MaxIncidents \in Nat

VARIABLES
  queue,     \* the queues of ChangeBuffer, by type
  lock,      \* who holds its lock
  vto,       \* how many chunks VtoWriter has
  calls,     \* threads about to notify, and calls posted
  io,        \* the thread of the stack
  db,        \* Database: the points
  vtoEvents, \* VTO events in the event buffer
  count,     \* of commits, writes and incidents
  log        \* history: changes committed and applied by type, the last event of each point,
             \* and how many flushes threw

updateVars == <<queue, lock, vto, calls, io, db, vtoEvents, count, log>>

States == {"Closed", "Idle", "Waiting"}

\* Where OnDataUpdate can be
Places == {"free", "start", "apply", "caught", "size", "vto", "flushed"}

\* A point before its first update
Unknown == [value |-> 0, quality |-> "restart", lastEvent |-> 0]
NoEvent == [value |-> 0, quality |-> "restart"]
NoChanges == [t \in Type |-> <<>>]
NonePassed == [t \in Type |-> 0]

UpdatesInit ==
  /\ queue = NoChanges /\ lock = "none" /\ vto = 0 /\ vtoEvents = 0
  /\ calls = [notifying |-> 0, posted |-> 0]
  /\ io = [state |-> "Closed",   \* mpState
           deferred |-> FALSE,   \* mDeferredUpdate
           pc |-> "free",        \* where OnDataUpdate is
           again |-> FALSE,      \* it was called by FlushDeferredEvents
           pos |-> NonePassed,   \* how many changes of each type it has applied
           available |-> 0]      \* of FlushVtoUpdates
  /\ db = [p \in DatabasePoints |-> Unknown]
  /\ count = [commits |-> 0, writes |-> 0, incidents |-> 0]
  /\ log = [committed |-> NoChanges, applied |-> NoChanges,
            events |-> [p \in EventPoints |-> NoEvent], thrown |-> 0]

---------------------------------------------------------------------------
(* The user's threads *)

\* Mutant of Unlocked: the lock is not taken.
NeverLocked == TRUE

Unlocked == lock = "none"

\* The changes t of the n-th transaction, each in its place
Numbered(t, n) ==
  [k \in Type |-> [i \in 1 .. Len(t[k]) |-> [tx |-> n, place |-> i, change |-> t[k][i]]]]

\* Start, Update for each change, and _End, which looks for changes before it unlocks
Commit ==
  /\ Unlocked /\ count.commits < MaxCommits
  /\ \E t \in Transactions :
       LET changes == Numbered(t, count.commits + 1) IN
       /\ queue' = [k \in Type |-> queue[k] \o changes[k]]
       /\ log' = [log EXCEPT !.committed = [k \in Type |-> @[k] \o changes[k]]]
  /\ calls' = [calls EXCEPT !.notifying = IF queue' # NoChanges THEN @ + 1 ELSE @]
  /\ count' = [count EXCEPT !.commits = @ + 1]
  /\ UNCHANGED <<lock, vto, io, db, vtoEvents>>

\* VtoWriter::Write, of one chunk
WriteVto ==
  /\ vto < MaxVtoChunks /\ count.writes < MaxWrites
  /\ vto' = vto + 1
  /\ calls' = [calls EXCEPT !.notifying = @ + 1]
  /\ count' = [count EXCEPT !.writes = @ + 1]
  /\ UNCHANGED <<queue, lock, io, db, vtoEvents, log>>

\* PostingNotifier
Notify ==
  /\ calls.notifying > 0
  /\ calls' = [calls EXCEPT !.notifying = @ - 1, !.posted = @ + 1]
  /\ UNCHANGED <<queue, lock, vto, io, db, vtoEvents, count, log>>

---------------------------------------------------------------------------
(* The states of Slave *)

\* Mutant of AcceptsDeferredUpdates: AS_Idle misspells its override too.
AcceptsNoDeferredUpdates(state) == FALSE

\* What AS_Closed overrides is misspelt, so it does not accept them.
AcceptsDeferredUpdates(state) == state = "Idle"

\* FlushDeferredEvents, as far as updates go
FlushDeferredEvents(x) ==
  IF AcceptsDeferredUpdates(x.state) /\ x.deferred
    THEN [x EXCEPT !.deferred = FALSE, !.pc = "start", !.again = TRUE]
    ELSE [x EXCEPT !.pc = "free", !.again = FALSE]

\* Mutant of Defer: nothing is remembered.
Forget(x) == x

Defer(x) == [x EXCEPT !.deferred = TRUE]

Free == io.pc = "free"
Buffers == <<queue, lock, vto, calls, db, log>>
Incident ==
  /\ count.incidents < MaxIncidents
  /\ count' = [count EXCEPT !.incidents = @ + 1]

\* A posted OnDataUpdate or OnVtoUpdate
OnDataUpdate ==
  /\ Free /\ calls.posted > 0
  /\ calls' = [calls EXCEPT !.posted = @ - 1]
  /\ io' = IF io.state = "Waiting" THEN FlushDeferredEvents(Defer(io))
                                   ELSE [io EXCEPT !.pc = "start"]
  /\ UNCHANGED <<queue, lock, vto, db, vtoEvents, count, log>>

OnLowerLayerUp ==
  /\ Free /\ io.state = "Closed"
  /\ io' = FlushDeferredEvents([io EXCEPT !.state = "Idle"])
  /\ UNCHANGED <<Buffers, vtoEvents, count>>

OnLowerLayerDown ==
  /\ Free /\ io.state # "Closed"
  /\ io' = FlushDeferredEvents([io EXCEPT !.state = "Closed"])
  /\ Incident
  /\ UNCHANGED <<Buffers, vtoEvents>>

\* A request is answered or the unsolicited timer expires.
StartResponse ==
  /\ Free /\ io.state = "Idle"
  /\ io' = [io EXCEPT !.state = "Waiting"]
  /\ Incident
  /\ UNCHANGED <<Buffers, vtoEvents>>

\* The response succeeds, which may clear VTO events, or fails.
ResponseEnds ==
  /\ Free /\ io.state = "Waiting"
  /\ vtoEvents' \in {vtoEvents, 0}
  /\ io' = FlushDeferredEvents([io EXCEPT !.state = "Idle"])
  /\ UNCHANGED <<Buffers, count>>

---------------------------------------------------------------------------
(* FlushUpdates *)

StartFlush ==
  /\ io.pc = "start" /\ Unlocked
  /\ IF queue = NoChanges THEN io' = [io EXCEPT !.pc = "size"] /\ UNCHANGED lock
                          ELSE io' = [io EXCEPT !.pc = "apply"] /\ lock' = "stack"
  /\ UNCHANGED <<queue, vto, calls, db, vtoEvents, count, log>>

\* The template for counters; the specialisation for doubles has the exception.
ExceedsDeadband(v, w) ==
  /\ NaN \notin {v, w}
  /\ (IF v < w THEN w - v ELSE v - w) > Deadband

\* Mutant of ShouldGenerateEvent: the deadband is around the value before.
EventFromLastValue(t, c, point) ==
  \/ c.quality # point.quality
  \/ IF t \in Booleans THEN c.value # point.value ELSE ExceedsDeadband(c.value, point.value)

ShouldGenerateEvent(t, c, point) ==
  \/ c.quality # point.quality
  \/ IF t \in Booleans THEN c.value # point.value ELSE ExceedsDeadband(c.value, point.lastEvent)

\* All changes of type t are applied.
Passed(t) == io.pos[t] = Len(queue[t])

\* The change of type t that is next, after those of the types before t
Upcoming(t) == queue[t][io.pos[t] + 1]
At(t) == <<t, Upcoming(t).change.index>>
Applying(t) ==
  /\ io.pc = "apply" /\ ~Passed(t)
  /\ \E i \in DOMAIN Types : Types[i] = t /\ \A j \in 1 .. i - 1 : Passed(Types[j])

\* Database::_Update
ApplyChange(t) ==
  /\ Applying(t) /\ At(t) \in DatabasePoints
  /\ LET p     == At(t)
         c     == Upcoming(t).change
         event == p \in EventPoints /\ ShouldGenerateEvent(t, c, db[p])
     IN
     /\ db' = [db EXCEPT ![p] =
                 [value |-> c.value, quality |-> c.quality,
                  lastEvent |-> IF event /\ t \notin Booleans THEN c.value ELSE @.lastEvent]]
     /\ log' = [log EXCEPT
                  !.applied[t] = Append(@, Upcoming(t)),
                  !.events = IF event
                               THEN [@ EXCEPT ![p] = [value |-> c.value, quality |-> c.quality]]
                               ELSE @]
  /\ io' = [io EXCEPT !.pos[t] = @ + 1]
  /\ UNCHANGED <<queue, lock, vto, calls, vtoEvents, count>>

\* IndexOutOfBoundsException: _End finds mMidFlush set, clears the buffer and unlocks.
Throw(t) ==
  /\ Applying(t) /\ At(t) \notin DatabasePoints
  /\ queue' = NoChanges /\ lock' = "none"
  /\ io' = [io EXCEPT !.pc = "caught", !.pos = NonePassed]
  /\ log' = [log EXCEPT !.thrown = @ + 1]
  /\ UNCHANGED <<vto, calls, db, vtoEvents, count>>

\* Slave::FlushUpdates clears the buffer again and returns without looking for VTO data.
Catch ==
  /\ io.pc = "caught" /\ Unlocked
  /\ queue' = NoChanges
  /\ io' = [io EXCEPT !.pc = "flushed"]
  /\ UNCHANGED <<lock, vto, calls, db, vtoEvents, count, log>>

\* Mutant of Cleared: the changes stay.
ClearedLater == queue

Cleared == NoChanges

FinishFlush ==
  /\ io.pc = "apply" /\ \A t \in Type : Passed(t)
  /\ queue' = Cleared /\ lock' = "none"
  /\ io' = [io EXCEPT !.pc = "size", !.pos = NonePassed]
  /\ UNCHANGED <<vto, calls, db, vtoEvents, count, log>>

\* FlushVtoUpdates asks for the size first and takes what there is afterwards.
LookForVto ==
  /\ io.pc = "size"
  /\ io' = [io EXCEPT !.pc = "vto", !.available = vto]
  /\ UNCHANGED <<Buffers, vtoEvents, count>>

FlushVtoUpdates ==
  /\ io.pc = "vto"
  /\ LET space == VtoRoom - vtoEvents
         taken == IF vto < space THEN vto ELSE space
     IN  /\ vto' = vto - taken /\ vtoEvents' = vtoEvents + taken
         /\ io' = [io EXCEPT !.pc = "flushed", !.deferred = @ \/ io.available > space,
                             !.available = 0]
  /\ UNCHANGED <<queue, lock, calls, db, count, log>>

\* The rest of OnDataUpdate: AS_Idle may send an unsolicited response. Then come the deferred
\* events, unless it was these that called it.
FinishDataUpdate ==
  /\ io.pc = "flushed"
  /\ \E state \in IF io.state = "Idle" THEN {"Idle", "Waiting"} ELSE {io.state} :
       LET x == [io EXCEPT !.state = state] IN
       io' = IF io.again THEN [x EXCEPT !.pc = "free", !.again = FALSE]
                         ELSE FlushDeferredEvents(x)
  /\ UNCHANGED <<Buffers, vtoEvents, count>>

Handler ==
  \/ StartFlush \/ (\E t \in Type : ApplyChange(t) \/ Throw(t)) \/ Catch \/ FinishFlush
  \/ LookForVto \/ FlushVtoUpdates \/ FinishDataUpdate

UpdatesNext ==
  \/ Commit \/ WriteVto \/ Notify
  \/ OnDataUpdate \/ OnLowerLayerUp \/ OnLowerLayerDown \/ StartResponse \/ ResponseEnds
  \/ Handler

UpdatesSpec == UpdatesInit /\ [][UpdatesNext]_updateVars

\* The io_service runs what is posted, each response ends (SendCompletes of AppLayer), and a
\* thread that has committed notifies.
FairSpec ==
  /\ UpdatesSpec /\ WF_updateVars(Notify) /\ WF_updateVars(OnDataUpdate)
  /\ WF_updateVars(Handler) /\ WF_updateVars(ResponseEnds)

---------------------------------------------------------------------------
(* Properties *)

\* The types of the buffer, the database and the handler's state; the lock is held exactly
\* while changes are applied (Transaction in ChangeBuffer::FlushUpdates).
BuffersTypeOK ==
  /\ queue \in [Type -> Seq(Item)]
  /\ \A t \in Type : \A i \in 1 .. Len(queue[t]) : queue[t][i].tx <= count.commits
  /\ vto \in 0 .. MaxVtoChunks /\ vtoEvents \in 0 .. VtoRoom
  /\ calls \in [notifying : Nat, posted : Nat]
  /\ db \in [DatabasePoints -> [value : Value, quality : Quality, lastEvent : Value]]
  /\ io \in [state : States, deferred : BOOLEAN, pc : Places, again : BOOLEAN,
            pos : [Type -> Nat], available : Nat]
  /\ \A t \in Type : io.pos[t] <= Len(queue[t])
  /\ io.pc # "apply" => io.pos = NonePassed
  /\ lock = IF io.pc = "apply" THEN "stack" ELSE "none"

\* What waits for the stack has something that will make the stack look for it: a thread about
\* to notify, a posted call, a deferred update or the handler itself. An exception leaves
\* VTO data behind without any (Slave::FlushUpdates).
NothingStranded ==
  LET called == calls.notifying > 0 \/ calls.posted > 0 \/ io.deferred IN
  /\ queue # NoChanges => called \/ io.pc \in {"start", "apply", "caught"}
  /\ vto > 0 /\ log.thrown = 0 => called \/ io.pc \in {"start", "apply", "size", "vto"}

\* The buffers, the lock and the calls that announce them agree (ChangeBuffer, VtoWriter,
\* Slave::FlushDeferredEvents).
BuffersAnnounced == BuffersTypeOK /\ NothingStranded

Remaining(t) == SubSeq(queue[t], io.pos[t] + 1, Len(queue[t]))

\* c was committed before d.
Precedes(c, d) == c.tx < d.tx \/ (c.tx = d.tx /\ c.place < d.place)

\* The changes of a type reach the database in the order in which they were committed, each
\* once, and none is missing unless a flush threw (ChangeBuffer::FlushUpdates).
ChangesAccounted ==
  \A t \in Type :
    /\ \A i, j \in 1 .. Len(log.applied[t]) : i < j => Precedes(log.applied[t][i], log.applied[t][j])
    /\ log.thrown = 0 => log.committed[t] = log.applied[t] \o Remaining(t)

\* Of the changes s those of the transaction tx
OfTransaction(s, tx) == {s[i] : i \in {j \in 1 .. Len(s) : s[j].tx = tx}}

\* All changes of a transaction were applied, or none; and all of its points exist.
IsApplied(tx) ==
  \/ \A t \in Type : OfTransaction(log.applied[t], tx) = OfTransaction(log.committed[t], tx)
  \/ \A t \in Type : OfTransaction(log.applied[t], tx) = {}
Valid(tx) ==
  \A t \in Type : \A c \in OfTransaction(log.committed[t], tx) :
    <<t, c.change.index>> \in DatabasePoints

\* Nothing reads the database in the middle of a transaction: whenever the stack is free to
\* answer, each transaction is in it as a whole or not at all, unless a flush threw.
WholeUnlessThrown ==
  Free /\ log.thrown = 0 => \A tx \in 1 .. count.commits : IsApplied(tx)

\* Transactions reach the database once, in order and whole (ChangeBuffer).
TransactionsApplied == ChangesAccounted /\ WholeUnlessThrown

\* What the master knows from events is never off by more than the deadband, however slowly a
\* value drifts and whatever flushes threw; a boolean and a quality are known exactly
\* (ShouldGenerateEvent, mLastEventValue). A value that is no number compares with none.
DriftIsReported ==
  \A p \in EventPoints :
    LET e == log.events[p] IN
    /\ db[p].quality = e.quality
    /\ IF p[1] \in Booleans THEN db[p].value = e.value ELSE ~ExceedsDeadband(db[p].value, e.value)

\* Transaction tx has changes in the buffer.
Waits(tx) == \E t \in Type : \E i \in 1 .. Len(queue[t]) : queue[t][i].tx = tx

\* Each transaction is taken from the buffer in the end, unless the lower layer is down.
CommittedIsFlushed ==
  \A tx \in 1 .. MaxCommits : Waits(tx) ~> (io.state = "Closed" \/ ~Waits(tx))

\* "that should be handled as a group so the data isn't unecessarily inconsistant"
\* (ITransactable.h): a transaction of valid points is never seen in part.
GroupsAreWhole ==
  Free => \A tx \in 1 .. count.commits : Valid(tx) => IsApplied(tx)

\* "Deferred until we enter a state that can handle it" (SlaveStates.cpp): AS_Closed handles
\* data updates at once, so none is deferred in it. VTO data may lack room.
DeferredUntilHandled == Free /\ io.state = "Closed" /\ vto = 0 => ~io.deferred
=============================================================================
