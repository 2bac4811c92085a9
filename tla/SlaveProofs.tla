------------------------------ MODULE SlaveProofs ------------------------------
(***************************************************************************)
(* Proofs about Slave, for every value of its constants: the outstation    *)
(* keeps pace with the channels of the application layer, loses no event,  *)
(* erases none that was not confirmed, and executes and answers each       *)
(* request in its turn.                                                    *)
(*                                                                         *)
(* One invariant carries them all. It is a predicate of the record of the  *)
(* outstation, since a handler is an operator on records: each handler has *)
(* a lemma on what it needs and what it leaves behind, and a handler that  *)
(* ends with FlushDeferredEvents, or calls another one, uses theirs. An    *)
(* action is then one handler, applied to a record that the channel below  *)
(* has changed. Where a handler changes a few fields, SameBut says which.  *)
(***************************************************************************)
EXTENDS Slave, FiniteSetTheorems, NaturalsInduction, WellFoundedInduction, TLAPS

---------------------------------------------------------------------------
(* The inductive invariant, of a record x of the outstation. Its parameters: *)
(* u, the number of updates; q, the number of requests; d, how often the     *)
(* lower layer was lost.                                                     *)

WaitsForResponse == {"WaitForRspSuccess", "WaitForSolUnsolSuccess"}
WaitsForUnsol == {"WaitForUnsolSuccess", "WaitForSolUnsolSuccess"}
AwaitsConfirm == {"SendConfirmed", "WaitForConfirm"}

Distinct(q) == \A i, j \in DOMAIN q : q[i] = q[j] => i = j

\* The record has its type, and a deferred request could be parsed.
Typed(x) ==
  /\ x \in Outstation /\ x.written <= Len(x.selected)
  /\ x.request.fc # "UNKNOWN"

\* Every update is in one place.
Accounted(x, u) ==
  /\ x.changes \cup x.events \cup ToSet(x.selected) \cup x.erased = 1 .. u
  /\ x.changes \cap (x.events \cup ToSet(x.selected) \cup x.erased) = {}
  /\ x.events \cap (ToSet(x.selected) \cup x.erased) = {}
  /\ ToSet(x.selected) \cap x.erased = {}
  /\ Distinct(x.selected)

\* A request is executed once, and one that is deferred and not a repetition has not been.
ExecutedOnce(x, q) ==
  /\ Distinct(x.executed)
  /\ ToSet(x.executed) \subseteq 1 .. q
  /\ x.deferredRequest /\ ~x.request.prev => x.request.id \in (1 .. q) \ ToSet(x.executed)

\* What holds even after the program has ended, except for how it ended
Kept(x, u, q, d) ==
  /\ Typed(x) /\ Accounted(x, u) /\ ExecutedOnce(x, q)
  /\ d = 0 => x.erased \subseteq x.confirmed

\* No assertion of AppLayer fails and no state throws; a response without a sequence is sent
\* only after a loss of the lower layer.
Ends(x, d) ==
  /\ x.error \notin {"busy", "state"}
  /\ x.error = "sequence" => d # 0

\* The state follows the channels.
Solicits(x) == x.sol # "Idle" <=> x.state \in WaitsForResponse
Reports(x) == x.uns # "Idle" <=> x.state \in WaitsForUnsol

\* A request is deferred only while no response waits for a confirmation or has another
\* fragment to follow.
Postponed(x) ==
  /\ x.deferredRequest => x.sol \notin AwaitsConfirm
  /\ x.state = "WaitForSolUnsolSuccess" => x.sol \notin AwaitsConfirm
  /\ x.deferredRequest /\ x.state = "WaitForRspSuccess" => x.static = 0 \/ x.sol = "SendCanceled"

\* The deferred request is the one heard last.
Current(x, d) ==
  x.deferredRequest =>
    x.deferredUnknown \/ x.request.id = x.heard \/ (x.heard = 0 /\ d # 0)

\* What is answered is what was heard last.
Answered(x, d) ==
  /\ x.deferredUnknown \/ x.answered[1] = x.answered[2]
  /\ d = 0 /\ x.heard = 0 => ~x.deferredRequest /\ ~x.deferredUnknown /\ x.state \notin WaitsForResponse

Written(x) == ToSet(SubSeq(x.selected, 1, x.written))

\* What is marked as written is in the fragment that is being sent.
Covered(x) ==
  /\ x.state \in WaitsForUnsol => Written(x) \subseteq x.unsEvents
  /\ x.state = "WaitForRspSuccess" => Written(x) \subseteq x.solEvents
  /\ x.state \in {"Closed", "Idle"} => x.selected = <<>>

Unreported(x) == x.events \cup ToSet(x.selected)

\* A timer that runs expires; nothing is confirmed before the lower layer is up.
Timed(x) ==
  /\ x.timer => x.armed > 0
  /\ x.state = "Closed" => ~x.nullUnsol

\* Something will look at the events that may be reported.
Triggered(x) ==
  x.nullUnsol /\ ~config.disableUnsol /\ x.mask /\ Unreported(x) # {} =>
    x.armed > 0 \/ x.deferredUnsol \/ x.state \in WaitsForUnsol

\* What holds as long as the program runs
Steady(x, d) ==
  /\ Solicits(x) /\ Reports(x) /\ Postponed(x) /\ Current(x, d) /\ Answered(x, d)
  /\ d = 0 => Covered(x) /\ Timed(x)

Live(x, d) == Steady(x, d) /\ (d = 0 => Triggered(x))

Good(x, u, q, d) == Kept(x, u, q, d) /\ Ends(x, d) /\ (x.error = "none" => Live(x, d))

\* Nothing that AS_Idle would handle is left.
Settled(x) == x.state = "Idle" => ~x.deferredRequest /\ ~x.deferredUnsol /\ ~x.deferredUpdate

Configs == [disableUnsol : BOOLEAN, packDelayZero : BOOLEAN, retryDelayZero : BOOLEAN]

Inv ==
  /\ Good(s, updates, requests, downs)
  /\ s.error = "none" => Settled(s) /\ s.heard = last.id
  /\ ~last.prev /\ last.id \in 0 .. requests
  /\ config \in Configs
  /\ last \in Request /\ {posted, updates, requests, repeats, downs} \subseteq Nat

---------------------------------------------------------------------------
(* Numbers, and recursion over them *)

\* The smaller of two numbers
LEMMA MinOfTwo ==
  ASSUME NEW a \in Nat, NEW b \in Nat
  PROVE  Min({a, b}) \in {a, b} /\ Min({a, b}) <= a /\ Min({a, b}) <= b
<1>1. \E m \in {a, b} : \A n \in {a, b} : m <= n
  OBVIOUS
<1>2. Min({a, b}) \in {a, b} /\ \A n \in {a, b} : Min({a, b}) <= n
  BY <1>1 DEF Min
<1>3. QED
  BY <1>2

\* The larger of two
LEMMA MaxOfTwo ==
  ASSUME NEW a \in Nat, NEW b \in Nat
  PROVE  Max({a, b}) \in {a, b} /\ Max({a, b}) >= a /\ Max({a, b}) >= b
<1>1. \E m \in {a, b} : \A n \in {a, b} : m >= n
  OBVIOUS
<1>2. Max({a, b}) \in {a, b} /\ \A n \in {a, b} : Max({a, b}) >= n
  BY <1>1 DEF Max
<1>3. QED
  BY <1>2

\* Every set of numbers that is not empty has a least one.
LEMMA LeastNumber ==
  ASSUME NEW T \in SUBSET Nat, T # {}
  PROVE  \E x \in T : \A y \in T : x <= y
<1>1. IsWellFoundedOn(OpToRel(<, Nat), Nat)
  BY NatLessThanWellFounded
<1>2. PICK x \in T : \A y \in T : ~(<<y, x>> \in OpToRel(<, Nat))
  BY <1>1, WFMin
<1>3. \A y \in T : ~(y < x)
  BY <1>2 DEF OpToRel
<1>4. x \in Nat /\ T \subseteq Nat
  OBVIOUS
<1> HIDE <1>1, <1>2
<1> QED BY <1>3, <1>4

\* How far LoadEvents is with N selected events
Loads(N) ==
  [queue : Seq(Nat), remain : 0 .. N, room : 0 .. FragSize, written : 0 .. N, full : BOOLEAN]

\* n steps from base
Runs(S, n, base, step) ==
  \E g \in [0 .. n -> S] : g[0] = base /\ \A i \in 1 .. n : g[i] = step[i, g[i - 1]]

\* A function on pairs can be iterated: the loop of LoadEvents has a result.
LEMMA Iterate ==
  ASSUME NEW S, NEW n \in Nat, NEW base \in S, NEW step \in [(1 .. n) \X S -> S]
  PROVE  Runs(S, n, base, step)
<1> DEFINE Upto(m) == \E g \in [0 .. m -> S] : g[0] = base /\ \A i \in 1 .. m : g[i] = step[i, g[i - 1]]
           T == {m \in 0 .. n : ~Upto(m)}
<1>1. Upto(0)
  <2> DEFINE g == [i \in 0 .. 0 |-> base]
  <2>1. g \in [0 .. 0 -> S] /\ g[0] = base /\ \A i \in 1 .. 0 : FALSE
    OBVIOUS
  <2> HIDE DEF g
  <2>2. QED
    BY <2>1
<1>2. ASSUME NEW m \in 0 .. n, m + 1 \in 0 .. n, Upto(m)
      PROVE  Upto(m + 1)
  <2>0. /\ m \in Nat /\ m \in 0 .. m /\ 0 \in 0 .. m /\ m + 1 \in 1 .. n
        /\ \A i \in 0 .. m + 1 : i # m + 1 => i \in 0 .. m
        /\ \A i \in 1 .. m + 1 : i - 1 \in 0 .. m /\ (i # m + 1 => i \in 1 .. m /\ i \in 0 .. m)
        /\ \A i \in 0 .. m : i \in 0 .. m + 1 /\ i # m + 1
        /\ m + 1 \in 0 .. m + 1 /\ (m + 1) - 1 = m
    <3> m \in 0 .. n /\ m + 1 \in 0 .. n
      BY <1>2
    <3> HIDE <1>2
    <3> HIDE DEF Upto
    <3>1. m \in Nat /\ m + 1 <= n
      OBVIOUS
    <3>2. QED
      BY <3>1
  <2>1. PICK g \in [0 .. m -> S] : g[0] = base /\ \A i \in 1 .. m : g[i] = step[i, g[i - 1]]
    BY <1>2
  <2>2. m \in 0 .. m /\ m + 1 \in 1 .. n /\ g[m] \in S
    BY <2>0, <2>1
  <2>3. step[m + 1, g[m]] \in S
    <3>1. <<m + 1, g[m]>> \in (1 .. n) \X S
      BY <2>2
    <3>2. QED
      BY <3>1
  <2> DEFINE h == [i \in 0 .. m + 1 |-> IF i = m + 1 THEN step[m + 1, g[m]] ELSE g[i]]
  <2>5. h \in [0 .. m + 1 -> S]
    BY <2>0, <2>1, <2>3
  <2>6. /\ \A i \in 0 .. m : h[i] = g[i]
        /\ h[m + 1] = step[m + 1, g[m]]
    BY <2>0
  <2> HIDE DEF h
  <2>8. h[0] = base /\ \A i \in 1 .. m + 1 : h[i] = step[i, h[i - 1]]
    <3>2. ASSUME NEW i \in 1 .. m + 1
          PROVE  h[i] = step[i, h[i - 1]]
      <4>1. CASE i = m + 1
        BY <2>0, <2>6, <4>1
      <4>2. CASE i # m + 1
        <5>1. i \in 1 .. m /\ i \in 0 .. m /\ i - 1 \in 0 .. m
          BY <2>0, <4>2
        <5>2. QED
          BY <2>1, <2>6, <5>1
      <4>3. QED
        BY <4>1, <4>2
    <3>3. QED
      BY <2>0, <2>1, <2>6, <3>2
  <2>9. QED
    BY <2>5, <2>8
<1> HIDE DEF Upto
<1>3. T = {}
  <2>1. SUFFICES ASSUME T # {}
                 PROVE  FALSE
    OBVIOUS
  <2>2. T \in SUBSET Nat
    OBVIOUS
  <2>3. PICK m \in T : \A k \in T : m <= k
    BY <2>1, <2>2, LeastNumber
  <2>4. m \in 0 .. n /\ ~Upto(m) /\ m # 0
    BY <2>3, <1>1
  <2>5. m - 1 \in 0 .. n /\ (m - 1) + 1 = m /\ ~(m <= m - 1)
    BY <2>4
  <2>6. Upto(m - 1)
    BY <2>3, <2>5
  <2>7. QED
    BY <1>2, <2>4, <2>5, <2>6
<1>4. Upto(n)
  BY <1>3
<1>5. QED
  BY <1>4 DEF Upto, Runs

\* One request of the loop keeps the events that are written and those that remain a partition
\* of the selection (ResponseContext::LoadEvents).
LEMMA LoadRequestKeeps ==
  ASSUME NEW N \in Nat, NEW l \in Loads(N), l.remain + l.written = N, NEW c \in Nat
  PROVE  LoadRequest(l, c) \in Loads(N) /\ LoadRequest(l, c).remain + LoadRequest(l, c).written = N
<1> DEFINE wanted  == Min({c, l.remain})
           written == Min({wanted, l.room})
<1>1. l.queue \in Seq(Nat) /\ l.remain \in 0 .. N /\ l.room \in 0 .. FragSize /\ l.written \in 0 .. N
  BY DEF Loads
<1>2. wanted \in 0 .. l.remain /\ written \in 0 .. wanted /\ written <= l.room
  <2>1. l.remain \in Nat /\ l.room \in Nat
    BY <1>1, SlaveAssumption
  <2>2. wanted \in Nat /\ wanted <= l.remain
    BY <2>1, MinOfTwo
  <2> HIDE DEF wanted
  <2>3. written \in Nat /\ written <= wanted /\ written <= l.room
    BY <2>1, <2>2, MinOfTwo
  <2> HIDE DEF written
  <2>4. QED
    BY <2>1, <2>2, <2>3
<1>3. CASE l.full \/ l.remain = 0
  <2>1. Append(l.queue, c) \in Seq(Nat)
    BY <1>1
  <2>2. LoadRequest(l, c) = [l EXCEPT !.queue = Append(l.queue, c)]
    BY <1>3 DEF LoadRequest
  <2>3. QED
    BY <2>1, <2>2 DEF Loads
<1>4. CASE ~(l.full \/ l.remain = 0)
  <2>1. LoadRequest(l, c) = [l EXCEPT !.remain = @ - written, !.room = @ - written,
                          !.written = @ + written, !.full = written # wanted,
                          !.queue = IF written = wanted THEN @ ELSE Append(@, wanted - written)]
    BY <1>4 DEF LoadRequest
  <2> HIDE DEF wanted, written
  <2>2. /\ l.remain - written \in 0 .. N /\ l.room - written \in 0 .. FragSize
        /\ l.written + written \in 0 .. N /\ wanted - written \in Nat
    <3>1. FragSize \in Nat /\ l.remain \in 0 .. N /\ l.room \in 0 .. FragSize /\ l.written \in 0 .. N
      BY <1>1, SlaveAssumption
    <3>2. l.remain - written \in 0 .. N /\ wanted - written \in Nat
      BY <1>2, <3>1
    <3>3. l.room - written \in 0 .. FragSize
      BY <1>2, <3>1
    <3>4. l.written + written \in 0 .. N
      BY <1>2, <3>1
    <3>5. QED
      BY <3>2, <3>3, <3>4
  <2>3. (IF written = wanted THEN l.queue ELSE Append(l.queue, wanted - written)) \in Seq(Nat)
    <3>1. l.queue \in Seq(Nat)
      BY <1>1
    <3>2. Append(l.queue, wanted - written) \in Seq(Nat)
      BY <2>2, <3>1
    <3>3. QED
      BY <3>1, <3>2
  <2>4. QED
    <3> DEFINE w == IF written = wanted THEN l.queue ELSE Append(l.queue, wanted - written)
    <3>1. LoadRequest(l, c) = [l EXCEPT !.remain = l.remain - written, !.room = l.room - written,
                          !.written = l.written + written, !.full = written # wanted, !.queue = w]
      BY <2>1
    <3> HIDE DEF w
    <3>2. w \in Seq(Nat)
      BY <2>3 DEF w
    <3>3. (l.remain - written) + (l.written + written) = N
      BY <1>1, <1>2
    <3>4. LoadRequest(l, c) \in Loads(N)
      BY <2>2, <3>1, <3>2 DEF Loads
    <3>5. /\ LoadRequest(l, c).remain = l.remain - written
          /\ LoadRequest(l, c).written = l.written + written
      BY <3>1 DEF Loads
    <3>6. QED
      BY <3>3, <3>4, <3>5
<1>5. QED
  BY <1>3, <1>4

\* No more is loaded than is selected (ResponseContext::LoadEvents).
LEMMA LoadEventsFits ==
  ASSUME NEW x, x.queue \in Seq(Nat), NEW S, x.selected \in Seq(S)
  PROVE  LoadEvents(x) \in {l \in Loads(Len(x.selected)) : l.remain + l.written = Len(x.selected)}
<1> DEFINE N == Len(x.selected)
           n == Len(x.queue)
           A == {l \in Loads(N) : l.remain + l.written = N}
           base == [queue |-> <<>>, remain |-> N, room |-> FragSize, written |-> 0, full |-> FALSE]
           step == [p \in (1 .. n) \X A |-> LoadRequest(p[2], x.queue[p[1]])]
           Is(f) == f = [i \in 0 .. n |-> IF i = 0 THEN base ELSE LoadRequest(f[i - 1], x.queue[i])]
           after == CHOOSE f : Is(f)
<1>1. base \in A
  BY SlaveAssumption DEF Loads
<1>2. step \in [(1 .. n) \X A -> A]
  <2>1. \A i \in 1 .. n : x.queue[i] \in Nat
    OBVIOUS
  <2>3. N \in Nat
    OBVIOUS
  <2> HIDE DEF N
  <2>2. ASSUME NEW i \in 1 .. n, NEW l \in A
        PROVE  LoadRequest(l, x.queue[i]) \in A
    <3>1. x.queue[i] \in Nat /\ l \in Loads(N) /\ l.remain + l.written = N
      BY <2>1
    <3>2. QED
      BY <2>3, <3>1, LoadRequestKeeps
  <2>. QED BY <2>2
<1>3. n \in Nat
  OBVIOUS
<1> HIDE DEF A, base, n, step, N, Is, after
<1>4. PICK g \in [0 .. n -> A] : g[0] = base /\ \A i \in 1 .. n : g[i] = step[i, g[i - 1]]
  <2>1. Runs(A, n, base, step)
    BY <1>1, <1>2, <1>3, Iterate
  <2>2. QED
    BY <2>1 DEF Runs
<1> USE DEF Is, after
<1>5. Is(g)
  <2>1. ASSUME NEW i \in 1 .. n
        PROVE  g[i] = LoadRequest(g[i - 1], x.queue[i])
    <3>1. i - 1 \in 0 .. n
      BY <1>3
    <3>4. g[i - 1] \in A
      BY <1>4, <3>1
    <3>2. step[i, g[i - 1]] = LoadRequest(g[i - 1], x.queue[i])
      BY <3>4 DEF step
    <3>3. QED
      BY <1>4, <3>2
  <2>2. \A i \in 0 .. n : g[i] = IF i = 0 THEN base ELSE LoadRequest(g[i - 1], x.queue[i])
    <3>1. \A i \in 0 .. n : i # 0 => i \in 1 .. n
      BY <1>3
    <3>2. QED
      BY <1>4, <2>1, <3>1
  <2>3. QED
    BY <2>2
<1>6. Is(after)
  BY <1>5
<1>7. LoadEvents(x) = after[n]
  BY DEF LoadEvents, n, base, N
<1>8. n \in 0 .. n
  BY <1>3
<1>9. after[n] \in A
  <2>1. /\ after[0] = base
        /\ \A i \in 0 .. n : i # 0 => after[i] = LoadRequest(after[i - 1], x.queue[i])
    <3>1. 0 \in 0 .. n
      BY <1>3
    <3> DEFINE f == after
    <3>2. f = [i \in 0 .. n |-> IF i = 0 THEN base ELSE LoadRequest(f[i - 1], x.queue[i])]
      BY <1>6
    <3> HIDE DEF f
    <3>3. f[0] = base /\ \A i \in 0 .. n : i # 0 => f[i] = LoadRequest(f[i - 1], x.queue[i])
      BY <3>1, <3>2
    <3>4. QED
      BY <3>3 DEF f
  <2> HIDE DEF after, Is
  <2> DEFINE T == {i \in 0 .. n : after[i] \notin A}
  <2>2. SUFFICES ASSUME T # {}
                 PROVE  FALSE
    BY <1>8
  <2>3. T \in SUBSET Nat
    OBVIOUS
  <2>4. PICK i \in T : \A k \in T : i <= k
    BY <2>2, <2>3, LeastNumber
  <2>5. i \in 0 .. n /\ after[i] \notin A /\ i # 0
    BY <1>1, <2>1, <2>4
  <2>6. i \in 1 .. n /\ i - 1 \in 0 .. n /\ ~(i <= i - 1)
    BY <1>3, <2>5
  <2>7. after[i - 1] \in A
    BY <2>4, <2>6
  <2>8. step[i, after[i - 1]] \in A /\ step[i, after[i - 1]] = LoadRequest(after[i - 1], x.queue[i])
    BY <1>2, <2>6, <2>7 DEF step
  <2>9. QED
    BY <2>1, <2>5, <2>6, <2>8
<1>10. QED
  BY <1>7, <1>9 DEF A, N

\* The n oldest events, the oldest first, as a predicate.
Orders(chosen, events, n) ==
  \A i \in 1 .. n :
    /\ \A j \in 1 .. i - 1 : chosen[j] < chosen[i]
    /\ \A e \in events : e < chosen[i] => \E j \in 1 .. i - 1 : chosen[j] = e

\* One more event is the oldest of those that are left (ResponseContext::SelectEvents).
LEMMA OneMore ==
  ASSUME NEW S \in SUBSET Nat, NEW m \in Nat, m + 1 <= Cardinality(S),
         NEW c \in [1 .. m -> S], Orders(c, S, m)
  PROVE  \E h \in [1 .. m + 1 -> S] : Orders(h, S, m + 1)
<1> DEFINE rest == {e \in S : \A j \in 1 .. m : c[j] # e}
<1>1. rest # {}
  <2>1. SUFFICES ASSUME rest = {}
                 PROVE  FALSE
    OBVIOUS
  <2>2. c \in Surjection(1 .. m, S)
    BY <2>1 DEF Surjection
  <2>3. Cardinality(S) <= Cardinality(1 .. m) /\ Cardinality(1 .. m) = m
    <3>1. IsFiniteSet(1 .. m) /\ Cardinality(1 .. m) = IF 1 > m THEN 0 ELSE m - 1 + 1
      BY FS_Interval
    <3>2. Cardinality(S) <= Cardinality(1 .. m)
      BY <2>2, <3>1, FS_Surjection
    <3>3. QED
      BY <3>1, <3>2
  <2>4. IsFiniteSet(S)
    <3>1. IsFiniteSet(1 .. m)
      BY FS_Interval
    <3>2. QED
      BY <2>2, <3>1, FS_Surjection
  <2>5. Cardinality(S) \in Nat
    BY <2>4, FS_CardinalityType
  <2>6. QED
    BY <2>3, <2>5
<1>2. PICK e \in rest : \A d \in rest : e <= d
  BY <1>1, LeastNumber
<1> DEFINE h == [i \in 1 .. m + 1 |-> IF i = m + 1 THEN e ELSE c[i]]
<1>3. h \in [1 .. m + 1 -> S]
  BY <1>2
<1>4. h[m + 1] = e /\ \A i \in 1 .. m : h[i] = c[i]
  OBVIOUS
<1>5. ASSUME NEW i \in 1 .. m + 1
      PROVE  /\ \A j \in 1 .. i - 1 : h[j] < h[i]
             /\ \A d \in S : d < h[i] => \E j \in 1 .. i - 1 : h[j] = d
  <2>1. CASE i = m + 1
    <3>1. ASSUME NEW j \in 1 .. m
          PROVE  c[j] < e
      <4>1. c[j] \in S /\ e \in S /\ c[j] # e /\ c[j] \in Nat /\ e \in Nat
        BY <1>2
      <4>2. SUFFICES ASSUME e < c[j]
                     PROVE  FALSE
        <5> HIDE DEF rest
        <5> QED BY <4>1
      <4>3. PICK k \in 1 .. j - 1 : c[k] = e
        BY <4>1, <4>2 DEF Orders
      <4>4. k \in 1 .. m
        OBVIOUS
      <4>5. QED
        BY <1>2, <4>3, <4>4
    <3>2. ASSUME NEW d \in S, d < e
          PROVE  \E j \in 1 .. m : c[j] = d
      <4>1. ~(e <= d)
        BY <1>2, <3>2
      <4>2. QED
        BY <1>2, <4>1
    <3>3. QED
      BY <1>4, <2>1, <3>1, <3>2
  <2>2. CASE i # m + 1
    <3>1. i \in 1 .. m /\ \A j \in 1 .. i - 1 : j \in 1 .. m
      BY <2>2
    <3>2. h[i] = c[i] /\ \A j \in 1 .. i - 1 : h[j] = c[j]
      BY <1>4, <3>1
    <3>3. QED
      BY <3>1, <3>2 DEF Orders
  <2>3. QED
    BY <2>1, <2>2
<1>6. QED
  BY <1>3, <1>5 DEF Orders

\* What SelectEvents selects is in the buffer, each event once.
LEMMA OldestSelects ==
  ASSUME NEW S \in SUBSET Nat, NEW n \in Nat, n <= Cardinality(S), Cardinality(S) \in Nat
  PROVE  Oldest(S, n) \in [1 .. n -> S] /\ Orders(Oldest(S, n), S, n)
<1> DEFINE Exists(m) == \E c \in [1 .. m -> S] : Orders(c, S, m)
           T == {m \in 0 .. n : ~Exists(m)}
<1>1. Exists(0)
  <2> DEFINE c == [i \in 1 .. 0 |-> 0]
  <2>1. c \in [1 .. 0 -> S] /\ Orders(c, S, 0)
    BY DEF Orders
  <2> HIDE DEF c
  <2>2. QED
    BY <2>1
<1>2. ASSUME NEW m \in 0 .. n, m + 1 \in 0 .. n, Exists(m)
      PROVE  Exists(m + 1)
  <2>1. m \in Nat /\ m + 1 <= Cardinality(S)
    BY <1>2
  <2>2. PICK c \in [1 .. m -> S] : Orders(c, S, m)
    BY <1>2
  <2>3. QED
    BY <2>1, <2>2, OneMore
<1> HIDE DEF Exists
<1>3. T = {}
  <2>1. SUFFICES ASSUME T # {}
                 PROVE  FALSE
    OBVIOUS
  <2>2. T \in SUBSET Nat
    OBVIOUS
  <2>3. PICK m \in T : \A k \in T : m <= k
    BY <2>1, <2>2, LeastNumber
  <2>4. m \in 0 .. n /\ ~Exists(m) /\ m # 0
    BY <2>3, <1>1
  <2>5. m - 1 \in 0 .. n /\ (m - 1) + 1 = m /\ ~(m <= m - 1)
    BY <2>4
  <2>6. Exists(m - 1)
    BY <2>3, <2>5
  <2>7. QED
    BY <1>2, <2>4, <2>5, <2>6
<1>4. Exists(n)
  BY <1>3
<1>5. \E c \in [1 .. n -> S] : Orders(c, S, n)
  BY <1>4 DEF Exists
<1>6. QED
  BY <1>5 DEF Oldest, Orders

\* What SelectEvents selects is in the buffer, each event once.
LEMMA OldestFacts ==
  ASSUME NEW S \in SUBSET Nat, NEW n \in Nat, n <= Cardinality(S), Cardinality(S) \in Nat
  PROVE  /\ Oldest(S, n) \in Seq(Nat) /\ Len(Oldest(S, n)) = n
         /\ ToSet(Oldest(S, n)) \subseteq S
         /\ \A i, j \in DOMAIN Oldest(S, n) : Oldest(S, n)[i] = Oldest(S, n)[j] => i = j
<1> DEFINE c == Oldest(S, n)
<1>1. c \in [1 .. n -> S] /\ Orders(c, S, n)
  BY OldestSelects
<1> HIDE DEF c
<1>2. c \in [1 .. n -> Nat]
  BY <1>1
<1>3. c \in Seq(Nat) /\ Len(c) = n
  BY <1>2
<1>4. ToSet(c) \subseteq S
  BY <1>1 DEF ToSet
<1>5. ASSUME NEW i \in 1 .. n, NEW j \in 1 .. n, c[i] = c[j]
      PROVE  i = j
  <2>1. c[i] \in Nat /\ c[j] \in Nat
    BY <1>2
  <2>2. \A a, b \in 1 .. n : a < b => c[a] < c[b]
    BY <1>1 DEF Orders
  <2>3. QED
    BY <1>5, <2>1, <2>2
<1>6. QED
  BY <1>1, <1>3, <1>4, <1>5 DEF c

---------------------------------------------------------------------------
(* The operators of ResponseContext *)

Fields ==
  {"state", "deferredUpdate", "deferredRequest", "deferredUnsol", "deferredUnknown", "request",
   "nullUnsol", "mask", "timer", "armed", "changes", "events", "selected", "written", "queue",
   "static", "fir", "loaded", "sol", "uns", "heard", "solEvents", "unsEvents", "error", "erased",
   "confirmed", "executed", "acknowledged", "overwritten", "answered"}

SameBut(x, y, F) == \A f \in Fields \ F : y[f] = x[f]

\* Nothing is selected.
LEMMA EmptyFacts ==
  <<>> \in Numbers /\ Len(<<>>) = 0 /\ ToSet(<<>>) = {} /\ Distinct(<<>>)
BY DEF Numbers, ToSet, Distinct

\* What is cut from the front of the selection and what is left (ResponseContext::ClearWritten).
LEMMA SplitFacts ==
  ASSUME NEW q \in Numbers, NEW n \in Nat, n <= Len(q), Distinct(q)
  PROVE  /\ SubSeq(q, n + 1, Len(q)) \in Numbers /\ Distinct(SubSeq(q, n + 1, Len(q)))
         /\ ToSet(SubSeq(q, 1, n)) \cup ToSet(SubSeq(q, n + 1, Len(q))) = ToSet(q)
         /\ ToSet(SubSeq(q, 1, n)) \cap ToSet(SubSeq(q, n + 1, Len(q))) = {}
<1> DEFINE a == SubSeq(q, 1, n)
           b == SubSeq(q, n + 1, Len(q))
<1>1. q \in Seq(Nat) /\ Len(q) \in Nat
  BY DEF Numbers
<1>2. a \in Seq(Nat) /\ Len(a) = n /\ \A i \in 1 .. n : a[i] = q[i]
  BY <1>1
<1>3. b \in Seq(Nat) /\ Len(b) = Len(q) - n /\ \A i \in 1 .. Len(q) - n : b[i] = q[n + i]
  BY <1>1
<1> HIDE DEF a, b
<1>4. DOMAIN q = 1 .. Len(q) /\ DOMAIN a = 1 .. n /\ DOMAIN b = 1 .. Len(q) - n
  BY <1>1, <1>2, <1>3
<1>5. \A i \in 1 .. Len(q) - n : n + i \in 1 .. Len(q)
  BY <1>1
<1>6. Distinct(b)
  <2>1. ASSUME NEW i \in 1 .. Len(q) - n, NEW j \in 1 .. Len(q) - n, b[i] = b[j]
        PROVE  i = j
    <3>1. q[n + i] = q[n + j] /\ n + i \in 1 .. Len(q) /\ n + j \in 1 .. Len(q)
      BY <1>3, <1>5, <2>1
    <3>2. n + i = n + j
      BY <1>4, <3>1 DEF Distinct
    <3>3. QED
      BY <3>2
  <2>2. QED
    BY <1>4, <2>1 DEF Distinct
<1>7. ToSet(a) \cup ToSet(b) = ToSet(q)
  <2>1. \A i \in 1 .. n : i \in 1 .. Len(q)
    BY <1>1
  <2>2. ToSet(a) \subseteq ToSet(q) /\ ToSet(b) \subseteq ToSet(q)
    <3>1. \A i \in 1 .. n : a[i] \in ToSet(q)
      BY <1>2, <1>4, <2>1 DEF ToSet
    <3>2. \A i \in 1 .. Len(q) - n : b[i] \in ToSet(q)
      BY <1>3, <1>4, <1>5 DEF ToSet
    <3>3. QED
      BY <1>4, <3>1, <3>2 DEF ToSet
  <2>3. ASSUME NEW i \in 1 .. Len(q)
        PROVE  q[i] \in ToSet(a) \cup ToSet(b)
    <3>1. CASE i <= n
      <4>1. i \in 1 .. n
        BY <3>1
      <4>2. QED
        BY <1>2, <1>4, <4>1 DEF ToSet
    <3>2. CASE ~(i <= n)
      <4>1. i - n \in 1 .. Len(q) - n /\ n + (i - n) = i
        BY <1>1, <3>2
      <4>2. b[i - n] = q[i]
        BY <1>3, <4>1
      <4>3. QED
        BY <1>4, <4>1, <4>2 DEF ToSet
    <3>3. QED
      BY <3>1, <3>2
  <2>4. QED
    BY <1>4, <2>2, <2>3 DEF ToSet
<1>8. ToSet(a) \cap ToSet(b) = {}
  <2>1. ASSUME NEW i \in 1 .. n, NEW j \in 1 .. Len(q) - n
        PROVE  a[i] # b[j]
    <3>1. i \in 1 .. Len(q) /\ n + j \in 1 .. Len(q) /\ i # n + j
      BY <1>1
    <3>2. q[i] # q[n + j]
      BY <1>4, <3>1 DEF Distinct
    <3>3. QED
      BY <1>2, <1>3, <3>2
  <2>2. QED
    BY <1>4, <2>1 DEF ToSet
<1>9. QED
  BY <1>3, <1>6, <1>7, <1>8 DEF a, b, Numbers

\* A selection and what is selected after it (ResponseContext::SelectEvents).
LEMMA JoinFacts ==
  ASSUME NEW q \in Numbers, NEW c \in Numbers, Distinct(q), Distinct(c),
         ToSet(q) \cap ToSet(c) = {}
  PROVE  /\ q \o c \in Numbers /\ Distinct(q \o c) /\ Len(q \o c) >= Len(q)
         /\ ToSet(q \o c) = ToSet(q) \cup ToSet(c)
<1> DEFINE r == q \o c
<1>1. q \in Seq(Nat) /\ c \in Seq(Nat) /\ Len(q) \in Nat /\ Len(c) \in Nat
  BY DEF Numbers
<1>2. /\ r \in Seq(Nat) /\ Len(r) = Len(q) + Len(c)
      /\ \A i \in 1 .. Len(q) : r[i] = q[i]
      /\ \A i \in 1 .. Len(c) : r[Len(q) + i] = c[i]
  BY <1>1
<1> HIDE DEF r
<1>3. /\ DOMAIN q = 1 .. Len(q) /\ DOMAIN c = 1 .. Len(c)
      /\ DOMAIN r = 1 .. Len(q) + Len(c)
  BY <1>1, <1>2
<1>4. ASSUME NEW i \in 1 .. Len(q) + Len(c), ~(i \in 1 .. Len(q))
      PROVE  i - Len(q) \in 1 .. Len(c) /\ r[i] = c[i - Len(q)] /\ r[i] \in ToSet(c)
  <2>1. i - Len(q) \in 1 .. Len(c) /\ Len(q) + (i - Len(q)) = i
    BY <1>1, <1>4
  <2>2. r[i] = c[i - Len(q)]
    BY <1>2, <2>1
  <2>3. QED
    BY <1>3, <2>1, <2>2 DEF ToSet
<1>5. \A i \in 1 .. Len(q) : r[i] \in ToSet(q)
  BY <1>2, <1>3 DEF ToSet
<1>6. ASSUME NEW i \in 1 .. Len(q) + Len(c), NEW j \in 1 .. Len(q) + Len(c), r[i] = r[j]
      PROVE  i = j
  <2>1. CASE i \in 1 .. Len(q) /\ j \in 1 .. Len(q)
    BY <1>2, <1>3, <1>6, <2>1 DEF Distinct
  <2>2. CASE ~(i \in 1 .. Len(q)) /\ ~(j \in 1 .. Len(q))
    <3>1. c[i - Len(q)] = c[j - Len(q)]
      BY <1>4, <1>6, <2>2
    <3>2. i - Len(q) \in 1 .. Len(c) /\ j - Len(q) \in 1 .. Len(c)
      BY <1>4, <2>2
    <3>3. i - Len(q) = j - Len(q)
      BY <1>3, <3>1, <3>2 DEF Distinct
    <3>4. QED
      BY <1>1, <3>3
  <2>3. CASE i \in 1 .. Len(q) /\ ~(j \in 1 .. Len(q))
    BY <1>4, <1>5, <1>6, <2>3
  <2>4. CASE ~(i \in 1 .. Len(q)) /\ j \in 1 .. Len(q)
    BY <1>4, <1>5, <1>6, <2>4
  <2>5. QED
    BY <2>1, <2>2, <2>3, <2>4
<1>7. ToSet(r) = ToSet(q) \cup ToSet(c)
  <2>1. ToSet(r) \subseteq ToSet(q) \cup ToSet(c)
    BY <1>3, <1>4, <1>5 DEF ToSet
  <2>2. ToSet(q) \subseteq ToSet(r)
    <3>1. \A i \in 1 .. Len(q) : i \in 1 .. Len(q) + Len(c)
      BY <1>1
    <3>2. QED
      BY <1>2, <1>3, <3>1 DEF ToSet
  <2>3. ToSet(c) \subseteq ToSet(r)
    <3>1. \A i \in 1 .. Len(c) : Len(q) + i \in 1 .. Len(q) + Len(c)
      BY <1>1
    <3>2. QED
      BY <1>2, <1>3, <3>1 DEF ToSet
  <2>4. QED
    BY <2>1, <2>2, <2>3
<1>8. Distinct(r)
  BY <1>3, <1>6 DEF Distinct
<1>9. QED
  BY <1>1, <1>2, <1>7, <1>8 DEF r, Numbers

\* Deselect returns what is selected to the buffer (EventBufferBase::Deselect).
LEMMA DeselectFacts ==
  ASSUME NEW x, NEW u, Typed(x), Accounted(x, u)
  PROVE  /\ Typed(Deselect(x)) /\ Accounted(Deselect(x), u)
         /\ SameBut(x, Deselect(x), {"events", "selected", "written"})
         /\ Deselect(x).selected = <<>> /\ Deselect(x).written = 0
         /\ Unreported(Deselect(x)) = Unreported(x)
<1> DEFINE y == Deselect(x)
<1>1. x \in Outstation /\ x.selected \in Numbers /\ x.request.fc # "UNKNOWN"
  BY DEF Typed, Outstation
<1>2. ToSet(x.selected) \in SUBSET Nat
  BY <1>1 DEF Numbers, ToSet
<1>3. y \in Outstation
  BY <1>1, <1>2, EmptyFacts DEF Deselect, Outstation
<1>4. /\ SameBut(x, y, {"events", "selected", "written"})
      /\ y.selected = <<>> /\ y.written = 0 /\ y.events = x.events \cup ToSet(x.selected)
  BY <1>1 DEF Deselect, Outstation, SameBut, Fields
<1> HIDE DEF y
<1>5. /\ y.request = x.request /\ y.changes = x.changes /\ y.erased = x.erased
  BY <1>4 DEF SameBut, Fields
<1>6. Typed(y)
  BY <1>1, <1>3, <1>4, <1>5, EmptyFacts DEF Typed
<1>7. Accounted(y, u)
  BY <1>4, <1>5, EmptyFacts DEF Accounted
<1>8. Unreported(y) = Unreported(x)
  BY <1>4, EmptyFacts DEF Unreported
<1>9. QED
  BY <1>4, <1>6, <1>7, <1>8 DEF y

ResetFields == {"events", "selected", "written", "fir", "loaded", "static", "queue"}

\* Reset returns what is selected and forgets what is to be written (ResponseContext::Reset).
LEMMA ResetFacts ==
  ASSUME NEW x, NEW u, Typed(x), Accounted(x, u)
  PROVE  /\ Typed(Reset(x)) /\ Accounted(Reset(x), u)
         /\ SameBut(x, Reset(x), ResetFields)
         /\ Reset(x).selected = <<>> /\ Reset(x).written = 0
         /\ Reset(x).fir = TRUE /\ Reset(x).static = 0
         /\ Unreported(Reset(x)) = Unreported(x)
<1> DEFINE y == [x EXCEPT !.fir = TRUE, !.loaded = FALSE, !.static = 0, !.queue = <<>>]
<1>1. x \in Outstation /\ x.written <= Len(x.selected) /\ x.request.fc # "UNKNOWN"
  BY DEF Typed
<1>2. y \in Outstation
  BY <1>1, EmptyFacts DEF Outstation
<1>3. SameBut(x, y, {"fir", "loaded", "static", "queue"}) /\ y.fir = TRUE /\ y.static = 0
  BY <1>1 DEF Outstation, SameBut, Fields
<1>4. Reset(x) = Deselect(y)
  BY DEF Reset
<1> HIDE DEF y
<1>5. /\ y.request = x.request /\ y.changes = x.changes /\ y.erased = x.erased
      /\ y.events = x.events /\ y.selected = x.selected /\ y.written = x.written
  BY <1>3 DEF SameBut, Fields
<1>6. Typed(y) /\ Accounted(y, u)
  BY <1>1, <1>2, <1>5 DEF Typed, Accounted
<1>7. SameBut(x, Deselect(y), ResetFields) /\ Deselect(y).fir = TRUE /\ Deselect(y).static = 0
  BY <1>3, <1>6, DeselectFacts DEF SameBut, Fields, ResetFields
<1>8. Unreported(y) = Unreported(x)
  BY <1>5 DEF Unreported
<1>9. QED
  BY <1>4, <1>6, <1>7, <1>8, DeselectFacts

ClearFields == {"events", "selected", "written", "erased"}

\* ClearWritten erases what was written and returns the rest (ResponseContext::ClearWritten).
LEMMA ClearWrittenFacts ==
  ASSUME NEW x, NEW u, Typed(x), Accounted(x, u)
  PROVE  /\ Typed(ClearWritten(x)) /\ Accounted(ClearWritten(x), u)
         /\ SameBut(x, ClearWritten(x), ClearFields)
         /\ ClearWritten(x).selected = <<>> /\ ClearWritten(x).written = 0
         /\ ClearWritten(x).erased = x.erased \cup Written(x)
         /\ Unreported(ClearWritten(x)) \subseteq Unreported(x)
<1> DEFINE a == SubSeq(x.selected, 1, x.written)
           b == SubSeq(x.selected, x.written + 1, Len(x.selected))
           y == [x EXCEPT !.erased = @ \cup ToSet(a), !.selected = b]
           z == [y EXCEPT !.events = @ \cup ToSet(y.selected), !.selected = <<>>, !.written = 0]
<1>1. /\ x \in Outstation /\ x.written <= Len(x.selected) /\ x.request.fc # "UNKNOWN"
      /\ x.selected \in Numbers /\ x.written \in Nat /\ Distinct(x.selected)
  BY DEF Typed, Outstation, Accounted
<1>2. /\ b \in Numbers /\ Distinct(b) /\ ToSet(a) \cup ToSet(b) = ToSet(x.selected)
      /\ ToSet(a) \cap ToSet(b) = {}
  BY <1>1, SplitFacts
<1>3. ToSet(x.selected) \in SUBSET Nat
  BY <1>1 DEF Numbers, ToSet
<1>4. ClearWritten(x) = z
  BY DEF ClearWritten, Deselect
<1>5. Written(x) = ToSet(a)
  BY DEF Written
<1> HIDE DEF a, b
<1>6. ToSet(a) \in SUBSET Nat /\ ToSet(b) \in SUBSET Nat
  BY <1>2, <1>3
<1>7. y \in Outstation /\ y.selected = b
  BY <1>1, <1>2, <1>6 DEF Outstation
<1>8. SameBut(x, y, {"erased", "selected"}) /\ y.erased = x.erased \cup ToSet(a)
  BY <1>1 DEF Outstation, SameBut, Fields
<1> HIDE DEF y
<1>9. z \in Outstation
  BY <1>6, <1>7, EmptyFacts DEF Outstation
<1>10. /\ z.selected = <<>> /\ z.written = 0 /\ z.events = y.events \cup ToSet(b)
       /\ SameBut(y, z, {"events", "selected", "written"})
  BY <1>7 DEF Outstation, SameBut, Fields
<1> HIDE DEF z
<1>11. /\ SameBut(x, z, ClearFields) /\ z.erased = x.erased \cup ToSet(a)
       /\ z.events = x.events \cup ToSet(b) /\ z.changes = x.changes /\ z.request = x.request
  BY <1>8, <1>10 DEF SameBut, Fields, ClearFields
<1>12. Typed(z)
  BY <1>1, <1>9, <1>10, <1>11, EmptyFacts DEF Typed
<1>13. Accounted(z, u)
  BY <1>2, <1>10, <1>11, EmptyFacts DEF Accounted
<1>14. Unreported(z) \subseteq Unreported(x)
  BY <1>2, <1>10, <1>11, EmptyFacts DEF Unreported
<1>15. QED
  BY <1>4, <1>5, <1>10, <1>11, <1>12, <1>13, <1>14

\* SelectEvents moves events from the buffer to the selection (ResponseContext::SelectEvents).
LEMMA SelectEventsFacts ==
  ASSUME NEW x, NEW u \in Nat, Typed(x), Accounted(x, u), NEW n \in Nat
  PROVE  /\ Typed(SelectEvents(x, n)) /\ Accounted(SelectEvents(x, n), u)
         /\ SameBut(x, SelectEvents(x, n), {"events", "selected", "queue"})
         /\ Unreported(SelectEvents(x, n)) = Unreported(x)
<1> DEFINE k == Min({n, Cardinality(x.events)})
           c == Oldest(x.events, k)
           q == IF c = <<>> THEN x.queue ELSE Append(x.queue, n)
           y == [x EXCEPT !.events = @ \ ToSet(c), !.selected = @ \o c,
                          !.queue = IF c = <<>> THEN @ ELSE Append(@, n)]
<1>1. /\ x \in Outstation /\ x.written <= Len(x.selected) /\ x.request.fc # "UNKNOWN"
      /\ x.selected \in Numbers /\ x.written \in Nat /\ x.queue \in Numbers
      /\ x.events \in SUBSET Nat
  BY DEF Typed, Outstation
<1>2. IsFiniteSet(x.events)
  <2>1. x.events \subseteq 1 .. u /\ IsFiniteSet(1 .. u)
    BY FS_Interval DEF Accounted
  <2>2. QED
    BY <2>1, FS_Subset
<1>3. Cardinality(x.events) \in Nat
  BY <1>2, FS_CardinalityType
<1>4. k \in Nat /\ k <= Cardinality(x.events)
  BY <1>3, MinOfTwo
<1> HIDE DEF k
<1>5. c \in Seq(Nat) /\ ToSet(c) \subseteq x.events /\ Distinct(c)
  BY <1>1, <1>3, <1>4, OldestFacts DEF Distinct
<1>6. SelectEvents(x, n) = y
  BY DEF SelectEvents, c, k, y
<1> HIDE DEF c
<1>7. c \in Numbers /\ ToSet(x.selected) \cap ToSet(c) = {} /\ Distinct(x.selected)
  BY <1>5 DEF Numbers, Accounted
<1>8. /\ x.selected \o c \in Numbers /\ Distinct(x.selected \o c)
      /\ Len(x.selected \o c) >= Len(x.selected)
      /\ ToSet(x.selected \o c) = ToSet(x.selected) \cup ToSet(c)
  BY <1>1, <1>5, <1>7, JoinFacts
<1>9. q \in Numbers
  BY <1>1 DEF Numbers
<1>10. y = [x EXCEPT !.events = x.events \ ToSet(c), !.selected = x.selected \o c, !.queue = q]
  OBVIOUS
<1> HIDE DEF q, y
<1>11. y \in Outstation
  BY <1>1, <1>8, <1>9, <1>10 DEF Outstation
<1>12. /\ SameBut(x, y, {"events", "selected", "queue"})
       /\ y.events = x.events \ ToSet(c) /\ y.selected = x.selected \o c
       /\ y.written = x.written /\ y.request = x.request /\ y.changes = x.changes
       /\ y.erased = x.erased
  BY <1>1, <1>10 DEF Outstation, SameBut, Fields
<1>13. Typed(y)
  <2>1. Len(x.selected) \in Nat /\ Len(x.selected \o c) \in Nat
    BY <1>1, <1>8 DEF Numbers
  <2>2. x.written <= Len(x.selected \o c)
    BY <1>1, <1>8, <2>1
  <2>3. QED
    BY <1>1, <1>11, <1>12, <2>2 DEF Typed
<1>14. Accounted(y, u)
  BY <1>5, <1>8, <1>12 DEF Accounted
<1>15. Unreported(y) = Unreported(x)
  BY <1>5, <1>8, <1>12 DEF Unreported
<1>16. QED
  BY <1>6, <1>12, <1>13, <1>14, <1>15

\* Configure selects what a READ asks for, of all that is not reported (ResponseContext::Configure).
LEMMA ConfigureFacts ==
  ASSUME NEW x, NEW u \in Nat, Typed(x), Accounted(x, u), NEW read \in ReadRequest
  PROVE  /\ Typed(Configure(x, read)) /\ Accounted(Configure(x, read), u)
         /\ SameBut(x, Configure(x, read), ResetFields)
         /\ Configure(x, read).written = 0 /\ Configure(x, read).fir = TRUE
         /\ Unreported(Configure(x, read)) = Unreported(x)
<1> DEFINE y == SelectEvents(Reset(x), read.events)
           z == [y EXCEPT !.static = read.static]
<1>1. read.events \in Nat /\ read.static \in Nat
  BY DEF ReadRequest
<1>2. /\ Typed(y) /\ Accounted(y, u) /\ SameBut(Reset(x), y, {"events", "selected", "queue"})
      /\ Unreported(y) = Unreported(x)
  BY <1>1, ResetFacts, SelectEventsFacts
<1>3. SameBut(x, Reset(x), ResetFields) /\ Reset(x).written = 0 /\ Reset(x).fir = TRUE
  BY ResetFacts
<1>4. Configure(x, read) = z
  BY DEF Configure
<1> HIDE DEF y
<1>5. SameBut(x, y, ResetFields) /\ y.written = 0 /\ y.fir = TRUE
  BY <1>2, <1>3 DEF SameBut, Fields, ResetFields
<1>6. y \in Outstation
  BY <1>2 DEF Typed
<1>7. z \in Outstation
  BY <1>1, <1>6 DEF Outstation
<1>8. SameBut(y, z, {"static"})
  BY <1>6 DEF Outstation, SameBut, Fields
<1> HIDE DEF z
<1>9. /\ SameBut(x, z, ResetFields) /\ z.written = 0 /\ z.fir = TRUE
      /\ z.selected = y.selected /\ z.events = y.events /\ z.changes = y.changes
      /\ z.erased = y.erased /\ z.request = y.request /\ z.written = y.written
  BY <1>5, <1>8 DEF SameBut, Fields, ResetFields
<1>10. Typed(z) /\ Accounted(z, u) /\ Unreported(z) = Unreported(x)
  BY <1>2, <1>7, <1>9 DEF Typed, Accounted, Unreported
<1>11. QED
  BY <1>4, <1>9, <1>10

\* Events that are loaded are marked as written (ResponseContext::LoadEventData).
LEMMA LoadFacts ==
  ASSUME NEW x, NEW u, Typed(x), Accounted(x, u)
  PROVE  LET load == LoadEvents(x)
             y    == Load(x, load)
         IN  /\ load \in Loads(Len(x.selected)) /\ LoadedEvents(x, load) \in SUBSET Nat
             /\ Typed(y) /\ Accounted(y, u) /\ SameBut(x, y, {"queue", "written", "loaded"})
             /\ x.written = 0 => Written(y) = LoadedEvents(x, load)
<1> DEFINE N == Len(x.selected)
           load == LoadEvents(x)
           w == Max({x.written, load.written})
           b == x.loaded \/ load.written > 0
           y == [x EXCEPT !.queue = load.queue, !.written = w, !.loaded = b]
<1>1. /\ x \in Outstation /\ x.written <= N /\ x.request.fc # "UNKNOWN"
      /\ x.selected \in Seq(Nat) /\ x.written \in Nat /\ x.queue \in Seq(Nat)
  BY DEF Typed, Outstation, Numbers
<1>2. load \in Loads(N)
  BY <1>1, LoadEventsFits
<1>3. N \in Nat
  BY <1>1
<1> HIDE DEF N, load
<1>4. load.queue \in Numbers /\ load.written \in 0 .. N
  BY <1>2 DEF Loads, Numbers
<1>5. w \in Nat /\ w <= N /\ (x.written = 0 => w = load.written)
  <2>1. load.written \in Nat /\ load.written <= N
    BY <1>3, <1>4
  <2>2. w \in {x.written, load.written} /\ w >= x.written /\ w >= load.written
    BY <1>1, <2>1, MaxOfTwo
  <2> HIDE DEF w
  <2>3. QED
    BY <1>1, <1>3, <2>1, <2>2
<1>6. b \in BOOLEAN
  OBVIOUS
<1>7. Load(x, load) = y
  BY DEF Load
<1> HIDE DEF w, b
<1>8. y \in Outstation
  BY <1>1, <1>4, <1>5, <1>6 DEF Outstation
<1>9. /\ SameBut(x, y, {"queue", "written", "loaded"}) /\ y.written = w
      /\ y.selected = x.selected
  BY <1>1 DEF Outstation, SameBut, Fields
<1> HIDE DEF y
<1>10. /\ y.events = x.events /\ y.changes = x.changes /\ y.erased = x.erased
       /\ y.request = x.request
  BY <1>9 DEF SameBut, Fields
<1>11. Typed(y)
  BY <1>1, <1>5, <1>8, <1>9, <1>10 DEF Typed, N
<1>12. Accounted(y, u)
  BY <1>9, <1>10 DEF Accounted
<1>13. x.written = 0 => Written(y) = LoadedEvents(x, load)
  BY <1>5, <1>9 DEF Written, LoadedEvents
<1>14. LoadedEvents(x, load) \in SUBSET Nat
  <2>1. load.written \in Nat /\ load.written <= Len(x.selected)
    BY <1>3, <1>4 DEF N
  <2>2. SubSeq(x.selected, 1, load.written) \in Seq(Nat)
    BY <1>1, <2>1
  <2>3. QED
    BY <2>2 DEF LoadedEvents, ToSet
<1>15. QED
  BY <1>2, <1>7, <1>9, <1>11, <1>12, <1>13, <1>14 DEF N, load

Errors == {"none", "timer", "busy", "state", "sequence"}

\* The first error stays.
LEMMA FailFacts ==
  ASSUME NEW x, Typed(x), NEW what \in Errors
  PROVE  /\ Typed(Fail(x, what)) /\ SameBut(x, Fail(x, what), {"error"})
         /\ Fail(x, what).error = IF x.error = "none" THEN what ELSE x.error
<1> DEFINE e == IF x.error = "none" THEN what ELSE x.error
           y == [x EXCEPT !.error = e]
<1>1. x \in Outstation /\ e \in Errors
  BY DEF Typed, Outstation, Errors
<1>2. Fail(x, what) = y
  BY DEF Fail
<1> HIDE DEF e
<1>3. y \in Outstation
  BY <1>1 DEF Outstation, Errors
<1>4. SameBut(x, y, {"error"}) /\ y.error = e
  BY <1>1 DEF Outstation, SameBut, Fields
<1> HIDE DEF y
<1>5. y.written = x.written /\ y.selected = x.selected /\ y.request = x.request
  BY <1>4 DEF SameBut, Fields
<1>6. QED
  BY <1>2, <1>3, <1>4, <1>5 DEF Typed, e

\* A response is sent if the channel is idle and has a sequence to send it with
\* (AppLayer::SendResponse, SolicitedChannel).
LEMMA SendResponseFacts ==
  ASSUME NEW x, Typed(x), NEW fir \in BOOLEAN, NEW confirm \in BOOLEAN, NEW events \in SUBSET Nat
  PROVE  LET y == SendResponse(x, fir, confirm, events) IN
         /\ Typed(y) /\ SameBut(x, y, {"sol", "solEvents", "error"})
         /\ x.error # "none" => y.error = x.error
         /\ x.error = "none" /\ x.sol = "Idle" =>
              IF fir /\ x.heard = 0
                THEN y.error = "sequence"
                ELSE /\ y.error = "none" /\ y.solEvents = events
                     /\ y.sol = IF confirm THEN "SendConfirmed" ELSE "Send"
<1> DEFINE y == SendResponse(x, fir, confirm, events)
           c == IF confirm THEN "SendConfirmed" ELSE "Send"
           z == [x EXCEPT !.sol = c, !.solEvents = events]
<1>1. x \in Outstation /\ c \in {"SendConfirmed", "Send"}
  BY DEF Typed
<1>2. CASE x.sol # "Idle"
  <2>1. y = Fail(x, "busy")
    BY <1>2 DEF SendResponse
  <2>2. QED
    BY <1>2, <2>1, FailFacts DEF Errors, SameBut, Fields
<1>3. CASE x.sol = "Idle" /\ fir /\ x.heard = 0
  <2>1. y = Fail(x, "sequence")
    BY <1>3 DEF SendResponse
  <2>2. /\ Typed(y) /\ SameBut(x, y, {"error"})
        /\ y.error = IF x.error = "none" THEN "sequence" ELSE x.error
    BY <2>1, FailFacts DEF Errors
  <2>3. SameBut(x, y, {"sol", "solEvents", "error"})
    BY <2>2 DEF SameBut, Fields
  <2>4. fir /\ x.heard = 0
    BY <1>3
  <2> HIDE DEF y
  <2>5. QED
    BY <2>2, <2>3, <2>4 DEF y
<1>4. CASE x.sol = "Idle" /\ ~(fir /\ x.heard = 0)
  <2>1. y = z
    BY <1>4 DEF SendResponse
  <2> HIDE DEF c, y
  <2>2. z \in Outstation
    BY <1>1 DEF Outstation
  <2>3. /\ SameBut(x, z, {"sol", "solEvents"}) /\ z.sol = c /\ z.solEvents = events
        /\ z.error = x.error
    BY <1>1 DEF Outstation, SameBut, Fields
  <2> HIDE DEF z
  <2>4. z.written = x.written /\ z.selected = x.selected /\ z.request = x.request
    BY <2>3 DEF SameBut, Fields
  <2>5. Typed(z)
    BY <2>2, <2>4 DEF Typed
  <2>6. SameBut(x, z, {"sol", "solEvents", "error"})
    BY <2>3 DEF SameBut, Fields
  <2>7. Typed(y) /\ SameBut(x, y, {"sol", "solEvents", "error"}) /\ y.error = x.error
    BY <2>1, <2>3, <2>5, <2>6
  <2>8. y.solEvents = events /\ y.sol = c
    BY <2>1, <2>3
  <2>9. ~(fir /\ x.heard = 0)
    BY <1>4
  <2>10. y.sol = IF confirm THEN "SendConfirmed" ELSE "Send"
    BY <2>8 DEF c
  <2>11. QED
    BY <2>7, <2>8, <2>9, <2>10, Zenon DEF y
<1>5. QED
  BY <1>2, <1>3, <1>4

SendFields == {"queue", "written", "loaded", "static", "fir", "sol", "solEvents", "error"}

\* A fragment of a response holds what it loads, and has the sequence of the request if it is
\* the first (ResponseContext::LoadResponse).
LEMMA SendFragmentFacts ==
  ASSUME NEW x, NEW u, Typed(x), Accounted(x, u)
  PROVE  LET y == SendFragment(x) IN
         /\ Typed(y) /\ Accounted(y, u) /\ SameBut(x, y, SendFields)
         /\ x.error # "none" => y.error = x.error
         /\ x.error = "none" /\ x.sol = "Idle" =>
              \/ y.error = "sequence" /\ x.fir /\ x.heard = 0
              \/ /\ y.error = "none" /\ y.sol \in {"Send", "SendConfirmed"}
                 /\ ~(x.fir /\ x.heard = 0)
                 /\ x.written = 0 => Written(y) \subseteq y.solEvents
<1> DEFINE load == LoadEvents(x)
           events == LoadedEvents(x, load)
           l == Load(x, load)
           objects == IF load.full THEN 0 ELSE Min({x.static, load.room})
           fin == ~load.full /\ objects = x.static
           z == [l EXCEPT !.static = @ - objects, !.fir = FALSE, !.loaded = FALSE]
           confirm == ~fin \/ l.loaded
           y == SendResponse(z, x.fir, confirm, events)
<1>1. /\ load \in Loads(Len(x.selected)) /\ events \in SUBSET Nat
      /\ Typed(l) /\ Accounted(l, u) /\ SameBut(x, l, {"queue", "written", "loaded"})
      /\ x.written = 0 => Written(l) = events
  BY LoadFacts
<1>2. SendFragment(x) = y
  BY DEF SendFragment
<1>3. x \in Outstation /\ x.static \in Nat /\ x.fir \in BOOLEAN
  BY DEF Typed, Outstation
<1> HIDE DEF load, events, l
<1>4. objects \in Nat /\ objects <= x.static
  <2>1. load.room \in Nat
    BY <1>1, SlaveAssumption DEF Loads
  <2>2. Min({x.static, load.room}) \in Nat /\ Min({x.static, load.room}) <= x.static
    BY <1>3, <2>1, MinOfTwo
  <2>3. QED
    BY <1>3, <2>2
<1> HIDE DEF objects
<1>5. confirm \in BOOLEAN
  OBVIOUS
<1> HIDE DEF fin, confirm
<1>6. l \in Outstation /\ l.static = x.static /\ l.static - objects \in Nat
  <2>1. l \in Outstation /\ l.static = x.static
    BY <1>1 DEF Typed, SameBut, Fields
  <2>2. QED
    BY <1>3, <1>4, <2>1
<1>7. z \in Outstation
  BY <1>6 DEF Outstation
<1>8. SameBut(l, z, {"static", "fir", "loaded"})
  BY <1>6 DEF Outstation, SameBut, Fields
<1> HIDE DEF z
<1>9. /\ z.written = l.written /\ z.selected = l.selected /\ z.request = l.request
      /\ z.changes = l.changes /\ z.events = l.events /\ z.erased = l.erased
  BY <1>8 DEF SameBut, Fields
<1>10. Typed(z) /\ Accounted(z, u) /\ Written(z) = Written(l)
  BY <1>1, <1>7, <1>9 DEF Typed, Accounted, Written
<1>11. z.error = x.error /\ z.sol = x.sol /\ z.heard = x.heard
  BY <1>1, <1>8 DEF SameBut, Fields
<1>12. /\ Typed(y) /\ SameBut(z, y, {"sol", "solEvents", "error"})
       /\ z.error # "none" => y.error = z.error
       /\ z.error = "none" /\ z.sol = "Idle" =>
            IF x.fir /\ z.heard = 0
              THEN y.error = "sequence"
              ELSE /\ y.error = "none" /\ y.solEvents = events
                   /\ y.sol = IF confirm THEN "SendConfirmed" ELSE "Send"
  BY <1>1, <1>3, <1>5, <1>10, SendResponseFacts
<1> HIDE DEF y
<1>13. /\ y.written = z.written /\ y.selected = z.selected
       /\ y.changes = z.changes /\ y.events = z.events /\ y.erased = z.erased
  BY <1>12 DEF SameBut, Fields
<1>14. Accounted(y, u) /\ Written(y) = Written(z)
  BY <1>10, <1>13 DEF Accounted, Written
<1>15. SameBut(x, y, SendFields)
  BY <1>1, <1>8, <1>12 DEF SameBut, Fields, SendFields
<1>16. x.error # "none" => y.error = x.error
  BY <1>11, <1>12
<1>17. ASSUME x.error = "none", x.sol = "Idle"
       PROVE  \/ y.error = "sequence" /\ x.fir /\ x.heard = 0
              \/ /\ y.error = "none" /\ y.sol \in {"Send", "SendConfirmed"}
                 /\ ~(x.fir /\ x.heard = 0)
                 /\ x.written = 0 => Written(y) \subseteq y.solEvents
  <2>1. CASE x.fir /\ x.heard = 0
    BY <1>11, <1>12, <1>17, <2>1
  <2>2. CASE ~(x.fir /\ x.heard = 0)
    <3>1. /\ y.error = "none" /\ y.solEvents = events
          /\ y.sol = IF confirm THEN "SendConfirmed" ELSE "Send"
      BY <1>11, <1>12, <1>17, <2>2
    <3>2. y.sol \in {"Send", "SendConfirmed"}
      BY <3>1
    <3>3. QED
      BY <1>1, <1>10, <1>14, <2>2, <3>1, <3>2
  <2>3. QED
    BY <2>1, <2>2
<1>18. QED
  BY <1>2, <1>12, <1>14, <1>15, <1>16, <1>17

UnsolFields ==
  {"state", "events", "selected", "queue", "written", "loaded", "uns", "unsEvents", "error"}

\* An unsolicited response holds what it loads of the events it selects (Slave::SendUnsolicited).
LEMMA SendUnsolicitedFacts ==
  ASSUME NEW x, NEW u \in Nat, Typed(x), Accounted(x, u), NEW n \in Nat
  PROVE  LET y == SendUnsolicited(x, n) IN
         /\ Typed(y) /\ Accounted(y, u) /\ SameBut(x, y, UnsolFields)
         /\ Unreported(y) = Unreported(x)
         /\ x.error # "none" => y.error = x.error
         /\ x.uns = "Idle" =>
              /\ y.error = x.error /\ y.state = "WaitForUnsolSuccess" /\ y.uns = "Busy"
              /\ x.written = 0 => Written(y) \subseteq y.unsEvents
<1>1. CASE x.uns # "Idle"
  <2> DEFINE y == Fail(x, "busy")
  <2>1. SendUnsolicited(x, n) = y
    BY <1>1 DEF SendUnsolicited
  <2>2. /\ Typed(y) /\ SameBut(x, y, {"error"})
        /\ x.error # "none" => y.error = x.error
    BY FailFacts DEF Errors
  <2> HIDE DEF y
  <2>3. /\ y.selected = x.selected /\ y.changes = x.changes /\ y.events = x.events
        /\ y.erased = x.erased /\ SameBut(x, y, UnsolFields)
    BY <2>2 DEF SameBut, Fields, UnsolFields
  <2>4. Accounted(y, u) /\ Unreported(y) = Unreported(x)
    BY <2>3 DEF Accounted, Unreported
  <2>5. QED
    BY <1>1, <2>1, <2>2, <2>3, <2>4
<1>2. CASE x.uns = "Idle"
  <2> DEFINE w == [x EXCEPT !.state = "WaitForUnsolSuccess"]
             y == SelectEvents(w, n)
             load == LoadEvents(y)
             events == LoadedEvents(y, load)
             l == Load(y, load)
             z == [l EXCEPT !.uns = "Busy", !.unsEvents = events]
  <2>1. SendUnsolicited(x, n) = z
    BY <1>2 DEF SendUnsolicited
  <2>2. x \in Outstation
    BY DEF Typed
  <2>3. w \in Outstation
    BY <2>2 DEF Outstation, States
  <2>4. SameBut(x, w, {"state"}) /\ w.state = "WaitForUnsolSuccess"
    BY <2>2 DEF Outstation, SameBut, Fields
  <2> HIDE DEF w
  <2>5. /\ w.written = x.written /\ w.selected = x.selected /\ w.request = x.request
        /\ w.changes = x.changes /\ w.events = x.events /\ w.erased = x.erased
    BY <2>4 DEF SameBut, Fields
  <2>6. Typed(w) /\ Accounted(w, u) /\ Unreported(w) = Unreported(x)
    BY <2>3, <2>5 DEF Typed, Accounted, Unreported
  <2>7. /\ Typed(y) /\ Accounted(y, u) /\ SameBut(w, y, {"events", "selected", "queue"})
        /\ Unreported(y) = Unreported(x)
    BY <2>6, SelectEventsFacts
  <2> HIDE DEF y
  <2>8. /\ events \in SUBSET Nat
        /\ Typed(l) /\ Accounted(l, u) /\ SameBut(y, l, {"queue", "written", "loaded"})
        /\ y.written = 0 => Written(l) = events
    BY <2>7, LoadFacts
  <2> HIDE DEF l, events, load
  <2>9. l \in Outstation
    BY <2>8 DEF Typed
  <2>10. z \in Outstation
    BY <2>8, <2>9 DEF Outstation
  <2>11. SameBut(l, z, {"uns", "unsEvents"}) /\ z.uns = "Busy" /\ z.unsEvents = events
    BY <2>9 DEF Outstation, SameBut, Fields
  <2> HIDE DEF z
  <2>12. /\ z.written = l.written /\ z.selected = l.selected /\ z.request = l.request
         /\ z.changes = l.changes /\ z.events = l.events /\ z.erased = l.erased
    BY <2>11 DEF SameBut, Fields
  <2>13. Typed(z) /\ Accounted(z, u) /\ Written(z) = Written(l)
    BY <2>8, <2>10, <2>12 DEF Typed, Accounted, Written
  <2>14. z.events = y.events /\ z.selected = y.selected /\ y.written = x.written
    BY <2>4, <2>7, <2>8, <2>12 DEF SameBut, Fields
  <2>15. Unreported(z) = Unreported(x)
    BY <2>7, <2>14 DEF Unreported
  <2>16. z.error = x.error /\ z.state = "WaitForUnsolSuccess" /\ SameBut(x, z, UnsolFields)
    BY <2>4, <2>7, <2>8, <2>11 DEF SameBut, Fields, UnsolFields
  <2>17. x.written = 0 => Written(z) \subseteq z.unsEvents
    BY <2>8, <2>11, <2>13, <2>14
  <2>18. QED
    BY <2>1, <2>11, <2>13, <2>15, <2>16, <2>17
<1>3. QED
  BY <1>1, <1>2

TimerFields == {"timer", "armed", "error"}

\* The timer is started once (Slave::StartUnsolTimer).
LEMMA StartUnsolTimerFacts ==
  ASSUME NEW x, NEW u, Typed(x), Accounted(x, u)
  PROVE  LET y == StartUnsolTimer(x) IN
         /\ Typed(y) /\ Accounted(y, u) /\ SameBut(x, y, TimerFields)
         /\ x.error # "none" => y.error = x.error
         /\ x.error = "none" => y.error = IF x.timer THEN "timer" ELSE "none"
         /\ ~x.timer => y.armed > 0
<1>1. CASE x.timer
  <2> DEFINE y == Fail(x, "timer")
  <2>1. StartUnsolTimer(x) = y
    BY <1>1 DEF StartUnsolTimer
  <2>2. /\ Typed(y) /\ SameBut(x, y, {"error"})
        /\ y.error = IF x.error = "none" THEN "timer" ELSE x.error
    BY FailFacts DEF Errors
  <2> HIDE DEF y
  <2>3. /\ y.selected = x.selected /\ y.changes = x.changes /\ y.events = x.events
        /\ y.erased = x.erased /\ SameBut(x, y, TimerFields)
    BY <2>2 DEF SameBut, Fields, TimerFields
  <2>4. Accounted(y, u)
    BY <2>3 DEF Accounted
  <2>5. QED
    BY <1>1, <2>1, <2>2, <2>3, <2>4
<1>2. CASE ~x.timer
  <2> DEFINE y == [x EXCEPT !.timer = TRUE, !.armed = @ + 1]
  <2>1. StartUnsolTimer(x) = y
    BY <1>2 DEF StartUnsolTimer
  <2>2. x \in Outstation /\ x.armed \in Nat
    BY DEF Typed, Outstation
  <2>3. y \in Outstation
    <3> DEFINE a == x.armed + 1
    <3>1. a \in Nat
      BY <2>2
    <3>2. y = [x EXCEPT !.timer = TRUE, !.armed = a]
      OBVIOUS
    <3> HIDE DEF a, y
    <3>3. QED
      BY <2>2, <3>1, <3>2 DEF Outstation
  <2>4. SameBut(x, y, {"timer", "armed"}) /\ y.armed = x.armed + 1
    BY <2>2 DEF Outstation, SameBut, Fields
  <2> HIDE DEF y
  <2>5. /\ y.selected = x.selected /\ y.changes = x.changes /\ y.events = x.events
        /\ y.erased = x.erased /\ SameBut(x, y, TimerFields) /\ y.written = x.written
        /\ y.request = x.request /\ y.error = x.error
    BY <2>4 DEF SameBut, Fields, TimerFields
  <2>6. Typed(y) /\ Accounted(y, u)
    BY <2>3, <2>5 DEF Accounted, Typed
  <2>7. y.armed > 0
    BY <2>2, <2>4
  <2>8. QED
    BY <1>2, <2>1, <2>5, <2>6, <2>7
<1>3. QED
  BY <1>1, <1>2

---------------------------------------------------------------------------
(* What Slave sends, and the handlers of AS_Idle *)

\* Erasing, executing and deferring nothing keeps what was executed and erased.
LEMMA KeptFrame ==
  ASSUME NEW x, NEW y, NEW u, NEW q, NEW d, Kept(x, u, q, d), Typed(y), Accounted(y, u),
         y.executed = x.executed, y.request = x.request,
         y.deferredRequest = x.deferredRequest \/ y.deferredRequest = FALSE,
         y.erased = x.erased, y.confirmed = x.confirmed
  PROVE  Kept(y, u, q, d)
BY DEF Kept, ExecutedOnce

\* What does not matter to the invariant.
LEMMA GoodFrame ==
  ASSUME NEW x, NEW y, NEW u, NEW q, NEW d, Good(x, u, q, d), y \in Outstation,
         SameBut(x, y, {"deferredUpdate"})
  PROVE  Good(y, u, q, d)
<1>1. Typed(x) /\ Accounted(x, u)
  BY DEF Good, Kept
<1>2. Typed(y) /\ Accounted(y, u)
  BY <1>1 DEF Typed, Accounted, SameBut, Fields
<1>3. Kept(y, u, q, d)
  <2>1. /\ y.executed = x.executed /\ y.request = x.request
        /\ y.deferredRequest = x.deferredRequest
        /\ y.erased = x.erased /\ y.confirmed = x.confirmed
    BY DEF SameBut, Fields
  <2>2. Kept(x, u, q, d)
    BY DEF Good
  <2>3. QED
    BY <1>2, <2>1, <2>2, KeptFrame
<1>4. Ends(y, d)
  BY DEF Good, Ends, SameBut, Fields
<1>5. ASSUME y.error = "none"
      PROVE  Live(y, d)
  <2>1. Live(x, d)
    BY <1>5 DEF Good, SameBut, Fields
  <2>2. QED
    BY <2>1 DEF Live, Steady, Solicits, Reports, Postponed, Current, Answered, Covered, Timed,
                Triggered, Written, Unreported, SameBut, Fields
<1>6. QED
  BY <1>3, <1>4, <1>5 DEF Good

\* The state has changed to one that waits for the response that is about to be sent. Without
\* a sequence it is not sent, if it is the first fragment.
Ready(x, d, fir) ==
  /\ x.sol = "Idle" /\ x.state \in WaitsForResponse /\ Reports(x) /\ ~x.deferredRequest
  /\ x.deferredUnknown \/ x.answered[1] = x.answered[2] \/ (fir /\ x.heard = 0)
  /\ d = 0 =>
       /\ x.heard # 0 /\ Timed(x) /\ Triggered(x)
       /\ x.state = "WaitForSolUnsolSuccess" => Written(x) \subseteq x.unsEvents
       /\ x.state = "WaitForRspSuccess" => Written(x) = {}

\* A simple response fits the state that waits for it (Slave::SendResponse).
LEMMA RespondGood ==
  ASSUME NEW x, NEW u, NEW q, NEW d, Kept(x, u, q, d), Ends(x, d),
         x.error = "none" => Ready(x, d, TRUE)
  PROVE  /\ Good(Respond(x), u, q, d) /\ SameBut(x, Respond(x), {"sol", "solEvents", "error"})
<1> DEFINE y == Respond(x)
<1>1. Typed(x) /\ Accounted(x, u)
  BY DEF Kept
<1>2. y = SendResponse(x, TRUE, FALSE, {})
  BY DEF Respond
<1>3. /\ Typed(y) /\ SameBut(x, y, {"sol", "solEvents", "error"})
      /\ x.error # "none" => y.error = x.error
      /\ x.error = "none" /\ x.sol = "Idle" =>
           \/ y.error = "sequence" /\ x.heard = 0
           \/ y.error = "none" /\ y.solEvents = {} /\ y.sol = "Send" /\ x.heard # 0
  <2> HIDE DEF y
  <2>1. TRUE \in BOOLEAN /\ FALSE \in BOOLEAN /\ {} \in SUBSET Nat
    OBVIOUS
  <2>2. /\ Typed(y) /\ SameBut(x, y, {"sol", "solEvents", "error"})
        /\ x.error # "none" => y.error = x.error
        /\ x.error = "none" /\ x.sol = "Idle" =>
             IF TRUE /\ x.heard = 0
               THEN y.error = "sequence"
               ELSE /\ y.error = "none" /\ y.solEvents = {}
                    /\ y.sol = IF FALSE THEN "SendConfirmed" ELSE "Send"
    <3>1. \A fir, confirm \in BOOLEAN : \A events \in SUBSET Nat :
            LET z == SendResponse(x, fir, confirm, events) IN
            /\ Typed(z) /\ SameBut(x, z, {"sol", "solEvents", "error"})
            /\ x.error # "none" => z.error = x.error
            /\ x.error = "none" /\ x.sol = "Idle" =>
                 IF fir /\ x.heard = 0
                   THEN z.error = "sequence"
                   ELSE /\ z.error = "none" /\ z.solEvents = events
                        /\ z.sol = IF confirm THEN "SendConfirmed" ELSE "Send"
      BY <1>1, SendResponseFacts
    <3>2. QED
      BY <1>2, <2>1, <3>1, ZenonT(40)
  <2>3. QED
    BY <2>2
<1> HIDE DEF y
<1>4. Accounted(y, u)
  BY <1>1, <1>3 DEF Accounted, SameBut, Fields
<1>5. Kept(y, u, q, d)
  BY <1>3, <1>4, KeptFrame DEF SameBut, Fields
<1>6. CASE x.error # "none"
  <2>1. y.error = x.error
    BY <1>3, <1>6
  <2>2. QED
    BY <1>3, <1>5, <1>6, <2>1 DEF Ends, Good, y
<1>7. CASE x.error = "none" /\ y.error = "sequence" /\ x.heard = 0
  <2>1. d # 0
    BY <1>7 DEF Ready
  <2>2. QED
    BY <1>3, <1>5, <1>7, <2>1 DEF Ends, Good, y
<1>8. CASE x.error = "none" /\ y.error = "none" /\ y.solEvents = {} /\ y.sol = "Send" /\ x.heard # 0
  <2>1. Ready(x, d, TRUE)
    BY <1>8
  <2>2. Steady(y, d)
    BY <1>3, <1>8, <2>1 DEF Ready, Steady, Solicits, Reports, Postponed, Current, Answered,
       Covered, Timed, Written, SameBut, Fields, WaitsForResponse, WaitsForUnsol, AwaitsConfirm
  <2>3. d = 0 => Triggered(y)
    BY <1>3, <2>1 DEF Ready, Triggered, Unreported, SameBut, Fields
  <2>4. QED
    BY <1>3, <1>5, <1>8, <2>2, <2>3 DEF Ends, Good, Live, y
<1>9. x.error = "none" => x.sol = "Idle"
  BY DEF Ready
<1>10. QED
  BY <1>3, <1>6, <1>7, <1>8, <1>9

\* A fragment of a response fits the state that waits for it (ResponseContext::LoadResponse).
LEMMA SendFragmentGood ==
  ASSUME NEW x, NEW u, NEW q, NEW d, Kept(x, u, q, d), Ends(x, d), x.written = 0,
         x.error = "none" => Ready(x, d, x.fir) /\ x.state = "WaitForRspSuccess"
  PROVE  /\ Good(SendFragment(x), u, q, d) /\ SameBut(x, SendFragment(x), SendFields)
<1> DEFINE y == SendFragment(x)
<1>1. Typed(x) /\ Accounted(x, u)
  BY DEF Kept
<1>2. /\ Typed(y) /\ Accounted(y, u) /\ SameBut(x, y, SendFields)
      /\ x.error # "none" => y.error = x.error
      /\ x.error = "none" /\ x.sol = "Idle" =>
           \/ y.error = "sequence" /\ x.fir /\ x.heard = 0
           \/ /\ y.error = "none" /\ y.sol \in {"Send", "SendConfirmed"}
              /\ ~(x.fir /\ x.heard = 0)
              /\ x.written = 0 => Written(y) \subseteq y.solEvents
  BY <1>1, SendFragmentFacts
<1> HIDE DEF y
<1>3. Kept(y, u, q, d)
  BY <1>2, KeptFrame DEF SameBut, Fields, SendFields
<1>4. CASE x.error # "none"
  <2>1. y.error = x.error
    BY <1>2, <1>4
  <2>2. QED
    BY <1>2, <1>3, <1>4, <2>1 DEF Ends, Good, y
<1>5. CASE x.error = "none" /\ y.error = "sequence" /\ x.heard = 0
  <2>1. d # 0
    BY <1>5 DEF Ready
  <2>2. QED
    BY <1>2, <1>3, <1>5, <2>1 DEF Ends, Good, y
<1>6. CASE /\ x.error = "none" /\ y.error = "none" /\ y.sol \in {"Send", "SendConfirmed"}
           /\ ~(x.fir /\ x.heard = 0) /\ Written(y) \subseteq y.solEvents
  <2>1. Ready(x, d, x.fir) /\ x.state = "WaitForRspSuccess"
    BY <1>6
  <2>2. Solicits(y) /\ Reports(y) /\ Postponed(y) /\ Current(y, d) /\ Answered(y, d)
    BY <1>2, <1>6, <2>1 DEF Ready, Solicits, Reports, Postponed, Current, Answered,
       SameBut, Fields, SendFields, WaitsForResponse, WaitsForUnsol, AwaitsConfirm
  <2>3. d = 0 => Covered(y) /\ Timed(y)
    BY <1>2, <1>6, <2>1 DEF Ready, Covered, Timed, SameBut, Fields, SendFields, WaitsForUnsol
  <2>4. d = 0 => Triggered(y)
    BY <1>2, <2>1 DEF Ready, Triggered, Unreported, SameBut, Fields, SendFields
  <2>5. QED
    BY <1>2, <1>3, <1>6, <2>2, <2>3, <2>4 DEF Ends, Good, Live, Steady, y
<1>7. x.error = "none" => x.sol = "Idle"
  BY DEF Ready
<1>8. QED
  BY <1>2, <1>4, <1>5, <1>6, <1>7

\* Nothing is marked as written while nothing is selected.
LEMMA WrittenNone ==
  ASSUME NEW x, Typed(x), x.selected = <<>>
  PROVE  x.written = 0 /\ Written(x) = {}
<1>1. x.written \in Nat /\ x.written <= 0
  BY EmptyFacts DEF Typed, Outstation
<1>2. x.written = 0
  BY <1>1
<1>3. SubSeq(x.selected, 1, 0) = <<>>
  OBVIOUS
<1>4. QED
  BY <1>2, <1>3, EmptyFacts DEF Written

\* In AS_Idle an unsolicited response fits the state that waits for it (Slave::SendUnsolicited).
LEMMA SendUnsolicitedGood ==
  ASSUME NEW x, NEW u \in Nat, NEW q, NEW d, NEW n \in Nat,
         Kept(x, u, q, d), Ends(x, d), x.state = "Idle", x.error = "none" => Steady(x, d)
  PROVE  LET y == SendUnsolicited(x, n) IN
         /\ Good(y, u, q, d) /\ SameBut(x, y, UnsolFields)
         /\ y.error = x.error \/ (x.error # "none" /\ y.error # "none")
         /\ y.error = "none" => y.state = "WaitForUnsolSuccess"
<1> DEFINE y == SendUnsolicited(x, n)
<1>1. Typed(x) /\ Accounted(x, u)
  BY DEF Kept
<1>2. /\ Typed(y) /\ Accounted(y, u) /\ SameBut(x, y, UnsolFields)
      /\ x.error # "none" => y.error = x.error
      /\ x.uns = "Idle" =>
           /\ y.error = x.error /\ y.state = "WaitForUnsolSuccess" /\ y.uns = "Busy"
           /\ x.written = 0 => Written(y) \subseteq y.unsEvents
  BY <1>1, SendUnsolicitedFacts
<1> HIDE DEF y
<1>3. Kept(y, u, q, d)
  BY <1>2, KeptFrame DEF SameBut, Fields, UnsolFields
<1>4. CASE x.error # "none"
  <2>1. y.error = x.error
    BY <1>2, <1>4
  <2>2. QED
    BY <1>2, <1>3, <1>4, <2>1 DEF Ends, Good, y
<1>5. CASE x.error = "none"
  <2>1. Steady(x, d)
    BY <1>5
  <2>2. x.uns = "Idle" /\ x.sol = "Idle"
    BY <2>1 DEF Steady, Reports, Solicits, WaitsForUnsol, WaitsForResponse
  <2>3. y.error = "none" /\ y.state = "WaitForUnsolSuccess" /\ y.uns = "Busy"
    BY <1>2, <1>5, <2>2
  <2>4. d = 0 => Written(y) \subseteq y.unsEvents
    BY <1>1, <1>2, <2>1, <2>2, WrittenNone DEF Steady, Covered
  <2>5. Solicits(y) /\ Reports(y) /\ Postponed(y) /\ Current(y, d) /\ Answered(y, d)
    BY <1>2, <2>1, <2>2, <2>3 DEF Steady, Solicits, Reports, Postponed, Current, Answered,
       SameBut, Fields, UnsolFields, WaitsForResponse, WaitsForUnsol, AwaitsConfirm
  <2>6. d = 0 => Covered(y) /\ Timed(y)
    BY <1>2, <2>1, <2>3, <2>4 DEF Steady, Covered, Timed, SameBut, Fields, UnsolFields
  <2>7. Triggered(y)
    BY <2>3 DEF Triggered, WaitsForUnsol
  <2>8. QED
    BY <1>2, <1>3, <1>5, <2>3, <2>5, <2>6, <2>7 DEF Ends, Good, Live, Steady, y
<1>6. QED
  BY <1>4, <1>5

\* The updates go to the event buffer (Slave::FlushUpdates).
LEMMA FlushUpdatesFacts ==
  ASSUME NEW x, NEW u, NEW q, NEW d, Kept(x, u, q, d)
  PROVE  LET y == FlushUpdates(x) IN
         /\ Kept(y, u, q, d) /\ SameBut(x, y, {"events", "changes"})
         /\ Steady(x, d) => Steady(y, d)
<1> DEFINE y == FlushUpdates(x)
<1>1. x \in Outstation /\ Typed(x) /\ Accounted(x, u)
  BY DEF Kept, Typed
<1>2. y \in Outstation
  BY <1>1 DEF FlushUpdates, Outstation
<1>3. /\ SameBut(x, y, {"events", "changes"})
      /\ y.events = x.events \cup x.changes /\ y.changes = {}
  BY <1>1 DEF FlushUpdates, Outstation, SameBut, Fields
<1> HIDE DEF y
<1>4. /\ y.selected = x.selected /\ y.erased = x.erased /\ y.request = x.request
      /\ y.written = x.written /\ y.executed = x.executed /\ y.confirmed = x.confirmed
      /\ y.deferredRequest = x.deferredRequest
  BY <1>3 DEF SameBut, Fields
<1>5. Typed(y) /\ Accounted(y, u)
  BY <1>1, <1>2, <1>3, <1>4 DEF Typed, Accounted
<1>6. Kept(y, u, q, d)
  BY <1>4, <1>5, KeptFrame
<1>7. Steady(x, d) => Steady(y, d)
  BY <1>3 DEF Steady, Solicits, Reports, Postponed, Current, Answered, Covered, Timed,
              Written, SameBut, Fields
<1>8. QED
  BY <1>3, <1>6, <1>7 DEF y

IdleFields == UnsolFields \cup {"changes", "timer", "armed"}

\* New events are reported, or a timer runs that will look at them (AS_Idle::OnDataUpdate).
LEMMA IdleOnDataUpdateGood ==
  ASSUME NEW x, NEW u \in Nat, NEW q, NEW d, Good(x, u, q, d), x.state = "Idle"
  PROVE  LET y == IdleOnDataUpdate(x) IN
         /\ Good(y, u, q, d) /\ SameBut(x, y, IdleFields)
         /\ x.error # "none" => y.error # "none"
         /\ y.error = "none" => y.state \in {"Idle", "WaitForUnsolSuccess"}
<1> DEFINE y == FlushUpdates(x)
<1>1. Kept(x, u, q, d) /\ Ends(x, d) /\ (x.error = "none" => Steady(x, d))
  BY DEF Good, Live
<1>2. /\ Kept(y, u, q, d) /\ SameBut(x, y, {"events", "changes"})
      /\ Steady(x, d) => Steady(y, d)
  BY <1>1, FlushUpdatesFacts
<1>3. IdleOnDataUpdate(x) =
        IF config.disableUnsol \/ ~y.nullUnsol \/ ~HasEvents(y) THEN y
        ELSE IF config.packDelayZero THEN SendUnsolicited(y, Everything)
        ELSE IF y.timer THEN y ELSE StartUnsolTimer(y)
  BY DEF IdleOnDataUpdate
<1> HIDE DEF y
<1>4. y.state = "Idle" /\ y.error = x.error
  BY <1>2 DEF SameBut, Fields
<1>5. Ends(y, d) /\ (y.error = "none" => Steady(y, d))
  BY <1>1, <1>2, <1>4 DEF Ends
<1>6. Typed(y) /\ Accounted(y, u)
  BY <1>2 DEF Kept
<1>7. SameBut(x, y, IdleFields)
  BY <1>2 DEF SameBut, Fields, IdleFields, UnsolFields
<1>8. CASE config.disableUnsol \/ ~y.nullUnsol \/ ~HasEvents(y)
  <2>1. IdleOnDataUpdate(x) = y
    BY <1>3, <1>8
  <2>2. ASSUME y.error = "none", d = 0
        PROVE  Triggered(y)
    <3>1. y.selected = <<>>
      BY <1>4, <1>5, <2>2 DEF Steady, Covered
    <3>2. Unreported(y) = y.events
      BY <3>1, EmptyFacts DEF Unreported
    <3>3. QED
      BY <1>8, <3>2 DEF Triggered, HasEvents
  <2>3. Good(y, u, q, d)
    BY <1>2, <1>5, <2>2 DEF Good, Live
  <2>4. QED
    BY <1>4, <1>7, <2>1, <2>3
<1>9. CASE ~(config.disableUnsol \/ ~y.nullUnsol \/ ~HasEvents(y)) /\ config.packDelayZero
  <2> DEFINE z == SendUnsolicited(y, Everything)
  <2>1. IdleOnDataUpdate(x) = z
    BY <1>3, <1>9
  <2>2. /\ Good(z, u, q, d) /\ SameBut(y, z, UnsolFields)
        /\ z.error = y.error \/ (y.error # "none" /\ z.error # "none")
        /\ z.error = "none" => z.state = "WaitForUnsolSuccess"
    BY <1>2, <1>4, <1>5, SlaveAssumption, SendUnsolicitedGood
  <2> HIDE DEF z
  <2>3. SameBut(x, z, IdleFields)
    BY <1>2, <2>2 DEF SameBut, Fields, IdleFields, UnsolFields
  <2>4. QED
    BY <1>4, <2>1, <2>2, <2>3
<1>10. CASE ~(config.disableUnsol \/ ~y.nullUnsol \/ ~HasEvents(y)) /\ ~config.packDelayZero /\ y.timer
  <2>1. IdleOnDataUpdate(x) = y
    BY <1>3, <1>10
  <2>2. ASSUME y.error = "none", d = 0
        PROVE  Triggered(y)
    BY <1>5, <1>10, <2>2 DEF Steady, Timed, Triggered
  <2>3. Good(y, u, q, d)
    BY <1>2, <1>5, <2>2 DEF Good, Live
  <2>4. QED
    BY <1>4, <1>7, <2>1, <2>3
<1>11. CASE ~(config.disableUnsol \/ ~y.nullUnsol \/ ~HasEvents(y)) /\ ~config.packDelayZero /\ ~y.timer
  <2> DEFINE z == StartUnsolTimer(y)
  <2>1. IdleOnDataUpdate(x) = z
    BY <1>3, <1>11
  <2>2. /\ Typed(z) /\ Accounted(z, u) /\ SameBut(y, z, TimerFields)
        /\ y.error # "none" => z.error = y.error
        /\ y.error = "none" => z.error = IF y.timer THEN "timer" ELSE "none"
        /\ ~y.timer => z.armed > 0
    BY <1>6, StartUnsolTimerFacts
  <2> HIDE DEF z
  <2>3. z.error = y.error /\ z.armed > 0
    BY <1>11, <2>2
  <2>4. SameBut(x, z, IdleFields) /\ z.state = "Idle"
    BY <1>2, <1>4, <2>2 DEF SameBut, Fields, IdleFields, UnsolFields, TimerFields
  <2>5. /\ z.executed = y.executed /\ z.request = y.request /\ z.erased = y.erased
        /\ z.confirmed = y.confirmed /\ z.deferredRequest = y.deferredRequest
    BY <2>2 DEF SameBut, Fields, TimerFields
  <2>6. Kept(z, u, q, d)
    BY <1>2, <2>2, <2>5, KeptFrame
  <2>7. y.error = "none" => Steady(z, d)
    BY <1>4, <1>5, <2>2, <2>3, <2>4 DEF Steady, Solicits, Reports, Postponed, Current, Answered,
       Covered, Timed, Written, SameBut, Fields, TimerFields
  <2>8. Triggered(z)
    BY <2>3 DEF Triggered
  <2>9. Good(z, u, q, d)
    BY <1>5, <2>3, <2>6, <2>7, <2>8 DEF Good, Live, Ends
  <2>10. QED
    BY <1>4, <2>1, <2>3, <2>4, <2>9
<1>12. QED
  BY <1>8, <1>9, <1>10, <1>11

\* After the timer, what there is to report is reported (AS_Idle::OnUnsolExpiration).
LEMMA IdleOnUnsolExpirationGood ==
  ASSUME NEW x, NEW u \in Nat, NEW q, NEW d, Kept(x, u, q, d), Ends(x, d), x.state = "Idle",
         x.error = "none" => Steady(x, d)
  PROVE  LET y == IdleOnUnsolExpiration(x) IN
         /\ Good(y, u, q, d) /\ SameBut(x, y, UnsolFields)
         /\ x.error # "none" => y.error # "none"
         /\ y.error = "none" => y.state \in {"Idle", "WaitForUnsolSuccess"}
<1>1. CASE x.nullUnsol /\ ~HasEvents(x)
  <2>1. IdleOnUnsolExpiration(x) = x
    BY <1>1 DEF IdleOnUnsolExpiration
  <2>2. ASSUME x.error = "none", d = 0
        PROVE  Triggered(x)
    <3>1. x.selected = <<>>
      BY <2>2 DEF Steady, Covered
    <3>2. Unreported(x) = x.events
      BY <3>1, EmptyFacts DEF Unreported
    <3>3. QED
      BY <1>1, <3>2 DEF Triggered, HasEvents
  <2>3. Good(x, u, q, d)
    BY <2>2 DEF Good, Live
  <2>4. SameBut(x, x, UnsolFields)
    BY DEF SameBut
  <2>5. QED
    BY <2>1, <2>3, <2>4
<1>2. CASE ~(x.nullUnsol /\ ~HasEvents(x))
  <2>1. PICK n \in Nat : IdleOnUnsolExpiration(x) = SendUnsolicited(x, n)
    BY <1>2, SlaveAssumption DEF IdleOnUnsolExpiration
  <2>2. LET z == SendUnsolicited(x, n) IN
        /\ Good(z, u, q, d) /\ SameBut(x, z, UnsolFields)
        /\ z.error = x.error \/ (x.error # "none" /\ z.error # "none")
        /\ z.error = "none" => z.state = "WaitForUnsolSuccess"
    BY SendUnsolicitedGood
  <2>3. QED
    BY <2>1, <2>2
<1>3. QED
  BY <1>1, <1>2

\* One more request is executed (AS_Base::DoRequest).
LEMMA AppendFacts ==
  ASSUME NEW q \in Numbers, Distinct(q), NEW v \in Nat, v \notin ToSet(q)
  PROVE  /\ Append(q, v) \in Numbers /\ Distinct(Append(q, v))
         /\ ToSet(Append(q, v)) = ToSet(q) \cup {v}
<1> DEFINE r == Append(q, v)
<1>1. q \in Seq(Nat) /\ Len(q) \in Nat
  BY DEF Numbers
<1>2. /\ r \in Seq(Nat) /\ Len(r) = Len(q) + 1 /\ r[Len(q) + 1] = v
      /\ \A i \in 1 .. Len(q) : r[i] = q[i]
  BY <1>1
<1> HIDE DEF r
<1>3. /\ DOMAIN q = 1 .. Len(q) /\ DOMAIN r = 1 .. Len(q) + 1
      /\ \A i \in 1 .. Len(q) + 1 : i # Len(q) + 1 => i \in 1 .. Len(q)
      /\ Len(q) + 1 \in 1 .. Len(q) + 1 /\ \A i \in 1 .. Len(q) : i \in 1 .. Len(q) + 1
  BY <1>1, <1>2
<1>4. \A i \in 1 .. Len(q) : r[i] \in ToSet(q)
  BY <1>2, <1>3 DEF ToSet
<1>5. Distinct(r)
  BY <1>2, <1>3, <1>4 DEF Distinct
<1>6. ToSet(r) = ToSet(q) \cup {v}
  <2>1. ToSet(r) \subseteq ToSet(q) \cup {v}
    BY <1>2, <1>3, <1>4 DEF ToSet
  <2>2. \A i \in 1 .. Len(q) : q[i] \in ToSet(r)
    BY <1>2, <1>3 DEF ToSet
  <2>3. v \in ToSet(r)
    BY <1>2, <1>3 DEF ToSet
  <2>4. QED
    BY <1>3, <2>1, <2>2, <2>3 DEF ToSet
<1>7. QED
  BY <1>2, <1>5, <1>6 DEF r, Numbers

\* A request that may be handled: it could be parsed, it has not been executed unless it is a
\* repetition, and it is the one heard last.
Handled(x, r, q, d) ==
  /\ r \in Request /\ r.fc # "UNKNOWN"
  /\ ~r.prev => r.id \in (1 .. q) \ ToSet(x.executed)
  /\ x.error = "none" =>
       /\ x.deferredUnknown \/ r.id = x.heard \/ (x.heard = 0 /\ d # 0)
       /\ d = 0 => x.heard # 0

\* The state in which a request is answered, and the one that waits for the answer
Follows(x, r, next) ==
  \/ x.state = "Idle" /\ next = "WaitForRspSuccess"
  \/ x.state = "WaitForUnsolSuccess" /\ next = "WaitForSolUnsolSuccess" /\ r.fc # "READ"

AnswerFields == {"state", "answered", "executed", "acknowledged", "deferredUnsol", "mask"}

\* Before the answer of a request is sent (AS_Base::DoRequest).
LEMMA AnswerReady ==
  ASSUME NEW x, NEW y, NEW r, NEW next, NEW u, NEW q, NEW d,
         Good(x, u, q, d), ~x.deferredRequest, Handled(x, r, q, d), Follows(x, r, next),
         SameBut(x, y, AnswerFields), y.state = next,
         y.answered[1] = r.id, y.answered[2] = x.heard,
         \/ y.deferredUnsol \/ config.disableUnsol
         \/ (y.mask => x.mask) /\ y.deferredUnsol = x.deferredUnsol
  PROVE  Ends(y, d) /\ (y.error = "none" => Ready(y, d, TRUE))
<1>1. Ends(y, d)
  BY DEF Good, Ends, SameBut, Fields, AnswerFields
<1>2. ASSUME y.error = "none"
      PROVE  Ready(y, d, TRUE)
  <2>1. x.error = "none"
    BY <1>2 DEF SameBut, Fields, AnswerFields
  <2>2. Steady(x, d) /\ (d = 0 => Triggered(x)) /\ Typed(x)
    BY <2>1 DEF Good, Live, Kept
  <2>3. /\ y.sol = x.sol /\ y.uns = x.uns /\ y.deferredRequest = x.deferredRequest
        /\ y.deferredUnknown = x.deferredUnknown /\ y.heard = x.heard /\ y.timer = x.timer
        /\ y.armed = x.armed /\ y.nullUnsol = x.nullUnsol /\ y.events = x.events
        /\ y.selected = x.selected /\ y.written = x.written /\ y.unsEvents = x.unsEvents
    BY DEF SameBut, Fields, AnswerFields
  <2>4. y.sol = "Idle" /\ y.state \in WaitsForResponse /\ Reports(y) /\ ~y.deferredRequest
    BY <2>2, <2>3 DEF Steady, Solicits, Reports, Follows, WaitsForResponse, WaitsForUnsol
  <2>5. y.deferredUnknown \/ y.answered[1] = y.answered[2] \/ y.heard = 0
    BY <2>1, <2>3 DEF Handled
  <2>6. ASSUME d = 0
        PROVE  /\ y.heard # 0 /\ Timed(y)
               /\ y.state = "WaitForSolUnsolSuccess" => Written(y) \subseteq y.unsEvents
               /\ y.state = "WaitForRspSuccess" => Written(y) = {}
    <3>1. y.heard # 0
      BY <2>1, <2>3, <2>6 DEF Handled
    <3>2. Covered(x) /\ Timed(x)
      BY <2>2, <2>6 DEF Steady
    <3>3. Timed(y)
      BY <2>3, <3>2 DEF Timed, Follows
    <3>4. Written(y) = Written(x)
      BY <2>3 DEF Written
    <3>5. CASE x.state = "Idle"
      BY <2>2, <3>1, <3>2, <3>3, <3>4, <3>5, WrittenNone DEF Covered, Follows
    <3>6. CASE x.state = "WaitForUnsolSuccess"
      BY <2>3, <3>1, <3>2, <3>3, <3>4, <3>6 DEF Covered, Follows, WaitsForUnsol
    <3>7. QED
      BY <3>5, <3>6 DEF Follows
  <2>7. ASSUME d = 0
        PROVE  Triggered(y)
    <3>1. Triggered(x)
      BY <2>2, <2>7
    <3>2. Unreported(y) = Unreported(x)
      BY <2>3 DEF Unreported
    <3>3. x.state \in WaitsForUnsol <=> y.state \in WaitsForUnsol
      BY DEF Follows, WaitsForUnsol
    <3>4. QED
      BY <2>3, <3>1, <3>2, <3>3 DEF Triggered
  <2>8. QED
    BY <2>4, <2>5, <2>6, <2>7 DEF Ready
<1>3. QED
  BY <1>1, <1>2

RequestFields == AnswerFields \cup ResetFields \cup SendFields

\* A request is executed, and its answer fits the state that waits for it (AS_Base::DoRequest).
LEMMA DoRequestGood ==
  ASSUME NEW x, NEW r, NEW next, NEW u \in Nat, NEW q \in Nat, NEW d,
         Good(x, u, q, d), ~x.deferredRequest, Handled(x, r, q, d), Follows(x, r, next)
  PROVE  LET y == DoRequest(x, next, r) IN
         /\ Good(y, u, q, d) /\ SameBut(x, y, RequestFields)
         /\ x.error # "none" => y.error # "none"
         /\ y = x \/ y.state = next
<1> DEFINE a == <<r.id, x.heard>>
           y == [x EXCEPT !.state = next, !.answered = a]
<1>1. /\ r.id \in Nat /\ r.fc \in Functions \ {"UNKNOWN"} /\ r.read \in ReadRequest
      /\ r.prev \in BOOLEAN
  BY DEF Handled, Request
<1>2. x \in Outstation /\ x.heard \in Nat /\ Typed(x) /\ Accounted(x, u) /\ Kept(x, u, q, d)
  BY DEF Good, Kept, Typed, Outstation
<1>3. a \in Answer /\ a[1] = r.id /\ a[2] = x.heard /\ next \in States
  BY <1>1, <1>2 DEF Answer, Follows, States
<1> HIDE DEF a
<1>4. y \in Outstation
  BY <1>2, <1>3 DEF Outstation
<1>5. SameBut(x, y, {"state", "answered"}) /\ y.state = next /\ y.answered = a
  BY <1>2 DEF Outstation, SameBut, Fields
<1>6. DoRequest(x, next, r) =
        CASE r.fc = "READ"    -> SendFragment(Configure(y, r.read))
          [] r.fc = "WRITE"   -> Respond([y EXCEPT !.executed = IF r.prev THEN @ ELSE Append(@, r.id),
                                                   !.acknowledged = @ \cup {r.id}])
          [] r.fc = "NO_ACK"  -> x
          [] r.fc = "ENABLE"  -> Respond(IF config.disableUnsol THEN y
                                   ELSE [y EXCEPT !.deferredUnsol = TRUE, !.mask = TRUE])
          [] r.fc = "DISABLE" -> Respond([y EXCEPT !.mask = @ /\ config.disableUnsol])
  BY DEF DoRequest, a
<1> HIDE DEF y
<1>7. /\ y.selected = x.selected /\ y.changes = x.changes /\ y.events = x.events
      /\ y.erased = x.erased /\ y.written = x.written /\ y.request = x.request
      /\ y.executed = x.executed /\ y.confirmed = x.confirmed /\ y.mask = x.mask
      /\ y.deferredRequest = x.deferredRequest /\ y.deferredUnsol = x.deferredUnsol
      /\ y.error = x.error
  BY <1>5 DEF SameBut, Fields
<1>8. Typed(y) /\ Accounted(y, u)
  BY <1>2, <1>4, <1>7 DEF Typed, Accounted
<1>9. Kept(y, u, q, d)
  BY <1>2, <1>7, <1>8, KeptFrame
<1>10. Ends(y, d) /\ (y.error = "none" => Ready(y, d, TRUE))
  <2>1. SameBut(x, y, AnswerFields)
    BY <1>5 DEF SameBut, Fields, AnswerFields
  <2>2. QED
    BY <1>3, <1>5, <1>7, <2>1, AnswerReady
\* A response of z, which differs from y in what the request changes
<1>11. ASSUME NEW z, Kept(z, u, q, d),
              SameBut(y, z, {"executed", "acknowledged", "deferredUnsol", "mask"}),
              \/ z.deferredUnsol \/ config.disableUnsol
              \/ (z.mask => x.mask) /\ z.deferredUnsol = x.deferredUnsol,
              NEW v, v = Respond(z)
       PROVE  /\ Good(v, u, q, d) /\ SameBut(x, v, RequestFields)
              /\ x.error # "none" => v.error # "none"
              /\ v.state = next
  <2>1. SameBut(x, z, AnswerFields) /\ z.state = next /\ z.answered = a /\ z.error = x.error
    BY <1>5, <1>11 DEF SameBut, Fields, AnswerFields
  <2>2. Ends(z, d) /\ (z.error = "none" => Ready(z, d, TRUE))
    BY <1>3, <1>11, <2>1, AnswerReady
  <2>3. Good(v, u, q, d) /\ SameBut(z, v, {"sol", "solEvents", "error"})
    BY <1>11, <2>2, RespondGood
  <2>4. SameBut(x, v, RequestFields) /\ v.state = next
    BY <2>1, <2>3 DEF SameBut, Fields, RequestFields, AnswerFields, SendFields, ResetFields
  <2>5. x.error # "none" => v.error # "none"
    <3>1. Typed(z)
      BY <1>11 DEF Kept
    <3>2. ASSUME z.error # "none"
          PROVE  v.error = z.error
      <4>1. v = SendResponse(z, TRUE, FALSE, {})
        BY <1>11 DEF Respond
      <4>2. CASE z.sol # "Idle"
        BY <3>1, <3>2, <4>1, <4>2, FailFacts DEF SendResponse, Errors
      <4>3. CASE z.sol = "Idle" /\ z.heard = 0
        BY <3>1, <3>2, <4>1, <4>3, FailFacts DEF SendResponse, Errors
      <4>4. CASE z.sol = "Idle" /\ z.heard # 0
        <5>1. v = [z EXCEPT !.sol = "Send", !.solEvents = {}]
          BY <4>1, <4>4 DEF SendResponse
        <5>2. QED
          BY <3>1, <5>1 DEF Typed, Outstation
      <4>5. QED
        BY <4>2, <4>3, <4>4
    <3>3. QED
      BY <2>1, <3>2
  <2>6. QED
    BY <2>3, <2>4, <2>5
<1>12. CASE r.fc = "NO_ACK"
  <2>1. DoRequest(x, next, r) = x
    BY <1>6, <1>12
  <2>2. SameBut(x, x, RequestFields)
    BY DEF SameBut
  <2>3. QED
    BY <2>1, <2>2
<1>13. CASE r.fc = "READ"
  <2> DEFINE c == Configure(y, r.read)
             v == SendFragment(c)
  <2>1. DoRequest(x, next, r) = v
    BY <1>6, <1>13
  <2>2. next = "WaitForRspSuccess"
    BY <1>13 DEF Follows
  <2>3. /\ Typed(c) /\ Accounted(c, u) /\ SameBut(y, c, ResetFields)
        /\ c.written = 0 /\ c.fir = TRUE /\ Unreported(c) = Unreported(y)
    BY <1>1, <1>8, ConfigureFacts
  <2> HIDE DEF c
  <2>4. /\ c.executed = y.executed /\ c.request = y.request /\ c.erased = y.erased
        /\ c.confirmed = y.confirmed /\ c.deferredRequest = y.deferredRequest
        /\ c.error = y.error /\ c.state = "WaitForRspSuccess"
    BY <1>5, <2>2, <2>3 DEF SameBut, Fields, ResetFields
  <2>5. Kept(c, u, q, d)
    BY <1>9, <2>3, <2>4, KeptFrame
  <2>6. Written(c) = {}
    <3>1. SubSeq(c.selected, 1, 0) = <<>>
      OBVIOUS
    <3>2. QED
      BY <2>3, <3>1, EmptyFacts DEF Written
  <2>7. c.error = "none" => Ready(c, d, c.fir)
    BY <1>10, <2>3, <2>4, <2>6 DEF Ready, Reports, Timed, Triggered, SameBut, Fields, ResetFields
  <2>8. Ends(c, d)
    BY <1>10, <2>4 DEF Ends
  <2>9. Good(v, u, q, d) /\ SameBut(c, v, SendFields)
    BY <2>3, <2>4, <2>5, <2>7, <2>8, SendFragmentGood
  <2>10. x.error # "none" => v.error # "none"
    BY <1>7, <2>3, <2>4, SendFragmentFacts
  <2> HIDE DEF v
  <2>11. SameBut(x, v, RequestFields) /\ v.state = next
    BY <1>5, <2>3, <2>9 DEF SameBut, Fields, RequestFields, AnswerFields, SendFields, ResetFields
  <2>12. QED
    BY <2>1, <2>9, <2>10, <2>11
<1>14. CASE r.fc = "WRITE"
  <2> DEFINE e == IF r.prev THEN y.executed ELSE Append(y.executed, r.id)
             k == y.acknowledged \cup {r.id}
             z == [y EXCEPT !.executed = e, !.acknowledged = k]
  <2>1. DoRequest(x, next, r) = Respond(z)
    BY <1>6, <1>14
  <2>2. y.executed \in Numbers /\ Distinct(y.executed) /\ ToSet(y.executed) \subseteq 1 .. q
    BY <1>4, <1>9 DEF Kept, ExecutedOnce, Outstation
  <2>3. e \in Numbers /\ Distinct(e) /\ ToSet(e) \subseteq 1 .. q
    <3>1. CASE r.prev
      BY <2>2, <3>1
    <3>2. CASE ~r.prev
      <4>1. r.id \in 1 .. q /\ r.id \notin ToSet(y.executed)
        BY <1>7, <3>2 DEF Handled
      <4>2. /\ Append(y.executed, r.id) \in Numbers /\ Distinct(Append(y.executed, r.id))
            /\ ToSet(Append(y.executed, r.id)) = ToSet(y.executed) \cup {r.id}
        BY <1>1, <2>2, <4>1, AppendFacts
      <4>3. QED
        BY <2>2, <3>2, <4>1, <4>2
    <3>3. QED
      BY <3>1, <3>2
  <2>11. k \in SUBSET Nat
    BY <1>1, <1>4 DEF Outstation
  <2> HIDE DEF e, k
  <2>4. z \in Outstation
    BY <1>4, <2>3, <2>11 DEF Outstation
  <2>5. SameBut(y, z, {"executed", "acknowledged"}) /\ z.executed = e
    BY <1>4 DEF Outstation, SameBut, Fields
  <2> HIDE DEF z
  <2>6. /\ z.selected = y.selected /\ z.changes = y.changes /\ z.events = y.events
        /\ z.erased = y.erased /\ z.written = y.written /\ z.request = y.request
        /\ z.confirmed = y.confirmed /\ z.deferredRequest = y.deferredRequest
        /\ z.mask = y.mask /\ z.deferredUnsol = y.deferredUnsol
    BY <2>5 DEF SameBut, Fields
  <2>7. Typed(z) /\ Accounted(z, u)
    BY <1>8, <2>4, <2>6 DEF Typed, Accounted
  <2>8. Kept(z, u, q, d)
    BY <1>7, <1>9, <2>3, <2>5, <2>6, <2>7 DEF Kept, ExecutedOnce
  <2>9. SameBut(y, z, {"executed", "acknowledged", "deferredUnsol", "mask"})
    BY <2>5 DEF SameBut, Fields
  <2>10. QED
    BY <1>7, <1>11, <2>1, <2>6, <2>8, <2>9
<1>15. CASE r.fc = "ENABLE"
  <2> DEFINE z == IF config.disableUnsol THEN y ELSE [y EXCEPT !.deferredUnsol = TRUE, !.mask = TRUE]
  <2>1. DoRequest(x, next, r) = Respond(z)
    BY <1>6, <1>15
  <2>2. /\ z \in Outstation /\ SameBut(y, z, {"deferredUnsol", "mask"})
        /\ z.deferredUnsol \/ config.disableUnsol
    <3>1. CASE config.disableUnsol
      BY <1>4, <3>1 DEF SameBut
    <3>2. CASE ~config.disableUnsol
      <4>1. z = [y EXCEPT !.deferredUnsol = TRUE, !.mask = TRUE]
        BY <3>2
      <4> HIDE DEF z
      <4>2. QED
        BY <1>4, <4>1 DEF Outstation, SameBut, Fields
    <3>3. QED
      BY <3>1, <3>2
  <2> HIDE DEF z
  <2>3. /\ z.selected = y.selected /\ z.changes = y.changes /\ z.events = y.events
        /\ z.erased = y.erased /\ z.written = y.written /\ z.request = y.request
        /\ z.confirmed = y.confirmed /\ z.deferredRequest = y.deferredRequest
        /\ z.executed = y.executed
    BY <2>2 DEF SameBut, Fields
  <2>4. Typed(z) /\ Accounted(z, u)
    BY <1>8, <2>2, <2>3 DEF Typed, Accounted
  <2>5. Kept(z, u, q, d)
    BY <1>9, <2>3, <2>4, KeptFrame
  <2>6. SameBut(y, z, {"executed", "acknowledged", "deferredUnsol", "mask"})
    BY <2>2 DEF SameBut, Fields
  <2>7. QED
    BY <1>11, <2>1, <2>2, <2>5, <2>6
<1>16. CASE r.fc = "DISABLE"
  <2> DEFINE m == y.mask /\ config.disableUnsol
             z == [y EXCEPT !.mask = m]
  <2>1. DoRequest(x, next, r) = Respond(z)
    BY <1>6, <1>16
  <2>2. m \in BOOLEAN /\ (m => x.mask)
    BY <1>7
  <2> HIDE DEF m
  <2>3. z \in Outstation /\ SameBut(y, z, {"mask"}) /\ z.mask = m
    BY <1>4, <2>2 DEF Outstation, SameBut, Fields
  <2> HIDE DEF z
  <2>4. /\ z.selected = y.selected /\ z.changes = y.changes /\ z.events = y.events
        /\ z.erased = y.erased /\ z.written = y.written /\ z.request = y.request
        /\ z.confirmed = y.confirmed /\ z.deferredRequest = y.deferredRequest
        /\ z.executed = y.executed /\ z.deferredUnsol = y.deferredUnsol
    BY <2>3 DEF SameBut, Fields
  <2>5. Typed(z) /\ Accounted(z, u)
    BY <1>8, <2>3, <2>4 DEF Typed, Accounted
  <2>6. Kept(z, u, q, d)
    BY <1>9, <2>4, <2>5, KeptFrame
  <2>7. SameBut(y, z, {"executed", "acknowledged", "deferredUnsol", "mask"})
    BY <2>3 DEF SameBut, Fields
  <2>8. z.mask => x.mask
    BY <2>2, <2>3
  <2>9. QED
    BY <1>7, <1>11, <2>1, <2>4, <2>6, <2>7, <2>8
<1>17. QED
  BY <1>1, <1>12, <1>13, <1>14, <1>15, <1>16 DEF Functions

---------------------------------------------------------------------------
(* Deferred work *)

\* The invariant, except that a newer request than the deferred one may have been heard.
Ahead(x, u, q, d) ==
  /\ Kept(x, u, q, d) /\ Ends(x, d)
  /\ x.error = "none" =>
       /\ Solicits(x) /\ Reports(x) /\ Postponed(x) /\ Answered(x, d)
       /\ d = 0 => Covered(x) /\ Timed(x) /\ Triggered(x)

\* No request is newer than the deferred one after all.
LEMMA GoodIsAhead ==
  ASSUME NEW x, NEW u, NEW q, NEW d, Good(x, u, q, d)
  PROVE  Ahead(x, u, q, d)
BY DEF Good, Live, Steady, Ahead

\* Without a deferred request there is none that could be overtaken (AS_WaitForUnsolSuccess).
LEMMA DropRequest ==
  ASSUME NEW x, NEW u, NEW q, NEW d, Ahead(x, u, q, d)
  PROVE  LET y == [x EXCEPT !.deferredRequest = FALSE] IN
         /\ Good(y, u, q, d) /\ SameBut(x, y, {"deferredRequest"}) /\ ~y.deferredRequest
<1> DEFINE y == [x EXCEPT !.deferredRequest = FALSE]
<1>1. x \in Outstation /\ Typed(x) /\ Accounted(x, u) /\ Kept(x, u, q, d)
  BY DEF Ahead, Kept, Typed
<1>2. y \in Outstation
  BY <1>1 DEF Outstation
<1>3. SameBut(x, y, {"deferredRequest"}) /\ y.deferredRequest = FALSE
  BY <1>1 DEF Outstation, SameBut, Fields
<1> HIDE DEF y
<1>4. /\ y.selected = x.selected /\ y.changes = x.changes /\ y.events = x.events
      /\ y.erased = x.erased /\ y.written = x.written /\ y.request = x.request
      /\ y.executed = x.executed /\ y.confirmed = x.confirmed /\ y.error = x.error
  BY <1>3 DEF SameBut, Fields
<1>5. Typed(y) /\ Accounted(y, u)
  BY <1>1, <1>2, <1>4 DEF Typed, Accounted
<1>6. Kept(y, u, q, d)
  BY <1>1, <1>3, <1>4, <1>5, KeptFrame
<1>7. Ends(y, d)
  BY <1>4 DEF Ahead, Ends
<1>8. ASSUME y.error = "none"
      PROVE  Live(y, d)
  <2>1. /\ Solicits(x) /\ Reports(x) /\ Postponed(x) /\ Answered(x, d)
        /\ d = 0 => Covered(x) /\ Timed(x) /\ Triggered(x)
    BY <1>4, <1>8 DEF Ahead
  <2>2. Solicits(y) /\ Reports(y) /\ Postponed(y) /\ Answered(y, d) /\ Current(y, d)
    BY <1>3, <2>1 DEF Solicits, Reports, Postponed, Answered, Current, SameBut, Fields
  <2>3. d = 0 => Covered(y) /\ Timed(y) /\ Triggered(y)
    BY <1>3, <2>1 DEF Covered, Timed, Triggered, Written, Unreported, SameBut, Fields
  <2>4. QED
    BY <2>2, <2>3 DEF Live, Steady
<1>9. QED
  BY <1>3, <1>6, <1>7, <1>8 DEF Good, y

\* What a flush keeps: an error that was there, and the state unless AS_Idle left it.
Flushed(x, y) ==
  /\ x.error # "none" => y.error # "none"
  /\ y.heard = x.heard
  /\ ~x.deferredRequest => ~y.deferredRequest
  /\ y.error = "none" => y.state = x.state \/ x.state = "Idle"
  /\ y.error = "none" /\ ~x.deferredRequest =>
       y.state = x.state \/ y.state = "WaitForUnsolSuccess"

\* A deferred update is handled by AS_Idle (Slave::FlushDeferredEvents).
LEMMA FlushUpdateGood ==
  ASSUME NEW x, NEW u \in Nat, NEW q, NEW d, Good(x, u, q, d)
  PROVE  LET y == FlushUpdate(x) IN
         /\ Good(y, u, q, d) /\ Flushed(x, y)
         /\ y.error = "none" => y.state # "Idle" \/ ~y.deferredUpdate
<1>1. CASE ~(x.state = "Idle" /\ x.deferredUpdate)
  <2>1. FlushUpdate(x) = x
    BY <1>1 DEF FlushUpdate
  <2>2. QED
    BY <1>1, <2>1 DEF Flushed
<1>2. CASE x.state = "Idle" /\ x.deferredUpdate
  <2> DEFINE w == [x EXCEPT !.deferredUpdate = FALSE]
             y == IdleOnDataUpdate(w)
  <2>1. FlushUpdate(x) = y
    BY <1>2 DEF FlushUpdate
  <2>2. x \in Outstation
    BY DEF Good, Kept, Typed
  <2>3. w \in Outstation /\ SameBut(x, w, {"deferredUpdate"}) /\ w.deferredUpdate = FALSE
    BY <2>2 DEF Outstation, SameBut, Fields
  <2> HIDE DEF w
  <2>4. Good(w, u, q, d)
    BY <2>3, GoodFrame
  <2>5. w.state = "Idle"
    BY <1>2, <2>3 DEF SameBut, Fields
  <2>6. /\ Good(y, u, q, d) /\ SameBut(w, y, IdleFields)
        /\ w.error # "none" => y.error # "none"
        /\ y.error = "none" => y.state \in {"Idle", "WaitForUnsolSuccess"}
    BY <2>4, <2>5, IdleOnDataUpdateGood
  <2> HIDE DEF y
  <2>7. /\ y.deferredUpdate = FALSE /\ y.heard = x.heard /\ w.error = x.error
        /\ y.deferredRequest = x.deferredRequest
    BY <2>3, <2>6 DEF SameBut, Fields, IdleFields, UnsolFields
  <2>8. QED
    BY <1>2, <2>1, <2>6, <2>7 DEF Flushed
<1>3. QED
  BY <1>1, <1>2

\* ... then a deferred request
LEMMA FlushRequestGood ==
  ASSUME NEW x, NEW u \in Nat, NEW q \in Nat, NEW d, Good(x, u, q, d)
  PROVE  LET y == FlushRequest(x) IN
         /\ Good(y, u, q, d) /\ Flushed(x, y)
         /\ y.error = "none" =>
              y.state # "Idle" \/ (~y.deferredRequest /\ y.deferredUpdate = x.deferredUpdate)
<1>1. CASE ~(x.state = "Idle" /\ x.deferredRequest)
  <2>1. FlushRequest(x) = x
    BY <1>1 DEF FlushRequest
  <2>2. QED
    BY <1>1, <2>1 DEF Flushed
<1>2. CASE x.state = "Idle" /\ x.deferredRequest
  <2> DEFINE w == [x EXCEPT !.deferredRequest = FALSE]
             y == DoRequest(w, "WaitForRspSuccess", x.request)
  <2>1. FlushRequest(x) = y
    BY <1>2 DEF FlushRequest, IdleOnRequest
  <2>2. Good(w, u, q, d) /\ SameBut(x, w, {"deferredRequest"}) /\ ~w.deferredRequest
    BY GoodIsAhead, DropRequest
  <2> HIDE DEF w
  <2>3. /\ w.state = x.state /\ w.error = x.error /\ w.heard = x.heard
        /\ w.executed = x.executed /\ w.deferredUnknown = x.deferredUnknown
        /\ w.deferredUpdate = x.deferredUpdate
    BY <2>2 DEF SameBut, Fields
  <2>4. Handled(w, x.request, q, d)
    <3>1. x.request \in Request /\ x.request.fc # "UNKNOWN"
      BY DEF Good, Kept, Typed, Outstation
    <3>2. ~x.request.prev => x.request.id \in (1 .. q) \ ToSet(w.executed)
      BY <1>2, <2>3 DEF Good, Kept, ExecutedOnce
    <3>3. ASSUME w.error = "none"
          PROVE  /\ w.deferredUnknown \/ x.request.id = w.heard \/ (w.heard = 0 /\ d # 0)
                 /\ d = 0 => w.heard # 0
      BY <1>2, <2>3, <3>3 DEF Good, Live, Steady, Current, Answered
    <3>4. QED
      BY <3>1, <3>2, <3>3 DEF Handled
  <2>5. Follows(w, x.request, "WaitForRspSuccess")
    BY <1>2, <2>3 DEF Follows
  <2>6. /\ Good(y, u, q, d) /\ SameBut(w, y, RequestFields)
        /\ w.error # "none" => y.error # "none"
        /\ y = w \/ y.state = "WaitForRspSuccess"
    BY <2>2, <2>4, <2>5, DoRequestGood
  <2> HIDE DEF y
  <2>7. /\ y.heard = x.heard /\ y.deferredRequest = w.deferredRequest
        /\ y.deferredUpdate = x.deferredUpdate
    BY <2>3, <2>6 DEF SameBut, Fields, RequestFields, AnswerFields, SendFields, ResetFields
  <2>8. QED
    BY <1>2, <2>1, <2>2, <2>3, <2>6, <2>7 DEF Flushed
<1>3. QED
  BY <1>1, <1>2

\* ... then a deferred unsolicited response
LEMMA FlushUnsolGood ==
  ASSUME NEW x, NEW u \in Nat, NEW q, NEW d, Good(x, u, q, d)
  PROVE  LET y == FlushUnsol(x) IN
         /\ Good(y, u, q, d) /\ Flushed(x, y)
         /\ y.error = "none" =>
              \/ y.state # "Idle"
              \/ /\ x.state = "Idle" /\ ~y.deferredUnsol
                 /\ y.deferredRequest = x.deferredRequest /\ y.deferredUpdate = x.deferredUpdate
<1>1. CASE ~(x.state = "Idle" /\ x.deferredUnsol)
  <2>1. FlushUnsol(x) = x
    BY <1>1 DEF FlushUnsol
  <2>2. QED
    BY <1>1, <2>1 DEF Flushed
<1>2. CASE x.state = "Idle" /\ x.deferredUnsol
  <2> DEFINE w == [x EXCEPT !.deferredUnsol = FALSE]
             y == IdleOnUnsolExpiration(w)
  <2>1. FlushUnsol(x) = y
    BY <1>2 DEF FlushUnsol
  <2>2. x \in Outstation /\ Kept(x, u, q, d) /\ Typed(x) /\ Accounted(x, u)
    BY DEF Good, Kept, Typed
  <2>3. w \in Outstation /\ SameBut(x, w, {"deferredUnsol"}) /\ w.deferredUnsol = FALSE
    BY <2>2 DEF Outstation, SameBut, Fields
  <2> HIDE DEF w
  <2>4. /\ w.selected = x.selected /\ w.changes = x.changes /\ w.events = x.events
        /\ w.erased = x.erased /\ w.written = x.written /\ w.request = x.request
        /\ w.executed = x.executed /\ w.confirmed = x.confirmed /\ w.error = x.error
        /\ w.deferredRequest = x.deferredRequest /\ w.deferredUpdate = x.deferredUpdate
        /\ w.state = x.state /\ w.heard = x.heard
    BY <2>3 DEF SameBut, Fields
  <2>5. Typed(w) /\ Accounted(w, u)
    BY <2>2, <2>3, <2>4 DEF Typed, Accounted
  <2>6. Kept(w, u, q, d)
    BY <2>2, <2>4, <2>5, KeptFrame
  <2>7. Ends(w, d)
    BY <2>4 DEF Good, Ends
  <2>8. ASSUME w.error = "none"
        PROVE  Steady(w, d)
    <3>1. Steady(x, d)
      BY <2>4, <2>8 DEF Good, Live
    <3>2. QED
      BY <2>3, <3>1 DEF Steady, Solicits, Reports, Postponed, Current, Answered, Covered,
         Timed, Written, SameBut, Fields
  <2>9. /\ Good(y, u, q, d) /\ SameBut(w, y, UnsolFields)
        /\ w.error # "none" => y.error # "none"
        /\ y.error = "none" => y.state \in {"Idle", "WaitForUnsolSuccess"}
    BY <1>2, <2>4, <2>6, <2>7, <2>8, IdleOnUnsolExpirationGood
  <2> HIDE DEF y
  <2>10. /\ y.heard = x.heard /\ y.deferredRequest = x.deferredRequest
         /\ y.deferredUpdate = x.deferredUpdate /\ y.deferredUnsol = FALSE
    BY <2>3, <2>4, <2>9 DEF SameBut, Fields, UnsolFields
  <2>11. QED
    BY <1>2, <2>1, <2>4, <2>9, <2>10 DEF Flushed
<1>3. QED
  BY <1>1, <1>2

\* After a flush nothing is left that AS_Idle would handle (Slave::FlushDeferredEvents).
LEMMA FlushDeferredEventsGood ==
  ASSUME NEW x, NEW u \in Nat, NEW q \in Nat, NEW d, Good(x, u, q, d)
  PROVE  LET y == FlushDeferredEvents(x) IN
         /\ Good(y, u, q, d) /\ Flushed(x, y)
         /\ y.error = "none" => Settled(y)
<1> DEFINE y1 == FlushUpdate(x)
           y2 == FlushRequest(y1)
           y3 == FlushUnsol(y2)
<1>1. FlushDeferredEvents(x) = y3
  BY DEF FlushDeferredEvents
<1>2. /\ Good(y1, u, q, d) /\ Flushed(x, y1)
      /\ y1.error = "none" => y1.state # "Idle" \/ ~y1.deferredUpdate
  BY FlushUpdateGood
<1> HIDE DEF y1
<1>3. /\ Good(y2, u, q, d) /\ Flushed(y1, y2)
      /\ y2.error = "none" =>
           y2.state # "Idle" \/ (~y2.deferredRequest /\ y2.deferredUpdate = y1.deferredUpdate)
  BY <1>2, FlushRequestGood
<1> HIDE DEF y2
<1>4. /\ Good(y3, u, q, d) /\ Flushed(y2, y3)
      /\ y3.error = "none" =>
           \/ y3.state # "Idle"
           \/ /\ y2.state = "Idle" /\ ~y3.deferredUnsol
              /\ y3.deferredRequest = y2.deferredRequest /\ y3.deferredUpdate = y2.deferredUpdate
  BY <1>3, FlushUnsolGood
<1> HIDE DEF y3
<1>5. Flushed(x, y3)
  BY <1>2, <1>3, <1>4 DEF Flushed
<1>6. y3.error = "none" => Settled(y3)
  BY <1>2, <1>3, <1>4 DEF Flushed, Settled
<1>7. QED
  BY <1>1, <1>4, <1>5, <1>6

---------------------------------------------------------------------------
(* The callbacks of the application layer *)

\* The response of the state has ended, and the channel is idle (SolicitedChannel).
SolEnded(x, u, q, d) ==
  /\ Kept(x, u, q, d) /\ x.error = "none"
  /\ x.sol = "Idle" /\ x.state \in WaitsForResponse /\ Reports(x)
  /\ Current(x, d) /\ Answered(x, d)
  /\ d = 0 =>
       /\ Timed(x) /\ Triggered(x)
       /\ x.state \in WaitsForUnsol => Written(x) \subseteq x.unsEvents

\* ... and was confirmed, if it asked for it
SolSucceeded(x, d) ==
  x.state = "WaitForRspSuccess" =>
    /\ x.deferredRequest => x.static = 0
    /\ d = 0 => Written(x) \subseteq x.confirmed

\* While an unsolicited response is sent the state goes on to wait for it
\* (AS_WaitForSolUnsolSuccess).
LEMMA SolUnsolEnds ==
  ASSUME NEW x, NEW u, NEW q, NEW d, SolEnded(x, u, q, d), x.state = "WaitForSolUnsolSuccess"
  PROVE  LET y == [x EXCEPT !.state = "WaitForUnsolSuccess"] IN
         Good(y, u, q, d) /\ SameBut(x, y, {"state"}) /\ y.state = "WaitForUnsolSuccess"
<1> DEFINE y == [x EXCEPT !.state = "WaitForUnsolSuccess"]
<1>1. x \in Outstation /\ Kept(x, u, q, d) /\ Typed(x) /\ Accounted(x, u)
  BY DEF SolEnded, Kept, Typed
<1>2. y \in Outstation
  BY <1>1 DEF Outstation, States
<1>3. SameBut(x, y, {"state"}) /\ y.state = "WaitForUnsolSuccess"
  BY <1>1 DEF Outstation, SameBut, Fields
<1> HIDE DEF y
<1>4. /\ y.selected = x.selected /\ y.changes = x.changes /\ y.events = x.events
      /\ y.erased = x.erased /\ y.written = x.written /\ y.request = x.request
      /\ y.executed = x.executed /\ y.confirmed = x.confirmed /\ y.error = x.error
      /\ y.deferredRequest = x.deferredRequest
  BY <1>3 DEF SameBut, Fields
<1>5. Typed(y) /\ Accounted(y, u)
  BY <1>1, <1>2, <1>4 DEF Typed, Accounted
<1>6. Kept(y, u, q, d)
  BY <1>1, <1>4, <1>5, KeptFrame
<1>7. Ends(y, d)
  BY <1>4 DEF SolEnded, Ends
<1>8. Solicits(y) /\ Reports(y) /\ Postponed(y) /\ Current(y, d) /\ Answered(y, d)
  BY <1>3 DEF SolEnded, Solicits, Reports, Postponed, Current, Answered, SameBut, Fields,
     WaitsForResponse, WaitsForUnsol, AwaitsConfirm
<1>9. d = 0 => Covered(y) /\ Timed(y) /\ Triggered(y)
  BY <1>3 DEF SolEnded, Covered, Timed, Triggered, Written, Unreported, SameBut, Fields,
     WaitsForUnsol
<1>10. QED
  BY <1>3, <1>6, <1>7, <1>8, <1>9 DEF Good, Live, Steady, y

EndFields == {"state"} \cup ResetFields \cup ClearFields

\* AS_Idle after a response, with nothing selected (AS_WaitForRspSuccess).
LEMMA RspEnds ==
  ASSUME NEW x, NEW y, NEW u, NEW q, NEW d, SolEnded(x, u, q, d), x.state = "WaitForRspSuccess",
         Typed(y), Accounted(y, u), SameBut(x, y, EndFields), y.state = "Idle",
         y.selected = <<>>, d = 0 => y.erased \subseteq y.confirmed,
         Unreported(y) \subseteq Unreported(x)
  PROVE  Good(y, u, q, d)
<1>1. /\ y.request = x.request /\ y.executed = x.executed /\ y.error = x.error
      /\ y.deferredRequest = x.deferredRequest /\ y.sol = x.sol /\ y.uns = x.uns
      /\ y.deferredUnknown = x.deferredUnknown /\ y.heard = x.heard
      /\ y.answered = x.answered /\ y.timer = x.timer /\ y.armed = x.armed
      /\ y.nullUnsol = x.nullUnsol /\ y.mask = x.mask /\ y.deferredUnsol = x.deferredUnsol
  BY DEF SameBut, Fields, EndFields, ResetFields, ClearFields
<1>2. Kept(y, u, q, d)
  BY <1>1 DEF SolEnded, Kept, ExecutedOnce
<1>3. Ends(y, d)
  BY <1>1 DEF SolEnded, Ends
<1>4. Solicits(y) /\ Reports(y) /\ Postponed(y) /\ Current(y, d) /\ Answered(y, d)
  BY <1>1 DEF SolEnded, Solicits, Reports, Postponed, Current, Answered,
     WaitsForResponse, WaitsForUnsol, AwaitsConfirm
<1>5. Covered(y)
  BY DEF Covered, WaitsForUnsol
<1>6. d = 0 => Timed(y) /\ Triggered(y)
  BY <1>1 DEF SolEnded, Timed, Triggered, WaitsForUnsol
<1>7. QED
  BY <1>2, <1>3, <1>4, <1>5, <1>6 DEF Good, Live, Steady

\* A response has succeeded (OnSolSendSuccess of the states that wait for one).
LEMMA OnSolSendSuccessGood ==
  ASSUME NEW x, NEW u \in Nat, NEW q \in Nat, NEW d, SolEnded(x, u, q, d), SolSucceeded(x, d)
  PROVE  LET y == OnSolSendSuccess(x) IN
         /\ Good(y, u, q, d) /\ y.heard = x.heard
         /\ y.error = "none" => Settled(y)
<1> DEFINE c == ClearWritten(x)
           z == CASE x.state = "WaitForRspSuccess" ->
                       IF IsComplete(c) THEN [c EXCEPT !.state = "Idle"] ELSE SendFragment(c)
                  [] x.state = "WaitForSolUnsolSuccess" -> [x EXCEPT !.state = "WaitForUnsolSuccess"]
                  [] OTHER -> Fail(x, "state")
<1>1. OnSolSendSuccess(x) = FlushDeferredEvents(z)
  BY DEF OnSolSendSuccess
<1>2. Kept(x, u, q, d) /\ Typed(x) /\ Accounted(x, u)
  BY DEF SolEnded, Kept
<1>3. /\ Typed(c) /\ Accounted(c, u) /\ SameBut(x, c, ClearFields)
      /\ c.selected = <<>> /\ c.written = 0 /\ c.erased = x.erased \cup Written(x)
      /\ Unreported(c) \subseteq Unreported(x)
  BY <1>2, ClearWrittenFacts
<1> HIDE DEF c
<1>4. Good(z, u, q, d) /\ z.heard = x.heard
  <2>1. CASE x.state = "WaitForSolUnsolSuccess"
    <3> DEFINE v == [x EXCEPT !.state = "WaitForUnsolSuccess"]
    <3>1. z = v
      BY <2>1
    <3>2. Good(v, u, q, d) /\ SameBut(x, v, {"state"})
      BY <2>1, SolUnsolEnds
    <3> HIDE DEF v, z
    <3>3. v.heard = x.heard
      BY <3>2 DEF SameBut, Fields
    <3>4. QED
      BY <3>1, <3>2, <3>3
  <2>2. CASE x.state = "WaitForRspSuccess" /\ IsComplete(c)
    <3> DEFINE v == [c EXCEPT !.state = "Idle"]
    <3>1. z = v
      BY <2>2
    <3>2. c \in Outstation
      BY <1>3 DEF Typed
    <3>3. v \in Outstation /\ SameBut(c, v, {"state"}) /\ v.state = "Idle"
      BY <3>2 DEF Outstation, SameBut, Fields, States
    <3> HIDE DEF v, z
    <3>4. /\ v.selected = c.selected /\ v.changes = c.changes /\ v.events = c.events
          /\ v.erased = c.erased /\ v.written = c.written /\ v.request = c.request
          /\ v.confirmed = x.confirmed /\ v.heard = x.heard
      BY <1>3, <3>3 DEF SameBut, Fields, ClearFields
    <3>5. Typed(v) /\ Accounted(v, u) /\ Unreported(v) = Unreported(c)
      BY <1>3, <3>3, <3>4 DEF Typed, Accounted, Unreported
    <3>6. SameBut(x, v, EndFields)
      BY <1>3, <3>3 DEF SameBut, Fields, ClearFields, EndFields, ResetFields
    <3>7. d = 0 => v.erased \subseteq v.confirmed
      BY <1>2, <1>3, <2>2, <3>4 DEF Kept, SolSucceeded
    <3>8. Good(v, u, q, d)
      BY <1>3, <2>2, <3>3, <3>4, <3>5, <3>6, <3>7, RspEnds
    <3>9. QED
      BY <3>1, <3>4, <3>8
  <2>3. CASE x.state = "WaitForRspSuccess" /\ ~IsComplete(c)
    <3>1. z = SendFragment(c)
      BY <2>3
    <3> HIDE DEF z
    <3>2. /\ c.executed = x.executed /\ c.request = x.request /\ c.error = x.error
          /\ c.deferredRequest = x.deferredRequest /\ c.static = x.static
          /\ c.confirmed = x.confirmed /\ c.state = x.state /\ c.sol = x.sol /\ c.uns = x.uns
          /\ c.deferredUnknown = x.deferredUnknown /\ c.heard = x.heard
          /\ c.answered = x.answered /\ c.timer = x.timer /\ c.armed = x.armed
          /\ c.nullUnsol = x.nullUnsol /\ c.mask = x.mask /\ c.deferredUnsol = x.deferredUnsol
      BY <1>3 DEF SameBut, Fields, ClearFields
    <3>3. Kept(c, u, q, d)
      BY <1>2, <1>3, <2>3, <3>2 DEF Kept, ExecutedOnce, SolSucceeded
    <3>4. Ends(c, d)
      BY <3>2 DEF SolEnded, Ends
    <3>5. ~c.deferredRequest
      BY <1>3, <2>3, <3>2 DEF SolSucceeded, IsComplete
    <3>6. Written(c) = {}
      BY <1>3, WrittenNone
    <3>7. d = 0 => c.heard # 0
      BY <3>2 DEF SolEnded, Answered
    <3>8. d = 0 => Timed(c) /\ Triggered(c)
      BY <1>3, <3>2 DEF SolEnded, Timed, Triggered
    <3>9. Ready(c, d, c.fir)
      BY <2>3, <3>2, <3>5, <3>6, <3>7, <3>8 DEF SolEnded, Ready, Answered, Reports
    <3>10. Good(z, u, q, d) /\ SameBut(c, z, SendFields)
      BY <1>3, <2>3, <3>1, <3>2, <3>3, <3>4, <3>9, SendFragmentGood
    <3>11. z.heard = x.heard
      BY <3>2, <3>10 DEF SameBut, Fields, SendFields
    <3>12. QED
      BY <3>10, <3>11
  <2>4. QED
    BY <2>1, <2>2, <2>3 DEF SolEnded, WaitsForResponse
<1> HIDE DEF z
<1>5. QED
  BY <1>1, <1>4, FlushDeferredEventsGood DEF Flushed

\* A response has failed (OnSolFailure of the states that wait for one).
LEMMA OnSolFailureGood ==
  ASSUME NEW x, NEW u \in Nat, NEW q \in Nat, NEW d, SolEnded(x, u, q, d)
  PROVE  LET y == OnSolFailure(x) IN
         /\ Good(y, u, q, d) /\ y.heard = x.heard
         /\ y.error = "none" => Settled(y)
         /\ ~x.deferredRequest =>
              /\ ~y.deferredRequest
              /\ y.error = "none" => y.state \in {"Idle", "WaitForUnsolSuccess"}
<1> DEFINE w == [x EXCEPT !.state = "Idle"]
           c == Reset(w)
           v == [x EXCEPT !.state = "WaitForUnsolSuccess"]
           z == CASE x.state = "WaitForRspSuccess" -> c
                  [] x.state = "WaitForSolUnsolSuccess" -> v
                  [] OTHER -> Fail(x, "state")
<1>1. OnSolFailure(x) = FlushDeferredEvents(z)
  BY DEF OnSolFailure
<1>2. Kept(x, u, q, d) /\ Typed(x) /\ Accounted(x, u) /\ x \in Outstation
  BY DEF SolEnded, Kept, Typed
<1>3. /\ Good(z, u, q, d) /\ z.heard = x.heard /\ z.deferredRequest = x.deferredRequest
      /\ z.state \in {"Idle", "WaitForUnsolSuccess"}
  <2>1. CASE x.state = "WaitForSolUnsolSuccess"
    <3>1. z = v
      BY <2>1
    <3>2. Good(v, u, q, d) /\ SameBut(x, v, {"state"}) /\ v.state = "WaitForUnsolSuccess"
      BY <2>1, SolUnsolEnds
    <3> HIDE DEF v, z
    <3>3. v.heard = x.heard /\ v.deferredRequest = x.deferredRequest
      BY <3>2 DEF SameBut, Fields
    <3>4. QED
      BY <3>1, <3>2, <3>3
  <2>2. CASE x.state = "WaitForRspSuccess"
    <3>1. z = c
      BY <2>2
    <3>2. w \in Outstation /\ SameBut(x, w, {"state"}) /\ w.state = "Idle"
      BY <1>2 DEF Outstation, SameBut, Fields, States
    <3> HIDE DEF w, z
    <3>3. /\ w.selected = x.selected /\ w.changes = x.changes /\ w.events = x.events
          /\ w.erased = x.erased /\ w.written = x.written /\ w.request = x.request
      BY <3>2 DEF SameBut, Fields
    <3>4. Typed(w) /\ Accounted(w, u) /\ Unreported(w) = Unreported(x)
      BY <1>2, <3>2, <3>3 DEF Typed, Accounted, Unreported
    <3>5. /\ Typed(c) /\ Accounted(c, u) /\ SameBut(w, c, ResetFields)
          /\ c.selected = <<>> /\ Unreported(c) = Unreported(w)
      BY <3>4, ResetFacts
    <3> HIDE DEF c
    <3>6. /\ SameBut(x, c, EndFields) /\ c.state = "Idle" /\ c.heard = x.heard
          /\ c.deferredRequest = x.deferredRequest /\ c.erased = x.erased
          /\ c.confirmed = x.confirmed
      BY <3>2, <3>5 DEF SameBut, Fields, ClearFields, EndFields, ResetFields
    <3>7. d = 0 => c.erased \subseteq c.confirmed
      BY <1>2, <3>6 DEF Kept
    <3>8. Good(c, u, q, d)
      BY <2>2, <3>4, <3>5, <3>6, <3>7, RspEnds
    <3>9. QED
      BY <3>1, <3>6, <3>8
  <2>3. QED
    BY <2>1, <2>2 DEF SolEnded, WaitsForResponse
<1> HIDE DEF z
<1>4. QED
  BY <1>1, <1>3, FlushDeferredEventsGood DEF Flushed

\* The unsolicited response of the state has ended, and its channel is idle (UnsolicitedChannel).
UnsolEnded(x, u, q, d) ==
  /\ Kept(x, u, q, d) /\ x.error = "none"
  /\ x.uns = "Idle" /\ x.state \in WaitsForUnsol
  /\ Solicits(x) /\ Postponed(x) /\ Current(x, d) /\ Answered(x, d)
  /\ d = 0 => Timed(x)

\* ... and was confirmed
UnsolSucceeded(x, d) == d = 0 => Written(x) \subseteq x.confirmed

\* The state that follows the one that waits for the outcome of an unsolicited response
AfterUnsol(x) == IF x.state = "WaitForUnsolSuccess" THEN "Idle" ELSE "WaitForRspSuccess"

UnsolEndFields ==
  {"state", "nullUnsol", "deferredUnsol", "timer", "armed", "error"} \cup ResetFields \cup ClearFields

\* Either outcome leaves nothing selected, and something that will look at what was returned
\* (AS_WaitForUnsolSuccess, AS_WaitForSolUnsolSuccess).
LEMMA UnsolEnds ==
  ASSUME NEW x, NEW y, NEW u, NEW q, NEW d, UnsolEnded(x, u, q, d),
         Typed(y), Accounted(y, u), SameBut(x, y, UnsolEndFields), y.state = AfterUnsol(x),
         y.selected = <<>>, y.static = 0, d = 0 => y.erased \subseteq y.confirmed,
         y.error \in {"none", "timer"},
         y.error = "none" => y.deferredUnsol \/ y.armed > 0,
         y.error = "none" /\ d = 0 => (y.timer => y.armed > 0)
  PROVE  Good(y, u, q, d)
<1>1. /\ y.request = x.request /\ y.executed = x.executed
      /\ y.deferredRequest = x.deferredRequest /\ y.sol = x.sol /\ y.uns = x.uns
      /\ y.deferredUnknown = x.deferredUnknown /\ y.heard = x.heard
      /\ y.answered = x.answered
  BY DEF SameBut, Fields, UnsolEndFields, ResetFields, ClearFields
<1>2. Kept(y, u, q, d)
  BY <1>1 DEF UnsolEnded, Kept, ExecutedOnce
<1>3. Ends(y, d)
  BY DEF Ends
<1>4. \/ x.state = "WaitForUnsolSuccess" /\ y.state = "Idle"
      \/ x.state = "WaitForSolUnsolSuccess" /\ y.state = "WaitForRspSuccess"
  BY DEF UnsolEnded, WaitsForUnsol, AfterUnsol
<1>5. Solicits(y) /\ Reports(y) /\ Postponed(y) /\ Current(y, d) /\ Answered(y, d)
  BY <1>1, <1>4 DEF UnsolEnded, Solicits, Reports, Postponed, Current, Answered,
     WaitsForResponse, WaitsForUnsol, AwaitsConfirm
<1>6. Covered(y)
  BY <1>4, WrittenNone DEF Covered, WaitsForUnsol
<1>7. y.error = "none" => Triggered(y)
  BY DEF Triggered
<1>8. y.error = "none" /\ d = 0 => Timed(y)
  BY <1>4 DEF Timed
<1>9. QED
  BY <1>2, <1>3, <1>5, <1>6, <1>7, <1>8 DEF Good, Live, Steady

\* What was confirmed is erased, and what is left is looked at again (AS_Base::DoUnsolSuccess).
LEMMA OnUnsolSendSuccessGood ==
  ASSUME NEW x, NEW u \in Nat, NEW q \in Nat, NEW d, UnsolEnded(x, u, q, d),
         UnsolSucceeded(x, d)
  PROVE  LET y == OnUnsolSendSuccess(x) IN
         /\ Good(y, u, q, d) /\ y.heard = x.heard
         /\ y.error = "none" => Settled(y)
<1> DEFINE next == AfterUnsol(x)
           w == [x EXCEPT !.state = next]
           v == [w EXCEPT !.nullUnsol = TRUE, !.deferredUnsol = TRUE]
           c == ClearWritten(v)
           z == Reset(c)
<1>1. OnUnsolSendSuccess(x) = FlushDeferredEvents(z)
  BY DEF OnUnsolSendSuccess, AfterUnsol, DoUnsolSuccess, UnsolEnded, WaitsForUnsol
<1>2. Kept(x, u, q, d) /\ Typed(x) /\ Accounted(x, u) /\ x \in Outstation /\ x.error = "none"
  BY DEF UnsolEnded, Kept, Typed
<1>3. next \in States
  BY DEF AfterUnsol, States
<1> HIDE DEF next
<1>4. w \in Outstation /\ SameBut(x, w, {"state"}) /\ w.state = next
  BY <1>2, <1>3 DEF Outstation, SameBut, Fields
<1> HIDE DEF w
<1>5. /\ v \in Outstation /\ SameBut(w, v, {"nullUnsol", "deferredUnsol"})
      /\ v.deferredUnsol = TRUE
  BY <1>4 DEF Outstation, SameBut, Fields
<1> HIDE DEF v
<1>6. /\ v.selected = x.selected /\ v.changes = x.changes /\ v.events = x.events
      /\ v.erased = x.erased /\ v.written = x.written /\ v.request = x.request
  BY <1>4, <1>5 DEF SameBut, Fields
<1>7. Typed(v) /\ Accounted(v, u) /\ Written(v) = Written(x)
  BY <1>2, <1>5, <1>6 DEF Typed, Accounted, Written
<1>8. /\ Typed(c) /\ Accounted(c, u) /\ SameBut(v, c, ClearFields)
      /\ c.erased = v.erased \cup Written(v)
  BY <1>7, ClearWrittenFacts
<1> HIDE DEF c
<1>9. /\ Typed(z) /\ Accounted(z, u) /\ SameBut(c, z, ResetFields)
      /\ z.selected = <<>> /\ z.static = 0
  BY <1>8, ResetFacts
<1> HIDE DEF z
<1>10. /\ SameBut(x, z, UnsolEndFields) /\ z.state = next /\ z.deferredUnsol = TRUE
       /\ z.erased = x.erased \cup Written(x) /\ z.confirmed = x.confirmed
       /\ z.error = x.error /\ z.timer = x.timer /\ z.armed = x.armed /\ z.heard = x.heard
  BY <1>4, <1>5, <1>6, <1>7, <1>8, <1>9
     DEF SameBut, Fields, UnsolEndFields, ResetFields, ClearFields
<1>11. d = 0 => z.erased \subseteq z.confirmed
  BY <1>2, <1>10 DEF Kept, UnsolSucceeded
<1>12. d = 0 => (z.timer => z.armed > 0)
  BY <1>10 DEF UnsolEnded, Timed
<1>13. Good(z, u, q, d)
  BY <1>2, <1>9, <1>10, <1>11, <1>12, UnsolEnds DEF next
<1>14. QED
  BY <1>1, <1>10, <1>13, FlushDeferredEventsGood DEF Flushed

\* What was not confirmed is returned, and sent again when the timer expires, or as soon as the
\* response of AS_WaitForRspSuccess has ended (AS_Base::OnUnsolFailure).
LEMMA OnUnsolFailureGood ==
  ASSUME NEW x, NEW u \in Nat, NEW q \in Nat, NEW d, UnsolEnded(x, u, q, d)
  PROVE  LET y == OnUnsolFailure(x) IN
         /\ Good(y, u, q, d) /\ y.heard = x.heard
         /\ y.error = "none" => Settled(y)
<1> DEFINE next == AfterUnsol(x)
           w == [x EXCEPT !.state = next]
           c == Reset(w)
           t == StartUnsolTimer(c)
           n == [c EXCEPT !.timer = FALSE, !.deferredUnsol = TRUE]
<1>1. \/ OnUnsolFailure(x) = FlushDeferredEvents(t)
      \/ OnUnsolFailure(x) = FlushDeferredEvents(n)
  BY DEF OnUnsolFailure, AfterUnsol, UnsolEnded, WaitsForUnsol
<1>2. Kept(x, u, q, d) /\ Typed(x) /\ Accounted(x, u) /\ x \in Outstation /\ x.error = "none"
  BY DEF UnsolEnded, Kept, Typed
<1>3. next \in States
  BY DEF AfterUnsol, States
<1> HIDE DEF next
<1>4. w \in Outstation /\ SameBut(x, w, {"state"}) /\ w.state = next
  BY <1>2, <1>3 DEF Outstation, SameBut, Fields
<1> HIDE DEF w
<1>5. /\ w.selected = x.selected /\ w.changes = x.changes /\ w.events = x.events
      /\ w.erased = x.erased /\ w.written = x.written /\ w.request = x.request
  BY <1>4 DEF SameBut, Fields
<1>6. Typed(w) /\ Accounted(w, u)
  BY <1>2, <1>4, <1>5 DEF Typed, Accounted
<1>7. /\ Typed(c) /\ Accounted(c, u) /\ SameBut(w, c, ResetFields)
      /\ c.selected = <<>> /\ c.static = 0
  BY <1>6, ResetFacts
<1> HIDE DEF c
<1>8. /\ SameBut(x, c, UnsolEndFields) /\ c.state = next /\ c.erased = x.erased
      /\ c.confirmed = x.confirmed /\ c.error = "none" /\ c.timer = x.timer
      /\ c.armed = x.armed /\ c.heard = x.heard
  BY <1>2, <1>4, <1>7 DEF SameBut, Fields, UnsolEndFields, ResetFields, ClearFields
<1>9. d = 0 => c.erased \subseteq c.confirmed
  BY <1>2, <1>8 DEF Kept
<1>10. Good(t, u, q, d) /\ t.heard = x.heard
  <2>1. /\ Typed(t) /\ Accounted(t, u) /\ SameBut(c, t, TimerFields)
        /\ t.error = IF c.timer THEN "timer" ELSE "none"
        /\ ~c.timer => t.armed > 0
    BY <1>7, <1>8, StartUnsolTimerFacts
  <2> HIDE DEF t
  <2>2. /\ SameBut(x, t, UnsolEndFields) /\ t.state = next /\ t.erased = c.erased
        /\ t.confirmed = c.confirmed /\ t.selected = <<>> /\ t.static = 0
        /\ t.heard = x.heard
    BY <1>7, <1>8, <2>1
       DEF SameBut, Fields, UnsolEndFields, ResetFields, ClearFields, TimerFields
  <2>3. t.error \in {"none", "timer"} /\ (t.error = "none" => t.armed > 0)
    BY <2>1
  <2>4. QED
    BY <1>9, <2>1, <2>2, <2>3, UnsolEnds DEF next
<1>11. Good(n, u, q, d) /\ n.heard = x.heard
  <2>1. c \in Outstation
    BY <1>7 DEF Typed
  <2>2. /\ n \in Outstation /\ SameBut(c, n, {"timer", "deferredUnsol"})
        /\ n.timer = FALSE /\ n.deferredUnsol = TRUE
    BY <2>1 DEF Outstation, SameBut, Fields
  <2> HIDE DEF n
  <2>3. /\ SameBut(x, n, UnsolEndFields) /\ n.state = next /\ n.erased = c.erased
        /\ n.confirmed = c.confirmed /\ n.selected = <<>> /\ n.static = 0
        /\ n.heard = x.heard /\ n.error = "none"
    BY <1>7, <1>8, <2>2 DEF SameBut, Fields, UnsolEndFields, ResetFields, ClearFields
  <2>4. /\ n.selected = c.selected /\ n.changes = c.changes /\ n.events = c.events
        /\ n.erased = c.erased /\ n.written = c.written /\ n.request = c.request
    BY <2>2 DEF SameBut, Fields
  <2>5. Typed(n) /\ Accounted(n, u)
    BY <1>7, <2>2, <2>4 DEF Typed, Accounted
  <2>6. QED
    BY <1>9, <2>2, <2>3, <2>5, UnsolEnds DEF next
<1> HIDE DEF t, n
<1>12. QED
  BY <1>1, <1>10, <1>11, FlushDeferredEventsGood DEF Flushed

---------------------------------------------------------------------------
(* Requests, updates and timers *)

\* A further request, or none, has been received.
LEMMA MoreRequests ==
  ASSUME NEW x, NEW u, NEW q \in Nat, NEW p \in {q, q + 1}, NEW d, Kept(x, u, q, d)
  PROVE  Kept(x, u, p, d)
<1>1. \A n \in 1 .. q : n \in 1 .. p
  OBVIOUS
<1> DEFINE Q == 1 .. q
           R == 1 .. p
<1>2. Q \subseteq R
  BY <1>1
<1>3. /\ ToSet(x.executed) \subseteq Q
      /\ x.deferredRequest /\ ~x.request.prev => x.request.id \in Q \ ToSet(x.executed)
  BY DEF Kept, ExecutedOnce
<1> HIDE DEF Q, R
<1>4. /\ ToSet(x.executed) \subseteq R
      /\ x.deferredRequest /\ ~x.request.prev => x.request.id \in R \ ToSet(x.executed)
  BY <1>2, <1>3
<1>5. QED
  BY <1>4 DEF Kept, ExecutedOnce, R

\* Without a deferred request none is overtaken.
LEMMA AheadIsGood ==
  ASSUME NEW x, NEW u, NEW q, NEW d, Ahead(x, u, q, d), ~x.deferredRequest
  PROVE  Good(x, u, q, d)
BY DEF Good, Live, Steady, Ahead, Current

\* A request that was received in state x: the first of them with number p, or a repetition
\* when there have been p (AppLayer::OnRequest).
Received(x, r, q, p) ==
  /\ r \in Request
  /\ \/ r.prev /\ p = q
     \/ r.id = p /\ p = q + 1
  /\ x.error = "none" => r.id = x.heard /\ x.heard # 0

\* What is noted of an overwritten request is of no concern to the outstation.
LEMMA OverwriteAhead ==
  ASSUME NEW x, NEW r \in Request, NEW u, NEW q, NEW d, Ahead(x, u, q, d)
  PROVE  LET o == Overwrite(x, r) IN Ahead(o, u, q, d) /\ SameBut(x, o, {"overwritten"})
<1> DEFINE e == IF /\ r.fc = "WRITE" /\ r.prev
                   /\ x.deferredRequest /\ ~x.request.prev /\ x.request.id = r.id
                THEN x.overwritten \cup {r.id} ELSE x.overwritten
           o == [x EXCEPT !.overwritten = e]
<1>1. Overwrite(x, r) = o
  BY DEF Overwrite
<1>2. x \in Outstation /\ Kept(x, u, q, d) /\ Typed(x) /\ Accounted(x, u)
  BY DEF Ahead, Kept, Typed
<1>3. e \in SUBSET Nat
  BY <1>2 DEF Outstation, Request
<1> HIDE DEF e
<1>4. o \in Outstation
  BY <1>2, <1>3 DEF Outstation
<1>5. SameBut(x, o, {"overwritten"})
  BY <1>2 DEF Outstation, SameBut, Fields
<1> HIDE DEF o
<1>6. Typed(o) /\ Accounted(o, u)
  BY <1>2, <1>4, <1>5 DEF Typed, Accounted, SameBut, Fields
<1>7. Kept(o, u, q, d)
  <2>1. /\ o.executed = x.executed /\ o.request = x.request
        /\ o.deferredRequest = x.deferredRequest
        /\ o.erased = x.erased /\ o.confirmed = x.confirmed
    BY <1>5 DEF SameBut, Fields
  <2>2. QED
    BY <1>2, <1>6, <2>1, KeptFrame
<1>8. Ends(o, d)
  BY <1>5 DEF Ahead, Ends, SameBut, Fields
<1>9. ASSUME o.error = "none"
      PROVE  /\ Solicits(o) /\ Reports(o) /\ Postponed(o) /\ Answered(o, d)
             /\ d = 0 => Covered(o) /\ Timed(o) /\ Triggered(o)
  <2>1. /\ Solicits(x) /\ Reports(x) /\ Postponed(x) /\ Answered(x, d)
        /\ d = 0 => Covered(x) /\ Timed(x) /\ Triggered(x)
    BY <1>5, <1>9 DEF Ahead, SameBut, Fields
  <2>2. Solicits(o) /\ Reports(o) /\ Postponed(o) /\ Answered(o, d)
    BY <1>5, <2>1 DEF Solicits, Reports, Postponed, Answered, SameBut, Fields
  <2>3. d = 0 => Covered(o) /\ Timed(o) /\ Triggered(o)
    BY <1>5, <2>1 DEF Covered, Timed, Triggered, Written, Unreported, SameBut, Fields
  <2>4. QED
    BY <2>2, <2>3
<1>10. QED
  BY <1>1, <1>5, <1>7, <1>8, <1>9 DEF Ahead

\* A request is deferred where no confirmation and no further fragment is waited for.
LEMMA DeferGood ==
  ASSUME NEW x, NEW r, NEW u, NEW q \in Nat, NEW p \in {q, q + 1}, NEW d,
         Ahead(x, u, q, d), Received(x, r, q, p),
         r.fc # "UNKNOWN",
         x.error = "none" =>
           /\ x.sol \notin AwaitsConfirm
           /\ x.state = "WaitForRspSuccess" => x.static = 0 \/ x.sol = "SendCanceled"
  PROVE  LET y == Defer(x, r) IN
         Good(y, u, p, d) /\ SameBut(x, y, {"request", "deferredRequest", "overwritten"})
<1> DEFINE o == Overwrite(x, r)
           y == [o EXCEPT !.request = r, !.deferredRequest = TRUE]
<1>1. Defer(x, r) = y
  BY DEF Defer
<1>2. x \in Outstation /\ Kept(x, u, q, d) /\ Typed(x) /\ Accounted(x, u)
  BY DEF Ahead, Kept, Typed
<1>3. r \in Request
  BY DEF Received
<1>13. o \in Outstation /\ SameBut(x, o, {"overwritten"})
  BY <1>3, OverwriteAhead DEF Ahead, Kept, Typed
<1> HIDE DEF o
<1>4. y \in Outstation
  BY <1>13, <1>3 DEF Outstation
<1>14. /\ SameBut(o, y, {"request", "deferredRequest"})
       /\ y.request = r /\ y.deferredRequest = TRUE
  BY <1>13 DEF Outstation, SameBut, Fields
<1>5. /\ SameBut(x, y, {"request", "deferredRequest", "overwritten"})
      /\ y.request = r /\ y.deferredRequest = TRUE
  BY <1>13, <1>14 DEF SameBut, Fields
<1> HIDE DEF y
<1>6. /\ y.selected = x.selected /\ y.changes = x.changes /\ y.events = x.events
      /\ y.erased = x.erased /\ y.written = x.written /\ y.error = x.error
      /\ y.executed = x.executed /\ y.confirmed = x.confirmed
  BY <1>5 DEF SameBut, Fields
<1>7. Typed(y) /\ Accounted(y, u)
  BY <1>2, <1>4, <1>5, <1>6 DEF Typed, Accounted
<1>8. r.prev \/ r.id \in (1 .. p) \ ToSet(x.executed)
  <2>1. ToSet(x.executed) \subseteq 1 .. q
    BY <1>2 DEF Kept, ExecutedOnce
  <2>2. q + 1 \in 1 .. q + 1 /\ q + 1 \notin 1 .. q
    OBVIOUS
  <2>3. r.prev \/ (r.id = p /\ p = q + 1)
    BY DEF Received
  <2>4. QED
    BY <2>1, <2>2, <2>3
<1>9. Kept(y, u, p, d)
  <2>1. Kept(x, u, p, d)
    BY <1>2, MoreRequests
  <2>2. QED
    BY <1>5, <1>6, <1>7, <1>8, <2>1 DEF Kept, ExecutedOnce
<1>10. Ends(y, d)
  BY <1>6 DEF Ahead, Ends
<1>11. ASSUME y.error = "none"
       PROVE  Live(y, d)
  <2>1. /\ Solicits(x) /\ Reports(x) /\ Postponed(x) /\ Answered(x, d)
        /\ d = 0 => Covered(x) /\ Timed(x) /\ Triggered(x)
    BY <1>6, <1>11 DEF Ahead
  <2>2. r.id = x.heard /\ x.heard # 0 /\ x.error = "none"
    BY <1>6, <1>11 DEF Received
  <2>3. Solicits(y) /\ Reports(y) /\ Postponed(y) /\ Answered(y, d) /\ Current(y, d)
    BY <1>5, <2>1, <2>2 DEF Solicits, Reports, Postponed, Answered, Current, SameBut, Fields,
       AwaitsConfirm
  <2>4. d = 0 => Covered(y) /\ Timed(y) /\ Triggered(y)
    BY <1>5, <2>1 DEF Covered, Timed, Triggered, Written, Unreported, SameBut, Fields
  <2>5. QED
    BY <2>3, <2>4 DEF Live, Steady
<1>12. QED
  BY <1>1, <1>5, <1>9, <1>10, <1>11 DEF Good

\* A response that is cancelled lets the request wait for it, or has failed already
\* (AS_WaitForRspSuccess::OnRequest, AppLayerChannel::Cancel).
LEMMA CancelResponseAhead ==
  ASSUME NEW x, NEW u \in Nat, NEW q \in Nat, NEW d, Ahead(x, u, q, d), x.error = "none",
         x.state = "WaitForRspSuccess", x.heard # 0
  PROVE  LET y == CancelResponse(x) IN
         /\ Ahead(y, u, q, d) /\ y.heard = x.heard
         /\ y.error = "none" =>
              /\ y.sol \notin AwaitsConfirm
              /\ y.state = "WaitForRspSuccess" => y.sol = "SendCanceled"
<1>1. /\ x \in Outstation /\ Kept(x, u, q, d) /\ Typed(x) /\ Accounted(x, u)
      /\ Solicits(x) /\ Reports(x) /\ Postponed(x) /\ Answered(x, d)
      /\ d = 0 => Covered(x) /\ Timed(x) /\ Triggered(x)
  BY DEF Ahead, Kept, Typed
<1>2. CASE x.sol = "WaitForConfirm"
  <2> DEFINE w == [x EXCEPT !.sol = "Idle", !.solEvents = {}]
             y == OnSolFailure(w)
  <2>1. CancelResponse(x) = y
    BY <1>2 DEF CancelResponse
  <2>2. w \in Outstation /\ SameBut(x, w, {"sol", "solEvents"}) /\ w.sol = "Idle"
    BY <1>1 DEF Outstation, SameBut, Fields
  <2> HIDE DEF w
  <2>3. /\ w.selected = x.selected /\ w.changes = x.changes /\ w.events = x.events
        /\ w.erased = x.erased /\ w.written = x.written /\ w.request = x.request
        /\ w.executed = x.executed /\ w.confirmed = x.confirmed /\ w.error = x.error
        /\ w.deferredRequest = x.deferredRequest /\ w.state = x.state /\ w.heard = x.heard
    BY <2>2 DEF SameBut, Fields
  <2>4. Typed(w) /\ Accounted(w, u)
    BY <1>1, <2>2, <2>3 DEF Typed, Accounted
  <2>5. Kept(w, u, q, d)
    BY <1>1, <2>3, <2>4, KeptFrame
  <2>6. ~w.deferredRequest
    BY <1>1, <1>2, <2>3 DEF Postponed, AwaitsConfirm
  <2>7. SolEnded(w, u, q, d)
    BY <1>1, <2>2, <2>3, <2>5, <2>6 DEF SolEnded, Reports, Current, Answered, Timed, Triggered,
       Unreported, SameBut, Fields, WaitsForResponse, WaitsForUnsol
  <2>8. /\ Good(y, u, q, d) /\ y.heard = w.heard
        /\ ~y.deferredRequest
        /\ y.error = "none" => y.state \in {"Idle", "WaitForUnsolSuccess"}
    BY <2>6, <2>7, OnSolFailureGood
  <2> HIDE DEF y
  <2>9. y.error = "none" => y.sol = "Idle"
    BY <2>8 DEF Good, Live, Steady, Solicits, WaitsForResponse
  <2>10. QED
    BY <2>1, <2>3, <2>8, <2>9, GoodIsAhead DEF AwaitsConfirm
<1>3. CASE x.sol # "WaitForConfirm"
  <2> DEFINE y == [x EXCEPT !.sol = "SendCanceled"]
  <2>1. CancelResponse(x) = y
    BY <1>3 DEF CancelResponse
  <2>2. y \in Outstation /\ SameBut(x, y, {"sol"}) /\ y.sol = "SendCanceled"
    BY <1>1 DEF Outstation, SameBut, Fields
  <2> HIDE DEF y
  <2>3. /\ y.selected = x.selected /\ y.changes = x.changes /\ y.events = x.events
        /\ y.erased = x.erased /\ y.written = x.written /\ y.request = x.request
        /\ y.executed = x.executed /\ y.confirmed = x.confirmed /\ y.error = x.error
        /\ y.deferredRequest = x.deferredRequest /\ y.state = x.state /\ y.heard = x.heard
    BY <2>2 DEF SameBut, Fields
  <2>4. Typed(y) /\ Accounted(y, u)
    BY <1>1, <2>2, <2>3 DEF Typed, Accounted
  <2>5. Kept(y, u, q, d)
    BY <1>1, <2>3, <2>4, KeptFrame
  <2>6. Ends(y, d)
    BY <2>3 DEF Ahead, Ends
  <2>7. Solicits(y) /\ Reports(y) /\ Postponed(y) /\ Answered(y, d)
    BY <1>1, <2>2, <2>3 DEF Solicits, Reports, Postponed, Answered, SameBut, Fields,
       AwaitsConfirm, WaitsForResponse
  <2>8. d = 0 => Covered(y) /\ Timed(y) /\ Triggered(y)
    BY <1>1, <2>2 DEF Covered, Timed, Triggered, Written, Unreported, SameBut, Fields
  <2>9. QED
    BY <2>1, <2>2, <2>3, <2>5, <2>6, <2>7, <2>8 DEF Ahead, AwaitsConfirm
<1>4. QED
  BY <1>2, <1>3

\* ... which changes nothing else
LEMMA MoreRequestsAhead ==
  ASSUME NEW x, NEW u, NEW q \in Nat, NEW p \in {q, q + 1}, NEW d, Ahead(x, u, q, d)
  PROVE  Ahead(x, u, p, d)
BY MoreRequests DEF Ahead

\* A received request is the one heard last and has not been executed.
LEMMA ReceivedIsHandled ==
  ASSUME NEW x, NEW r, NEW u, NEW q \in Nat, NEW p \in {q, q + 1}, NEW d,
         Kept(x, u, q, d), Received(x, r, q, p),
         r.fc # "UNKNOWN", x.error = "none",
         NEW y, y.executed = x.executed, y.heard = x.heard
  PROVE  Handled(y, r, p, d)
<1>1. ToSet(x.executed) \subseteq 1 .. q
  BY DEF Kept, ExecutedOnce
<1>2. q + 1 \in 1 .. q + 1 /\ q + 1 \notin 1 .. q
  OBVIOUS
<1>3. QED
  BY <1>1, <1>2 DEF Received, Handled

\* A request in every state of an outstation that is open (OnRequest of the states).
LEMMA OnRequestGood ==
  ASSUME NEW x, NEW r, NEW u \in Nat, NEW q \in Nat, NEW p \in {q, q + 1}, NEW d,
         Ahead(x, u, q, d), Received(x, r, q, p),
         r.fc # "UNKNOWN", x.error = "none", Settled(x), x.state # "Closed"
  PROVE  LET y == OnRequest(x, r) IN
         /\ Good(y, u, p, d) /\ y.heard = x.heard
         /\ y.error = "none" => Settled(y)
<1> DEFINE z == CASE x.state = "Idle" -> IdleOnRequest(x, r)
                  [] x.state = "WaitForRspSuccess" -> Defer(CancelResponse(x), r)
                  [] x.state = "WaitForUnsolSuccess" -> RequestWhileUnsol(x, r)
                  [] x.state = "WaitForSolUnsolSuccess" -> Defer(x, r)
                  [] OTHER -> Fail(x, "state")
<1>1. OnRequest(x, r) = FlushDeferredEvents(z)
  BY DEF OnRequest
<1>2. /\ x \in Outstation /\ Kept(x, u, q, d)
      /\ Solicits(x) /\ Reports(x) /\ Postponed(x)
      /\ r.id = x.heard /\ x.heard # 0
  BY DEF Ahead, Kept, Typed, Received
<1>3. Good(z, u, p, d) /\ z.heard = x.heard
  <2>1. CASE x.state = "Idle"
    <3> DEFINE y == DoRequest(x, "WaitForRspSuccess", r)
    <3>1. z = y
      BY <2>1 DEF IdleOnRequest
    <3>2. ~x.deferredRequest
      BY <2>1 DEF Settled
    <3>3. Good(x, u, p, d)
      BY <3>2, MoreRequestsAhead, AheadIsGood
    <3>4. Handled(x, r, p, d)
      BY <1>2, ReceivedIsHandled
    <3>5. Follows(x, r, "WaitForRspSuccess")
      BY <2>1 DEF Follows
    <3>6. Good(y, u, p, d) /\ SameBut(x, y, RequestFields)
      BY <3>2, <3>3, <3>4, <3>5, DoRequestGood
    <3> HIDE DEF y, z
    <3>7. y.heard = x.heard
      BY <3>6 DEF SameBut, Fields, RequestFields, AnswerFields, SendFields, ResetFields
    <3>8. QED
      BY <3>1, <3>6, <3>7
  <2>2. CASE x.state = "WaitForRspSuccess"
    <3> DEFINE c == CancelResponse(x)
               y == Defer(c, r)
    <3>1. z = y
      BY <2>2
    <3>2. /\ Ahead(c, u, q, d) /\ c.heard = x.heard
          /\ c.error = "none" =>
               /\ c.sol \notin AwaitsConfirm
               /\ c.state = "WaitForRspSuccess" => c.sol = "SendCanceled"
      BY <1>2, <2>2, CancelResponseAhead
    <3> HIDE DEF c
    <3>3. Received(c, r, q, p)
      BY <3>2 DEF Received
    <3>4. Good(y, u, p, d) /\ SameBut(c, y, {"request", "deferredRequest", "overwritten"})
      BY <3>2, <3>3, DeferGood
    <3> HIDE DEF y, z
    <3>5. y.heard = x.heard
      BY <3>2, <3>4 DEF SameBut, Fields
    <3>6. QED
      BY <3>1, <3>4, <3>5
  <2>3. CASE x.state = "WaitForUnsolSuccess" /\ r.fc # "READ"
    <3> DEFINE o == Overwrite(x, r)
               w == [o EXCEPT !.deferredRequest = FALSE]
               y == DoRequest(w, "WaitForSolUnsolSuccess", r)
    <3>1. z = y
      BY <2>3 DEF RequestWhileUnsol
    <3>9. Ahead(o, u, q, d) /\ SameBut(x, o, {"overwritten"})
      BY OverwriteAhead DEF Received
    <3> HIDE DEF o
    <3>2. Good(w, u, p, d) /\ SameBut(o, w, {"deferredRequest"}) /\ ~w.deferredRequest
      BY <3>9, MoreRequestsAhead, DropRequest
    <3> HIDE DEF w
    <3>3. /\ w.state = x.state /\ w.executed = x.executed /\ w.heard = x.heard
      BY <3>2, <3>9 DEF SameBut, Fields
    <3>4. Handled(w, r, p, d)
      BY <1>2, <3>3, ReceivedIsHandled
    <3>5. Follows(w, r, "WaitForSolUnsolSuccess")
      BY <2>3, <3>3 DEF Follows
    <3>6. Good(y, u, p, d) /\ SameBut(w, y, RequestFields)
      BY <3>2, <3>4, <3>5, DoRequestGood
    <3> HIDE DEF y, z
    <3>7. y.heard = x.heard
      BY <3>3, <3>6 DEF SameBut, Fields, RequestFields, AnswerFields, SendFields, ResetFields
    <3>8. QED
      BY <3>1, <3>6, <3>7
  <2>4. CASE x.state = "WaitForSolUnsolSuccess" \/ (x.state = "WaitForUnsolSuccess" /\ r.fc = "READ")
    <3> DEFINE y == Defer(x, r)
    <3>1. z = y
      BY <2>4 DEF RequestWhileUnsol
    <3>2. x.sol \notin AwaitsConfirm
      BY <1>2, <2>4 DEF Postponed, Solicits, WaitsForResponse, AwaitsConfirm
    <3>3. Good(y, u, p, d) /\ SameBut(x, y, {"request", "deferredRequest", "overwritten"})
      BY <2>4, <3>2, DeferGood
    <3> HIDE DEF y, z
    <3>4. y.heard = x.heard
      BY <3>3 DEF SameBut, Fields
    <3>5. QED
      BY <3>1, <3>3, <3>4
  <2>5. QED
    BY <1>2, <2>1, <2>2, <2>3, <2>4 DEF Outstation, States
<1> HIDE DEF z
<1>4. QED
  BY <1>1, <1>3, FlushDeferredEventsGood DEF Flushed

\* Objects that cannot be parsed are answered by AS_Idle and forgotten elsewhere, where they
\* take the sequence all the same (Slave::OnUnknownObject).
LEMMA OnUnknownObjectGood ==
  ASSUME NEW x, NEW u \in Nat, NEW q \in Nat, NEW d, Ahead(x, u, q, d), x.error = "none",
         Settled(x), x.heard # 0
  PROVE  LET y == OnUnknownObject(x) IN
         /\ Good(y, u, q, d) /\ y.heard = x.heard
         /\ y.error = "none" => Settled(y)
<1> DEFINE v == [x EXCEPT !.state = "WaitForRspSuccess"]
           w == [x EXCEPT !.deferredUnknown = TRUE]
           z == IF x.state = "Idle" THEN Respond(v) ELSE w
<1>1. OnUnknownObject(x) = FlushDeferredEvents(z)
  BY DEF OnUnknownObject
<1>2. /\ x \in Outstation /\ Kept(x, u, q, d) /\ Typed(x) /\ Accounted(x, u) /\ Ends(x, d)
      /\ Solicits(x) /\ Reports(x) /\ Postponed(x) /\ Answered(x, d)
      /\ d = 0 => Covered(x) /\ Timed(x) /\ Triggered(x)
  BY DEF Ahead, Kept, Typed
<1>3. Good(z, u, q, d) /\ z.heard = x.heard
  <2>1. CASE x.state = "Idle"
    <3>1. z = Respond(v)
      BY <2>1
    <3>2. v \in Outstation /\ SameBut(x, v, {"state"}) /\ v.state = "WaitForRspSuccess"
      BY <1>2 DEF Outstation, SameBut, Fields, States
    <3> HIDE DEF v, z
    <3>3. /\ v.selected = x.selected /\ v.changes = x.changes /\ v.events = x.events
          /\ v.erased = x.erased /\ v.written = x.written /\ v.request = x.request
          /\ v.executed = x.executed /\ v.confirmed = x.confirmed /\ v.error = x.error
          /\ v.deferredRequest = x.deferredRequest /\ v.heard = x.heard
      BY <3>2 DEF SameBut, Fields
    <3>4. Typed(v) /\ Accounted(v, u)
      BY <1>2, <3>2, <3>3 DEF Typed, Accounted
    <3>5. Kept(v, u, q, d)
      BY <1>2, <3>3, <3>4, KeptFrame
    <3>6. Ends(v, d)
      BY <1>2, <3>3 DEF Ends
    <3>7. d = 0 => Written(v) = {}
      BY <1>2, <2>1, <3>3, WrittenNone DEF Covered, Written
    <3>8. d = 0 => Timed(v) /\ Triggered(v)
      BY <1>2, <2>1, <3>2 DEF Timed, Triggered, Unreported, SameBut, Fields, WaitsForUnsol
    <3>9. v.sol = "Idle" /\ v.state \in WaitsForResponse /\ Reports(v) /\ ~v.deferredRequest
      BY <1>2, <2>1, <3>2 DEF Solicits, Reports, Settled, SameBut, Fields, WaitsForResponse,
         WaitsForUnsol
    <3>10. v.deferredUnknown \/ v.answered[1] = v.answered[2]
      BY <1>2, <3>2 DEF Answered, SameBut, Fields
    <3>11. Ready(v, d, TRUE)
      BY <3>2, <3>3, <3>7, <3>8, <3>9, <3>10 DEF Ready
    <3>12. Good(z, u, q, d) /\ SameBut(v, z, {"sol", "solEvents", "error"})
      BY <3>1, <3>5, <3>6, <3>11, RespondGood
    <3>13. z.heard = x.heard
      BY <3>3, <3>12 DEF SameBut, Fields
    <3>14. QED
      BY <3>12, <3>13
  <2>2. CASE x.state # "Idle"
    <3>1. z = w
      BY <2>2
    <3>2. /\ w \in Outstation /\ SameBut(x, w, {"deferredUnknown"})
          /\ w.deferredUnknown = TRUE
      BY <1>2 DEF Outstation, SameBut, Fields
    <3> HIDE DEF w, z
    <3>3. /\ w.selected = x.selected /\ w.changes = x.changes /\ w.events = x.events
          /\ w.erased = x.erased /\ w.written = x.written /\ w.request = x.request
          /\ w.executed = x.executed /\ w.confirmed = x.confirmed /\ w.error = x.error
          /\ w.deferredRequest = x.deferredRequest /\ w.heard = x.heard
      BY <3>2 DEF SameBut, Fields
    <3>4. Typed(w) /\ Accounted(w, u)
      BY <1>2, <3>2, <3>3 DEF Typed, Accounted
    <3>5. Kept(w, u, q, d)
      BY <1>2, <3>3, <3>4, KeptFrame
    <3>6. Ends(w, d)
      BY <1>2, <3>3 DEF Ends
    <3>7. Solicits(w) /\ Reports(w) /\ Postponed(w) /\ Current(w, d) /\ Answered(w, d)
      BY <1>2, <3>2, <3>3 DEF Solicits, Reports, Postponed, Current, Answered, SameBut, Fields
    <3>8. d = 0 => Covered(w) /\ Timed(w) /\ Triggered(w)
      BY <1>2, <3>2 DEF Covered, Timed, Triggered, Written, Unreported, SameBut, Fields
    <3>9. Good(w, u, q, d)
      BY <3>5, <3>6, <3>7, <3>8 DEF Good, Live, Steady
    <3>10. QED
      BY <3>1, <3>3, <3>9
  <2>3. QED
    BY <2>1, <2>2
<1> HIDE DEF z
<1>4. QED
  BY <1>1, <1>3, FlushDeferredEventsGood DEF Flushed

\* Updates are flushed, or wait for AS_Idle (Slave::OnDataUpdate).
LEMMA OnDataUpdateGood ==
  ASSUME NEW x, NEW u \in Nat, NEW q \in Nat, NEW d, Good(x, u, q, d), x.error = "none"
  PROVE  LET y == OnDataUpdate(x) IN
         /\ Good(y, u, q, d) /\ y.heard = x.heard
         /\ y.error = "none" => Settled(y)
<1> DEFINE f == FlushUpdates(x)
           i == IdleOnDataUpdate(x)
           w == [x EXCEPT !.deferredUpdate = TRUE]
           z == CASE x.state = "Idle" -> i [] x.state = "Closed" -> f [] OTHER -> w
<1>1. OnDataUpdate(x) = FlushDeferredEvents(z)
  BY DEF OnDataUpdate
<1>2. /\ Kept(x, u, q, d) /\ x \in Outstation
      /\ Steady(x, d) /\ (d = 0 => Timed(x)) /\ Ends(x, d)
  BY DEF Good, Live, Steady, Kept, Typed
<1>3. Good(z, u, q, d) /\ z.heard = x.heard
  <2>1. CASE x.state = "Idle"
    <3>1. z = i
      BY <2>1
    <3>2. Good(i, u, q, d) /\ SameBut(x, i, IdleFields)
      BY <2>1, IdleOnDataUpdateGood
    <3> HIDE DEF i, z
    <3>3. i.heard = x.heard
      BY <3>2 DEF SameBut, Fields, IdleFields, UnsolFields
    <3>4. QED
      BY <3>1, <3>2, <3>3
  <2>2. CASE x.state = "Closed"
    <3>1. z = f
      BY <2>2
    <3>2. Kept(f, u, q, d) /\ SameBut(x, f, {"events", "changes"}) /\ Steady(f, d)
      BY <1>2, FlushUpdatesFacts
    <3> HIDE DEF f, z
    <3>3. f.heard = x.heard /\ f.nullUnsol = x.nullUnsol /\ f.error = x.error
      BY <3>2 DEF SameBut, Fields
    <3>4. d = 0 => Triggered(f)
      BY <1>2, <2>2, <3>3 DEF Timed, Triggered
    <3>5. Ends(f, d)
      BY <1>2, <3>3 DEF Ends
    <3>6. QED
      BY <3>1, <3>2, <3>3, <3>4, <3>5 DEF Good, Live
  <2>3. CASE x.state \notin {"Idle", "Closed"}
    <3>1. z = w
      BY <2>3
    <3>2. w \in Outstation /\ SameBut(x, w, {"deferredUpdate"})
      BY <1>2 DEF Outstation, SameBut, Fields
    <3> HIDE DEF w, z
    <3>3. Good(w, u, q, d)
      BY <3>2, GoodFrame
    <3>4. w.heard = x.heard
      BY <3>2 DEF SameBut, Fields
    <3>5. QED
      BY <3>1, <3>3, <3>4
  <2>4. QED
    BY <2>1, <2>2, <2>3
<1> HIDE DEF z
<1>4. QED
  BY <1>1, <1>3, FlushDeferredEventsGood DEF Flushed

\* The timer is gone, and what it waited for is looked at now or in AS_Idle
\* (Slave::OnUnsolTimerExpiration).
LEMMA OnUnsolTimerExpirationGood ==
  ASSUME NEW x, NEW u \in Nat, NEW q \in Nat, NEW d, Good(x, u, q, d), x.error = "none",
         x.armed > 0
  PROVE  LET y == OnUnsolTimerExpiration([x EXCEPT !.armed = @ - 1]) IN
         /\ Good(y, u, q, d) /\ y.heard = x.heard
         /\ y.error = "none" => Settled(y)
<1> DEFINE a == x.armed - 1
           t == [x EXCEPT !.armed = a]
           w == [t EXCEPT !.timer = FALSE]
           i == IdleOnUnsolExpiration(w)
           v == [w EXCEPT !.deferredUnsol = TRUE]
           z == IF t.state = "Idle" THEN i ELSE v
<1>1. OnUnsolTimerExpiration([x EXCEPT !.armed = @ - 1]) = FlushDeferredEvents(z)
  BY DEF OnUnsolTimerExpiration
<1>2. /\ Kept(x, u, q, d) /\ x \in Outstation /\ Typed(x) /\ Accounted(x, u)
      /\ Steady(x, d) /\ Ends(x, d) /\ x.armed \in Nat
  BY DEF Good, Live, Kept, Typed, Outstation
<1>3. a \in Nat
  BY <1>2
<1> HIDE DEF a
<1>4. t \in Outstation /\ SameBut(x, t, {"armed"})
  BY <1>2, <1>3 DEF Outstation, SameBut, Fields
<1> HIDE DEF t
<1>5. w \in Outstation /\ SameBut(t, w, {"timer"}) /\ w.timer = FALSE
  BY <1>4 DEF Outstation, SameBut, Fields
<1> HIDE DEF w
<1>6. SameBut(x, w, {"timer", "armed"}) /\ w.state = x.state /\ t.state = x.state
  BY <1>4, <1>5 DEF SameBut, Fields
\* In either case all but the trigger holds
<1>7. ASSUME NEW y, y \in Outstation, SameBut(x, y, {"timer", "armed", "deferredUnsol"}), ~y.timer
      PROVE  Kept(y, u, q, d) /\ Ends(y, d) /\ Steady(y, d) /\ y.heard = x.heard
  <2>1. /\ y.selected = x.selected /\ y.changes = x.changes /\ y.events = x.events
        /\ y.erased = x.erased /\ y.written = x.written /\ y.request = x.request
        /\ y.executed = x.executed /\ y.confirmed = x.confirmed /\ y.error = x.error
        /\ y.deferredRequest = x.deferredRequest /\ y.heard = x.heard
    BY <1>7 DEF SameBut, Fields
  <2>2. Typed(y) /\ Accounted(y, u)
    BY <1>2, <1>7, <2>1 DEF Typed, Accounted
  <2>3. Kept(y, u, q, d)
    BY <1>2, <2>1, <2>2, KeptFrame
  <2>4. Ends(y, d)
    BY <1>2, <2>1 DEF Ends
  <2>5. Steady(y, d)
    BY <1>2, <1>7 DEF Steady, Solicits, Reports, Postponed, Current, Answered, Covered, Timed,
       Written, SameBut, Fields
  <2>6. QED
    BY <2>1, <2>3, <2>4, <2>5
<1>8. Good(z, u, q, d) /\ z.heard = x.heard
  <2>1. CASE x.state = "Idle"
    <3>1. z = i
      BY <1>6, <2>1
    <3>2. SameBut(x, w, {"timer", "armed", "deferredUnsol"})
      BY <1>6 DEF SameBut
    <3>3. Kept(w, u, q, d) /\ Ends(w, d) /\ Steady(w, d) /\ w.heard = x.heard
      BY <1>5, <1>7, <3>2
    <3>4. Good(i, u, q, d) /\ SameBut(w, i, UnsolFields)
      BY <1>6, <2>1, <3>3, IdleOnUnsolExpirationGood
    <3> HIDE DEF i, z
    <3>5. i.heard = x.heard
      BY <3>3, <3>4 DEF SameBut, Fields, UnsolFields
    <3>6. QED
      BY <3>1, <3>4, <3>5
  <2>2. CASE x.state # "Idle"
    <3>1. z = v
      BY <1>6, <2>2
    <3>2. v \in Outstation /\ SameBut(w, v, {"deferredUnsol"}) /\ v.deferredUnsol = TRUE
      BY <1>5 DEF Outstation, SameBut, Fields
    <3> HIDE DEF v, z
    <3>3. SameBut(x, v, {"timer", "armed", "deferredUnsol"}) /\ ~v.timer
      BY <1>5, <1>6, <3>2 DEF SameBut, Fields
    <3>4. Kept(v, u, q, d) /\ Ends(v, d) /\ Steady(v, d) /\ v.heard = x.heard
      BY <1>7, <3>2, <3>3
    <3>5. Triggered(v)
      BY <3>2 DEF Triggered
    <3>6. QED
      BY <3>1, <3>4, <3>5 DEF Good, Live
  <2>3. QED
    BY <2>1, <2>2
<1> HIDE DEF z
<1>9. QED
  BY <1>1, <1>8, FlushDeferredEventsGood DEF Flushed

---------------------------------------------------------------------------
(* The actions *)

\* The number of requests bounds what can have been executed, no more.
LEMMA MoreRequestsGood ==
  ASSUME NEW x, NEW u, NEW q \in Nat, NEW p \in {q, q + 1}, NEW d, Good(x, u, q, d)
  PROVE  Good(x, u, p, d)
BY MoreRequests DEF Good

\* AS_Closed is left (Slave::OnLowerLayerUp).
LEMMA LowerLayerUpGood ==
  ASSUME NEW x, NEW u \in Nat, NEW q \in Nat, NEW d, Good(x, u, q, d), x.error = "none",
         x.state = "Closed"
  PROVE  LET y == FlushDeferredEvents([x EXCEPT !.state = "Idle"]) IN
         /\ Good(y, u, q, d) /\ y.heard = x.heard
         /\ y.error = "none" => Settled(y)
<1> DEFINE w == [x EXCEPT !.state = "Idle"]
<1>1. /\ Kept(x, u, q, d) /\ x \in Outstation /\ Typed(x) /\ Accounted(x, u)
      /\ Live(x, d) /\ Ends(x, d)
  BY DEF Good, Kept, Typed
<1>2. w \in Outstation /\ SameBut(x, w, {"state"}) /\ w.state = "Idle"
  BY <1>1 DEF Outstation, SameBut, Fields, States
<1> HIDE DEF w
<1>3. /\ w.selected = x.selected /\ w.changes = x.changes /\ w.events = x.events
      /\ w.erased = x.erased /\ w.written = x.written /\ w.request = x.request
      /\ w.executed = x.executed /\ w.confirmed = x.confirmed /\ w.error = x.error
      /\ w.deferredRequest = x.deferredRequest /\ w.heard = x.heard
  BY <1>2 DEF SameBut, Fields
<1>4. Typed(w) /\ Accounted(w, u)
  BY <1>1, <1>2, <1>3 DEF Typed, Accounted
<1>5. Kept(w, u, q, d)
  BY <1>1, <1>3, <1>4, KeptFrame
<1>6. Ends(w, d)
  BY <1>1, <1>3 DEF Ends
<1>7. Solicits(w) /\ Reports(w) /\ Postponed(w) /\ Current(w, d) /\ Answered(w, d)
  BY <1>1, <1>2 DEF Live, Steady, Solicits, Reports, Postponed, Current, Answered, SameBut,
     Fields, WaitsForResponse, WaitsForUnsol, AwaitsConfirm
<1>8. d = 0 => Covered(w) /\ Timed(w) /\ Triggered(w)
  BY <1>1, <1>2 DEF Live, Steady, Covered, Timed, Triggered, Unreported, SameBut, Fields,
     WaitsForUnsol
<1>9. Good(w, u, q, d)
  BY <1>5, <1>6, <1>7, <1>8 DEF Good, Live, Steady
<1>10. QED
  BY <1>3, <1>9, FlushDeferredEventsGood DEF Flushed, w

\* The channels are reset and the state is closed; the rest stays (Slave::OnLowerLayerDown).
LEMMA LowerLayerDownGood ==
  ASSUME NEW x, NEW u \in Nat, NEW q \in Nat, NEW d \in Nat, Good(x, u, q, d), x.error = "none"
  PROVE  LET y == [x EXCEPT !.state = "Closed", !.sol = "Idle", !.uns = "Idle", !.heard = 0,
                            !.solEvents = {}, !.unsEvents = {}] IN
         Good(y, u, q, d + 1) /\ Settled(y) /\ y.heard = 0
<1> DEFINE y == [x EXCEPT !.state = "Closed", !.sol = "Idle", !.uns = "Idle", !.heard = 0,
                          !.solEvents = {}, !.unsEvents = {}]
<1>1. /\ Kept(x, u, q, d) /\ x \in Outstation /\ Typed(x) /\ Accounted(x, u)
      /\ Steady(x, d) /\ Ends(x, d) /\ d + 1 # 0
  BY DEF Good, Live, Kept, Typed
<1>2. y \in Outstation
  BY <1>1 DEF Outstation, States
<1>3. /\ SameBut(x, y, {"state", "sol", "uns", "heard", "solEvents", "unsEvents"})
      /\ y.state = "Closed" /\ y.sol = "Idle" /\ y.uns = "Idle" /\ y.heard = 0
  BY <1>1 DEF Outstation, SameBut, Fields
<1> HIDE DEF y
<1>4. /\ y.selected = x.selected /\ y.changes = x.changes /\ y.events = x.events
      /\ y.erased = x.erased /\ y.written = x.written /\ y.request = x.request
      /\ y.executed = x.executed /\ y.confirmed = x.confirmed /\ y.error = x.error
      /\ y.deferredRequest = x.deferredRequest
  BY <1>3 DEF SameBut, Fields
<1>5. Typed(y) /\ Accounted(y, u)
  BY <1>1, <1>2, <1>4 DEF Typed, Accounted
<1>6. Kept(y, u, q, d + 1)
  BY <1>1, <1>4, <1>5 DEF Kept, ExecutedOnce
<1>7. Ends(y, d + 1)
  BY <1>1, <1>4 DEF Ends
<1>8. Live(y, d + 1)
  BY <1>1, <1>3 DEF Live, Steady, Solicits, Reports, Postponed, Current, Answered, SameBut,
     Fields, WaitsForResponse, WaitsForUnsol, AwaitsConfirm
<1>9. QED
  BY <1>3, <1>6, <1>7, <1>8 DEF Good, Settled, y

\* A data point is updated (ChangeBuffer).
LEMMA UpdatePointGood ==
  ASSUME NEW x, NEW u \in Nat, NEW q \in Nat, NEW d, Good(x, u, q, d), x.error = "none"
  PROVE  LET y == [x EXCEPT !.changes = @ \cup {u + 1}] IN
         /\ Good(y, u + 1, q, d) /\ y.heard = x.heard
         /\ Settled(x) => Settled(y)
<1> DEFINE y == [x EXCEPT !.changes = @ \cup {u + 1}]
<1>1. /\ Kept(x, u, q, d) /\ x \in Outstation /\ Typed(x) /\ Accounted(x, u)
      /\ Live(x, d) /\ Ends(x, d)
  BY DEF Good, Kept, Typed
<1>2. y \in Outstation
  BY <1>1 DEF Outstation
<1>3. SameBut(x, y, {"changes"}) /\ y.changes = x.changes \cup {u + 1}
  BY <1>1 DEF Outstation, SameBut, Fields
<1> HIDE DEF y
<1>4. /\ y.selected = x.selected /\ y.events = x.events
      /\ y.erased = x.erased /\ y.written = x.written /\ y.request = x.request
      /\ y.executed = x.executed /\ y.confirmed = x.confirmed /\ y.error = x.error
      /\ y.deferredRequest = x.deferredRequest /\ y.heard = x.heard
  BY <1>3 DEF SameBut, Fields
<1>5. Accounted(y, u + 1)
  <2> DEFINE U == 1 .. u
             V == 1 .. u + 1
  <2>1. V = U \cup {u + 1} /\ u + 1 \notin U
    OBVIOUS
  <2>2. /\ x.changes \cup x.events \cup ToSet(x.selected) \cup x.erased = U
        /\ x.changes \cap (x.events \cup ToSet(x.selected) \cup x.erased) = {}
        /\ x.events \cap (ToSet(x.selected) \cup x.erased) = {}
        /\ ToSet(x.selected) \cap x.erased = {}
        /\ Distinct(x.selected)
    BY <1>1 DEF Accounted
  <2> HIDE DEF U, V
  <2>3. /\ y.changes \cup y.events \cup ToSet(y.selected) \cup y.erased = V
        /\ y.changes \cap (y.events \cup ToSet(y.selected) \cup y.erased) = {}
        /\ y.events \cap (ToSet(y.selected) \cup y.erased) = {}
        /\ ToSet(y.selected) \cap y.erased = {}
        /\ Distinct(y.selected)
    BY <1>3, <1>4, <2>1, <2>2
  <2>4. QED
    BY <2>3 DEF Accounted, V
<1>6. Typed(y)
  BY <1>1, <1>2, <1>4 DEF Typed
<1>7. Kept(y, u + 1, q, d)
  BY <1>1, <1>4, <1>5, <1>6 DEF Kept, ExecutedOnce
<1>8. Ends(y, d)
  BY <1>1, <1>4 DEF Ends
<1>9. Live(y, d)
  BY <1>1, <1>3 DEF Live, Steady, Solicits, Reports, Postponed, Current, Answered, Covered, Timed,
     Triggered, Written, Unreported, SameBut, Fields
<1>10. Settled(x) => Settled(y)
  BY <1>3 DEF Settled, SameBut, Fields
<1>11. QED
  BY <1>4, <1>7, <1>8, <1>9, <1>10 DEF Good, y

\* The sequence of a request is taken before Slave sees it (SolicitedChannel::OnRequest).
LEMMA HeardAhead ==
  ASSUME NEW x, NEW u \in Nat, NEW q \in Nat, NEW d, Good(x, u, q, d), x.error = "none",
         NEW n \in Nat, n # 0
  PROVE  LET y == [x EXCEPT !.heard = n] IN
         Ahead(y, u, q, d) /\ SameBut(x, y, {"heard"}) /\ y.heard = n
<1> DEFINE y == [x EXCEPT !.heard = n]
<1>1. /\ Kept(x, u, q, d) /\ x \in Outstation /\ Typed(x) /\ Accounted(x, u)
      /\ Live(x, d) /\ Ends(x, d)
  BY DEF Good, Kept, Typed
<1>2. y \in Outstation /\ SameBut(x, y, {"heard"}) /\ y.heard = n
  BY <1>1 DEF Outstation, SameBut, Fields
<1> HIDE DEF y
<1>3. /\ y.selected = x.selected /\ y.changes = x.changes /\ y.events = x.events
      /\ y.erased = x.erased /\ y.written = x.written /\ y.request = x.request
      /\ y.executed = x.executed /\ y.confirmed = x.confirmed /\ y.error = x.error
      /\ y.deferredRequest = x.deferredRequest
  BY <1>2 DEF SameBut, Fields
<1>4. Typed(y) /\ Accounted(y, u)
  BY <1>1, <1>2, <1>3 DEF Typed, Accounted
<1>5. Kept(y, u, q, d)
  BY <1>1, <1>3, <1>4, KeptFrame
<1>6. Ends(y, d)
  BY <1>1, <1>3 DEF Ends
<1>7. Solicits(y) /\ Reports(y) /\ Postponed(y) /\ Answered(y, d)
  BY <1>1, <1>2 DEF Live, Steady, Solicits, Reports, Postponed, Answered, SameBut, Fields
<1>8. d = 0 => Covered(y) /\ Timed(y) /\ Triggered(y)
  BY <1>1, <1>2 DEF Live, Steady, Covered, Timed, Triggered, Written, Unreported, SameBut, Fields
<1>9. QED
  BY <1>2, <1>5, <1>6, <1>7, <1>8 DEF Ahead, y

\* The response waits for its confirmation once it was sent (SolicitedChannel).
LEMMA AwaitConfirmGood ==
  ASSUME NEW x, NEW u \in Nat, NEW q \in Nat, NEW d, Good(x, u, q, d), x.error = "none",
         x.sol = "SendConfirmed"
  PROVE  LET y == [x EXCEPT !.sol = "WaitForConfirm"] IN
         /\ Good(y, u, q, d) /\ y.heard = x.heard
         /\ Settled(x) => Settled(y)
<1> DEFINE y == [x EXCEPT !.sol = "WaitForConfirm"]
<1>1. /\ Kept(x, u, q, d) /\ x \in Outstation /\ Typed(x) /\ Accounted(x, u)
      /\ Live(x, d) /\ Ends(x, d)
  BY DEF Good, Kept, Typed
<1>2. y \in Outstation /\ SameBut(x, y, {"sol"}) /\ y.sol = "WaitForConfirm"
  BY <1>1 DEF Outstation, SameBut, Fields
<1> HIDE DEF y
<1>3. /\ y.selected = x.selected /\ y.changes = x.changes /\ y.events = x.events
      /\ y.erased = x.erased /\ y.written = x.written /\ y.request = x.request
      /\ y.executed = x.executed /\ y.confirmed = x.confirmed /\ y.error = x.error
      /\ y.deferredRequest = x.deferredRequest /\ y.heard = x.heard
  BY <1>2 DEF SameBut, Fields
<1>4. Typed(y) /\ Accounted(y, u)
  BY <1>1, <1>2, <1>3 DEF Typed, Accounted
<1>5. Kept(y, u, q, d)
  BY <1>1, <1>3, <1>4, KeptFrame
<1>6. Ends(y, d)
  BY <1>1, <1>3 DEF Ends
<1>7. Live(y, d)
  BY <1>1, <1>2 DEF Live, Steady, Solicits, Reports, Postponed, Current, Answered, Covered, Timed,
     Triggered, Written, Unreported, SameBut, Fields, AwaitsConfirm
<1>8. Settled(x) => Settled(y)
  BY <1>2 DEF Settled, SameBut, Fields
<1>9. QED
  BY <1>3, <1>5, <1>6, <1>7, <1>8 DEF Good, y

\* The channel of responses is idle before Slave is told of the outcome (SolicitedChannel).
LEMMA ChannelIdle ==
  ASSUME NEW x, NEW u \in Nat, NEW q \in Nat, NEW d, Good(x, u, q, d), x.error = "none",
         x.sol # "Idle", NEW events \in SUBSET Nat
  PROVE  LET y == [x EXCEPT !.sol = "Idle", !.solEvents = {}, !.confirmed = @ \cup events] IN
         /\ SolEnded(y, u, q, d) /\ y.heard = x.heard
         /\ x.sol # "SendCanceled" /\ events = x.solEvents => SolSucceeded(y, d)
<1> DEFINE y == [x EXCEPT !.sol = "Idle", !.solEvents = {}, !.confirmed = @ \cup events]
<1>1. /\ Kept(x, u, q, d) /\ x \in Outstation /\ Typed(x) /\ Accounted(x, u)
      /\ Live(x, d) /\ Ends(x, d)
  BY DEF Good, Kept, Typed
<1>2. /\ y \in Outstation /\ SameBut(x, y, {"sol", "solEvents", "confirmed"})
      /\ y.sol = "Idle" /\ y.confirmed = x.confirmed \cup events
  BY <1>1 DEF Outstation, SameBut, Fields
<1> HIDE DEF y
<1>3. /\ y.selected = x.selected /\ y.changes = x.changes /\ y.events = x.events
      /\ y.erased = x.erased /\ y.written = x.written /\ y.request = x.request
      /\ y.executed = x.executed /\ y.error = x.error /\ y.static = x.static
      /\ y.deferredRequest = x.deferredRequest /\ y.heard = x.heard /\ y.state = x.state
  BY <1>2 DEF SameBut, Fields
<1>4. Typed(y) /\ Accounted(y, u)
  BY <1>1, <1>2, <1>3 DEF Typed, Accounted
<1>5. Kept(y, u, q, d)
  BY <1>1, <1>2, <1>3, <1>4 DEF Kept, ExecutedOnce
<1>6. /\ y.state \in WaitsForResponse /\ Reports(y) /\ Current(y, d) /\ Answered(y, d)
  BY <1>1, <1>2 DEF Live, Steady, Solicits, Reports, Current, Answered, SameBut, Fields
<1>7. d = 0 => /\ Timed(y) /\ Triggered(y)
               /\ y.state \in WaitsForUnsol => Written(y) \subseteq y.unsEvents
  BY <1>1, <1>2 DEF Live, Steady, Covered, Timed, Triggered, Written, Unreported, SameBut, Fields
<1>8. ASSUME x.sol # "SendCanceled", events = x.solEvents
      PROVE  SolSucceeded(y, d)
  BY <1>1, <1>2, <1>3, <1>8 DEF Live, Steady, Postponed, Covered, Written, SolSucceeded
<1>9. QED
  BY <1>2, <1>3, <1>5, <1>6, <1>7, <1>8 DEF SolEnded, y

\* ... and so is the channel of unsolicited responses (UnsolicitedChannel).
LEMMA UnsolChannelIdle ==
  ASSUME NEW x, NEW u \in Nat, NEW q \in Nat, NEW d, Good(x, u, q, d), x.error = "none",
         x.uns = "Busy", NEW events \in SUBSET Nat
  PROVE  LET y == [x EXCEPT !.uns = "Idle", !.unsEvents = {}, !.confirmed = @ \cup events] IN
         /\ UnsolEnded(y, u, q, d) /\ y.heard = x.heard
         /\ events = x.unsEvents => UnsolSucceeded(y, d)
<1> DEFINE y == [x EXCEPT !.uns = "Idle", !.unsEvents = {}, !.confirmed = @ \cup events]
<1>1. /\ Kept(x, u, q, d) /\ x \in Outstation /\ Typed(x) /\ Accounted(x, u)
      /\ Live(x, d) /\ Ends(x, d)
  BY DEF Good, Kept, Typed
<1>2. /\ y \in Outstation /\ SameBut(x, y, {"uns", "unsEvents", "confirmed"})
      /\ y.uns = "Idle" /\ y.confirmed = x.confirmed \cup events
  BY <1>1 DEF Outstation, SameBut, Fields
<1> HIDE DEF y
<1>3. /\ y.selected = x.selected /\ y.changes = x.changes /\ y.events = x.events
      /\ y.erased = x.erased /\ y.written = x.written /\ y.request = x.request
      /\ y.executed = x.executed /\ y.error = x.error
      /\ y.deferredRequest = x.deferredRequest /\ y.heard = x.heard /\ y.state = x.state
  BY <1>2 DEF SameBut, Fields
<1>4. Typed(y) /\ Accounted(y, u)
  BY <1>1, <1>2, <1>3 DEF Typed, Accounted
<1>5. Kept(y, u, q, d)
  BY <1>1, <1>2, <1>3, <1>4 DEF Kept, ExecutedOnce
<1>6. /\ y.state \in WaitsForUnsol /\ Solicits(y) /\ Postponed(y) /\ Current(y, d)
      /\ Answered(y, d) /\ (d = 0 => Timed(y))
  BY <1>1, <1>2 DEF Live, Steady, Solicits, Reports, Postponed, Current, Answered, Timed,
     SameBut, Fields
<1>7. ASSUME events = x.unsEvents
      PROVE  UnsolSucceeded(y, d)
  BY <1>1, <1>2, <1>3, <1>6, <1>7 DEF Live, Steady, Covered, Written, UnsolSucceeded
<1>8. QED
  BY <1>2, <1>3, <1>5, <1>6, <1>7 DEF UnsolEnded, y

\* An outcome that confirms nothing
LEMMA ConfirmsNothing ==
  ASSUME NEW x \in Outstation
  PROVE  /\ [x EXCEPT !.sol = "Idle", !.solEvents = {}, !.confirmed = @ \cup {}]
              = [x EXCEPT !.sol = "Idle", !.solEvents = {}]
         /\ [x EXCEPT !.uns = "Idle", !.unsEvents = {}, !.confirmed = @ \cup {}]
              = [x EXCEPT !.uns = "Idle", !.unsEvents = {}]
<1>1. x.confirmed \cup {} = x.confirmed
  OBVIOUS
<1>2. \A c : c = x.confirmed =>
        /\ [x EXCEPT !.sol = "Idle", !.solEvents = {}, !.confirmed = c]
              = [x EXCEPT !.sol = "Idle", !.solEvents = {}]
        /\ [x EXCEPT !.uns = "Idle", !.unsEvents = {}, !.confirmed = c]
              = [x EXCEPT !.uns = "Idle", !.unsEvents = {}]
  BY DEF Outstation
<1>3. QED
  BY <1>1, <1>2

\* A response that was not confirmed has failed (OnSolFailure).
LEMMA ResponseFailedGood ==
  ASSUME NEW x, NEW u \in Nat, NEW q \in Nat, NEW d, Good(x, u, q, d), x.error = "none",
         x.sol # "Idle"
  PROVE  LET y == OnSolFailure([x EXCEPT !.sol = "Idle", !.solEvents = {}]) IN
         /\ Good(y, u, q, d) /\ y.heard = x.heard
         /\ y.error = "none" => Settled(y)
<1> DEFINE w == [x EXCEPT !.sol = "Idle", !.solEvents = {}, !.confirmed = @ \cup {}]
<1>1. x \in Outstation
  BY DEF Good, Kept, Typed
<1>2. w = [x EXCEPT !.sol = "Idle", !.solEvents = {}]
  BY <1>1, ConfirmsNothing
<1>3. SolEnded(w, u, q, d) /\ w.heard = x.heard
  BY ChannelIdle
<1> HIDE DEF w
<1>4. QED
  BY <1>2, <1>3, OnSolFailureGood

\* The invariant depends on the configuration, which never changes.
LEMMA GoodNext ==
  ASSUME config' = config, Good(s', updates', requests', downs')
  PROVE  Good(s, updates, requests, downs)'
BY DEF Good, Kept, Typed, Accounted, ExecutedOnce, Distinct, Ends, Live, Steady, Solicits, Reports,
   Postponed, Current, Answered, Covered, Timed, Triggered, Written, Unreported

\* A closed outstation with nothing to report and nothing deferred (the constructor of Slave)
LEMMA InvInit == Init => Inv
<1> SUFFICES ASSUME Init
             PROVE  Inv
  OBVIOUS
<1>1. PICK mask \in BOOLEAN :
        s = [state |-> "Closed", deferredUpdate |-> FALSE, deferredRequest |-> FALSE,
             deferredUnsol |-> ~config.disableUnsol, deferredUnknown |-> FALSE,
             request |-> NoRequest, nullUnsol |-> FALSE, mask |-> mask, timer |-> FALSE,
             armed |-> 0,
             changes |-> {}, events |-> {}, selected |-> <<>>, written |-> 0, queue |-> <<>>,
             static |-> 0, fir |-> TRUE, loaded |-> FALSE,
             sol |-> "Idle", uns |-> "Idle", heard |-> 0, solEvents |-> {}, unsEvents |-> {},
             error |-> "none", erased |-> {}, confirmed |-> {}, executed |-> <<>>,
             acknowledged |-> {}, overwritten |-> {}, answered |-> <<0, 0>>]
  BY DEF Init
<1>2. /\ config \in Configs /\ last = NoRequest
      /\ posted = 0 /\ updates = 0 /\ requests = 0 /\ repeats = 0 /\ downs = 0
  BY DEF Init, Configs
<1>3. NoRequest \in Request /\ NoRequest.id = 0 /\ NoRequest.prev = FALSE /\ NoRequest.fc = "READ"
  BY DEF NoRequest, Request, ReadRequest, NoObjects, Functions
<1>4. /\ s.state = "Closed" /\ s.deferredRequest = FALSE /\ s.request = NoRequest
      /\ s.nullUnsol = FALSE /\ s.timer = FALSE /\ s.changes = {} /\ s.events = {}
      /\ s.selected = <<>> /\ s.written = 0 /\ s.sol = "Idle" /\ s.uns = "Idle" /\ s.heard = 0
      /\ s.error = "none" /\ s.erased = {} /\ s.executed = <<>> /\ s.answered = <<0, 0>>
      /\ s.deferredUnknown = FALSE
  BY <1>1
<1>5. <<0, 0>> \in Answer
  BY DEF Answer
<1>6. (~config.disableUnsol) \in BOOLEAN
  OBVIOUS
<1>7. s \in Outstation
  <2> DEFINE b == ~config.disableUnsol
             n == <<0, 0>>
             e == <<>>
  <2>1. b \in BOOLEAN /\ n \in Answer /\ e \in Numbers
    BY <1>5, <1>6, EmptyFacts
  <2>2. s = [state |-> "Closed", deferredUpdate |-> FALSE, deferredRequest |-> FALSE,
             deferredUnsol |-> b, deferredUnknown |-> FALSE,
             request |-> NoRequest, nullUnsol |-> FALSE, mask |-> mask, timer |-> FALSE,
             armed |-> 0,
             changes |-> {}, events |-> {}, selected |-> e, written |-> 0, queue |-> e,
             static |-> 0, fir |-> TRUE, loaded |-> FALSE,
             sol |-> "Idle", uns |-> "Idle", heard |-> 0, solEvents |-> {}, unsEvents |-> {},
             error |-> "none", erased |-> {}, confirmed |-> {}, executed |-> e,
             acknowledged |-> {}, overwritten |-> {}, answered |-> n]
    BY <1>1
  <2> HIDE DEF b, n, e
  <2>3. QED
    BY <1>3, <2>1, <2>2 DEF Outstation, States
<1>8. Typed(s)
  BY <1>3, <1>4, <1>7, EmptyFacts DEF Typed
<1>9. 1 .. 0 = {}
  OBVIOUS
<1>10. Accounted(s, 0)
  BY <1>4, <1>9, EmptyFacts DEF Accounted
<1>11. Kept(s, 0, 0, 0)
  BY <1>4, <1>8, <1>10, EmptyFacts DEF Kept, ExecutedOnce
<1>12. Ends(s, 0)
  BY <1>4 DEF Ends
<1>13. Steady(s, 0)
  <2>1. s.answered[1] = s.answered[2]
    BY <1>4
  <2>2. Solicits(s) /\ Reports(s) /\ Postponed(s) /\ Current(s, 0) /\ Answered(s, 0)
    BY <1>4, <2>1 DEF Solicits, Reports, Postponed, Current, Answered, WaitsForResponse,
       WaitsForUnsol, AwaitsConfirm
  <2>3. Covered(s) /\ Timed(s)
    BY <1>4 DEF Covered, Timed, WaitsForUnsol
  <2>4. QED
    BY <2>2, <2>3 DEF Steady
<1>14. Triggered(s)
  BY <1>4 DEF Triggered
<1>15. Good(s, 0, 0, 0)
  BY <1>11, <1>12, <1>13, <1>14 DEF Good, Live
<1>16. Settled(s)
  BY <1>4 DEF Settled
<1>17. QED
  BY <1>2, <1>3, <1>4, <1>15, <1>16 DEF Inv

\* Every action is one of the handlers above.
LEMMA InvNext == Inv /\ [Next]_vars => Inv'
<1> SUFFICES ASSUME Inv, [Next]_vars
             PROVE  Inv'
  OBVIOUS
<1> USE DEF Running, Environment
<1>1. /\ Good(s, updates, requests, downs)
      /\ s.error = "none" => Settled(s) /\ s.heard = last.id
      /\ ~last.prev /\ last.id \in 0 .. requests
      /\ config \in Configs /\ last \in Request
      /\ posted \in Nat /\ updates \in Nat /\ requests \in Nat /\ repeats \in Nat /\ downs \in Nat
  BY DEF Inv
<1>2. s \in Outstation
  BY <1>1 DEF Good, Kept, Typed
\* What a handler has to leave behind if nothing is counted and no request received
<1>3. ASSUME s.error = "none", NEW y, s' = y, Good(y, updates, requests, downs),
             y.error = "none" => Settled(y) /\ y.heard = s.heard,
             posted' \in Nat, repeats' \in Nat,
             UNCHANGED <<config, updates, last, requests, downs>>
      PROVE  Inv'
  <2>1. Good(s, updates, requests, downs)'
    BY <1>3, GoodNext
  <2>2. (s.error = "none" => Settled(s) /\ s.heard = last.id)'
    BY <1>1, <1>3
  <2>3. QED
    BY <1>1, <1>3, <2>1, <2>2 DEF Inv
<1>4. CASE OnLowerLayerUp
  BY <1>1, <1>3, <1>4, LowerLayerUpGood DEF OnLowerLayerUp
<1>5. CASE OnLowerLayerDown
  <2>1. Good(s', updates, requests, downs + 1) /\ Settled(s') /\ s'.heard = 0
    BY <1>1, <1>5, LowerLayerDownGood DEF OnLowerLayerDown
  <2>2. last' = NoRequest /\ downs' = downs + 1 /\ downs + 1 \in Nat
    BY <1>1, <1>5 DEF OnLowerLayerDown
  <2>3. NoRequest \in Request /\ NoRequest.id = 0 /\ NoRequest.prev = FALSE
    BY DEF NoRequest, Request, ReadRequest, NoObjects, Functions
  <2>4. UNCHANGED <<config, posted, updates, requests, repeats>>
    BY <1>5 DEF OnLowerLayerDown
  <2>5. Good(s, updates, requests, downs)'
    BY <2>1, <2>2, <2>4, GoodNext
  <2>6. 0 \in 0 .. requests
    BY <1>1
  <2>7. QED
    BY <1>1, <2>1, <2>2, <2>3, <2>4, <2>5, <2>6 DEF Inv
<1>6. CASE UpdatePoint
  <2>1. /\ s' = [s EXCEPT !.changes = @ \cup {updates + 1}]
        /\ updates' = updates + 1 /\ posted' = posted + 1 /\ s.error = "none"
        /\ UNCHANGED <<config, last, requests, repeats, downs>>
    BY <1>6 DEF UpdatePoint
  <2>2. Good(s', updates + 1, requests, downs) /\ s'.heard = s.heard /\ Settled(s')
    BY <1>1, <2>1, UpdatePointGood
  <2>3. updates + 1 \in Nat /\ posted + 1 \in Nat
    BY <1>1
  <2>4. Good(s, updates, requests, downs)'
    BY <2>1, <2>2, GoodNext
  <2>5. QED
    BY <1>1, <2>1, <2>2, <2>3, <2>4 DEF Inv
<1>7. CASE RunDataUpdate
  <2>1. /\ s' = OnDataUpdate(s) /\ posted' = posted - 1 /\ s.error = "none" /\ posted > 0
        /\ UNCHANGED <<config, updates, last, requests, repeats, downs>>
    BY <1>7 DEF RunDataUpdate
  <2>2. posted - 1 \in Nat
    BY <1>1, <2>1
  <2>3. QED
    BY <1>1, <1>3, <2>1, <2>2, OnDataUpdateGood
<1>8. CASE NewRequest
  <2> DEFINE x == [s EXCEPT !.heard = requests + 1]
  <2>0. PICK fc \in Functions : \E read \in IF fc = "READ" THEN Reads ELSE {NoObjects} :
          /\ last' = [id |-> requests + 1, fc |-> fc, read |-> read, prev |-> FALSE]
          /\ s' = IF fc = "UNKNOWN" THEN OnUnknownObject(x) ELSE OnRequest(x, last')
    BY <1>8 DEF NewRequest
  <2>1. PICK read \in IF fc = "READ" THEN Reads ELSE {NoObjects} :
          /\ last' = [id |-> requests + 1, fc |-> fc, read |-> read, prev |-> FALSE]
          /\ s' = IF fc = "UNKNOWN" THEN OnUnknownObject(x) ELSE OnRequest(x, last')
    BY <2>0
  <2>2. /\ s.error = "none" /\ s.state # "Closed" /\ requests' = requests + 1
        /\ UNCHANGED <<config, posted, updates, repeats, downs>>
    BY <1>8 DEF NewRequest
  <2>3. requests + 1 \in Nat /\ requests + 1 # 0 /\ requests + 1 \in 0 .. requests + 1
    BY <1>1
  <2>4. read \in ReadRequest
    BY SlaveAssumption DEF NoObjects, ReadRequest
  <2>5. last' \in Request /\ last'.id = requests + 1 /\ last'.fc = fc /\ last'.prev = FALSE
    BY <2>1, <2>3, <2>4 DEF Request
  <2>6. /\ Ahead(x, updates, requests, downs) /\ SameBut(s, x, {"heard"})
        /\ x.heard = requests + 1
    BY <1>1, <2>2, <2>3, HeardAhead
  <2> HIDE DEF x
  <2>7. x.error = "none" /\ x.state # "Closed" /\ Settled(x)
    BY <1>1, <2>2, <2>6 DEF Settled, SameBut, Fields
  <2>8. /\ Good(s', updates, requests + 1, downs) /\ s'.heard = requests + 1
        /\ s'.error = "none" => Settled(s')
    <3>1. CASE fc = "UNKNOWN"
      <4>1. s' = OnUnknownObject(x)
        BY <2>1, <3>1
      <4>2. /\ Good(s', updates, requests, downs) /\ s'.heard = x.heard
            /\ s'.error = "none" => Settled(s')
        BY <1>1, <2>3, <2>6, <2>7, <4>1, OnUnknownObjectGood
      <4>3. QED
        BY <1>1, <2>6, <4>2, MoreRequestsGood
    <3>2. CASE fc # "UNKNOWN"
      <4>1. s' = OnRequest(x, last')
        BY <2>1, <3>2
      <4>2. Received(x, last', requests, requests + 1)
        BY <2>3, <2>5, <2>6 DEF Received
      <4>3. /\ Good(s', updates, requests + 1, downs) /\ s'.heard = x.heard
            /\ s'.error = "none" => Settled(s')
        <5> DEFINE r == last'
        <5>1. r.fc # "UNKNOWN" /\ Received(x, r, requests, requests + 1)
          BY <2>5, <3>2, <4>2
        <5>2. s' = OnRequest(x, r)
          BY <4>1
        <5> HIDE DEF r
        <5>3. QED
          BY <1>1, <2>6, <2>7, <5>1, <5>2, OnRequestGood
      <4>4. QED
        BY <2>6, <4>3
    <3>3. QED
      BY <3>1, <3>2
  <2>9. Good(s, updates, requests, downs)'
    BY <2>2, <2>8, GoodNext
  <2>10. QED
    BY <1>1, <2>2, <2>3, <2>5, <2>8, <2>9 DEF Inv
<1>9. CASE RepeatRequest
  <2> DEFINE r == [last EXCEPT !.prev = TRUE]
             y == IF last.fc = "UNKNOWN" THEN OnUnknownObject(s) ELSE OnRequest(s, r)
  <2>1. /\ s' = y /\ s.error = "none" /\ s.state # "Closed" /\ last.id > 0
        /\ repeats' = repeats + 1
        /\ UNCHANGED <<config, posted, updates, last, requests, downs>>
    BY <1>9 DEF RepeatRequest
  <2>2. r \in Request /\ r.id = last.id /\ r.fc = last.fc /\ r.prev = TRUE
    BY <1>1 DEF Request
  <2>3. s.heard = last.id /\ s.heard # 0 /\ Settled(s) /\ repeats + 1 \in Nat
    BY <1>1, <2>1 DEF Request
  <2> HIDE DEF r
  <2>4. Ahead(s, updates, requests, downs)
    BY <1>1, GoodIsAhead
  <2>5. /\ Good(y, updates, requests, downs) /\ y.heard = s.heard
        /\ y.error = "none" => Settled(y)
    <3>1. CASE last.fc = "UNKNOWN"
      BY <1>1, <2>1, <2>3, <2>4, <3>1, OnUnknownObjectGood
    <3>2. CASE last.fc # "UNKNOWN"
      <4>1. Received(s, r, requests, requests) /\ r.fc # "UNKNOWN"
        BY <2>1, <2>2, <2>3, <3>2 DEF Received
      <4>2. requests \in {requests, requests + 1} /\ y = OnRequest(s, r)
        BY <3>2
      <4>3. QED
        BY <1>1, <2>1, <2>3, <2>4, <4>1, <4>2, OnRequestGood
    <3>3. QED
      BY <3>1, <3>2
  <2> HIDE DEF y
  <2>6. QED
    BY <1>1, <1>3, <2>1, <2>3, <2>5
<1>10. CASE ResponseSent
  <2>1. s.error = "none" /\ UNCHANGED Environment
    BY <1>10 DEF ResponseSent
  <2>2. CASE s.sol = "SendConfirmed" /\ s' = [s EXCEPT !.sol = "WaitForConfirm"]
    BY <1>1, <1>3, <2>1, <2>2, AwaitConfirmGood
  <2>3. CASE /\ s.sol \in {"Send", "WaitForConfirm"}
             /\ s' = OnSolSendSuccess([s EXCEPT !.sol = "Idle", !.solEvents = {},
                                                !.confirmed = @ \cup s.solEvents])
    <3> DEFINE w == [s EXCEPT !.sol = "Idle", !.solEvents = {}, !.confirmed = @ \cup s.solEvents]
    <3>1. s.solEvents \in SUBSET Nat
      BY <1>2 DEF Outstation
    <3>2. /\ SolEnded(w, updates, requests, downs) /\ w.heard = s.heard
          /\ SolSucceeded(w, downs)
      BY <1>1, <2>1, <2>3, <3>1, ChannelIdle
    <3>3. s' = OnSolSendSuccess(w)
      BY <2>3
    <3> HIDE DEF w
    <3>4. QED
      BY <1>1, <1>3, <2>1, <3>2, <3>3, OnSolSendSuccessGood
  <2>4. CASE /\ s.sol = "SendCanceled"
             /\ s' = OnSolFailure([s EXCEPT !.sol = "Idle", !.solEvents = {}])
    <3>1. s.sol # "Idle"
      BY <2>4
    <3>2. QED
      BY <1>1, <1>3, <2>1, <2>4, <3>1, ResponseFailedGood
  <2>5. QED
    BY <1>10, <2>2, <2>3, <2>4 DEF ResponseSent
<1>11. CASE ResponseFailed
  BY <1>1, <1>3, <1>11, ResponseFailedGood DEF ResponseFailed
<1>12. CASE UnsolConfirmed
  <2> DEFINE w == [s EXCEPT !.uns = "Idle", !.unsEvents = {}, !.confirmed = @ \cup s.unsEvents]
  <2>1. s.error = "none" /\ s.uns = "Busy" /\ UNCHANGED Environment /\ s' = OnUnsolSendSuccess(w)
    BY <1>12 DEF UnsolConfirmed
  <2>2. s.unsEvents \in SUBSET Nat
    BY <1>2 DEF Outstation
  <2>3. /\ UnsolEnded(w, updates, requests, downs) /\ w.heard = s.heard
        /\ UnsolSucceeded(w, downs)
    BY <1>1, <2>1, <2>2, UnsolChannelIdle
  <2> HIDE DEF w
  <2>4. QED
    BY <1>1, <1>3, <2>1, <2>3, OnUnsolSendSuccessGood
<1>13. CASE UnsolFailed
  <2> DEFINE w == [s EXCEPT !.uns = "Idle", !.unsEvents = {}, !.confirmed = @ \cup {}]
  <2>1. /\ s.error = "none" /\ s.uns = "Busy" /\ UNCHANGED Environment
        /\ s' = OnUnsolFailure([s EXCEPT !.uns = "Idle", !.unsEvents = {}])
    BY <1>13 DEF UnsolFailed
  <2>2. w = [s EXCEPT !.uns = "Idle", !.unsEvents = {}]
    BY <1>2, ConfirmsNothing
  <2>3. UnsolEnded(w, updates, requests, downs) /\ w.heard = s.heard
    BY <1>1, <2>1, UnsolChannelIdle
  <2> HIDE DEF w
  <2>4. QED
    BY <1>1, <1>3, <2>1, <2>2, <2>3, OnUnsolFailureGood
<1>14. CASE TimerExpires
  BY <1>1, <1>3, <1>14, OnUnsolTimerExpirationGood DEF TimerExpires
<1>15. CASE UNCHANGED vars
  <2>1. /\ s' = s /\ config' = config /\ last' = last /\ updates' = updates
        /\ requests' = requests /\ downs' = downs /\ posted' = posted /\ repeats' = repeats
    BY <1>15 DEF vars
  <2>2. Good(s, updates, requests, downs)'
    BY <1>1, <2>1, GoodNext
  <2>3. (s.error = "none" => Settled(s) /\ s.heard = last.id)'
    BY <1>1, <2>1 DEF Settled
  <2>4. QED
    BY <1>1, <2>1, <2>2, <2>3 DEF Inv
<1>16. QED
  BY <1>4, <1>5, <1>6, <1>7, <1>8, <1>9, <1>10, <1>11, <1>12, <1>13, <1>14, <1>15
     DEF Next, Outcome, UnsolOutcome

\* The invariant holds throughout.
LEMMA InvAlways == Spec => []Inv
BY InvInit, InvNext, PTL DEF Spec

---------------------------------------------------------------------------
(* A second invariant: a request that is answered as done was done, unless *)
(* its repetition overwrote it. Most handlers leave the fields alone that  *)
(* it is about, so it has lemmas of its own, which need no more of a       *)
(* record than that it has its fields.                                     *)

History == {"request", "deferredRequest", "deferredUpdate", "executed", "acknowledged",
            "overwritten"}
Quiet == History \cup {"uns"}
DoRequestKeeps == {"request", "deferredRequest", "deferredUpdate", "overwritten", "uns"}

Complete(x) == Fields \subseteq DOMAIN x

\* y is a record like x, with the same fields F.
Keeps(x, y, F) == Complete(x) => Complete(y) /\ \A f \in F : y[f] = x[f]

LEMMA KeepsTrans ==
  ASSUME NEW x, NEW y, NEW z, NEW F, Keeps(x, y, F), Keeps(y, z, F)
  PROVE  Keeps(x, z, F)
BY DEF Keeps

LEMMA QuietIsHistory ==
  ASSUME NEW x, NEW y, Keeps(x, y, Quiet)
  PROVE  Keeps(x, y, History)
BY DEF Keeps, Quiet

\* The operators of ResponseContext and what is asked of the application layer
LEMMA QuietOperators ==
  ASSUME NEW x
  PROVE  /\ \A w \in Errors : Keeps(x, Fail(x, w), Quiet)
         /\ Keeps(x, Reset(x), Quiet)
         /\ Keeps(x, ClearWritten(x), Quiet)
         /\ \A r \in Request : Keeps(x, Configure(x, r.read), Quiet)
         /\ Keeps(x, SendFragment(x), Quiet)
         /\ Keeps(x, Respond(x), Quiet)
         /\ Keeps(x, StartUnsolTimer(x), Quiet)
         /\ Keeps(x, FlushUpdates(x), Quiet)
         /\ \A n \in Nat : Keeps(x, SendUnsolicited(x, n), History)
<1> USE DEF Keeps, Complete, Fields, Quiet, History
<1>1. ASSUME NEW y, NEW w
      PROVE  Keeps(y, Fail(y, w), Quiet)
  BY DEF Fail
<1>2. ASSUME NEW y
      PROVE  Keeps(y, Deselect(y), Quiet)
  BY DEF Deselect
<1>3. ASSUME NEW y
      PROVE  Keeps(y, Reset(y), Quiet)
  <2> DEFINE z == [y EXCEPT !.fir = TRUE, !.loaded = FALSE, !.static = 0, !.queue = <<>>]
  <2>1. Keeps(y, z, Quiet)
    OBVIOUS
  <2>2. Reset(y) = Deselect(z)
    BY DEF Reset
  <2> HIDE DEF z
  <2> HIDE DEF Keeps
  <2>3. QED
    BY <1>2, <2>1, <2>2, KeepsTrans
<1>4. Keeps(x, ClearWritten(x), Quiet)
  <2> DEFINE z == [x EXCEPT !.erased = @ \cup ToSet(SubSeq(x.selected, 1, x.written)),
                            !.selected = SubSeq(@, x.written + 1, Len(@))]
  <2>1. Keeps(x, z, Quiet)
    OBVIOUS
  <2>2. ClearWritten(x) = Deselect(z)
    BY DEF ClearWritten
  <2> HIDE DEF z
  <2> HIDE DEF Keeps
  <2>3. QED
    BY <1>2, <2>1, <2>2, KeepsTrans
<1>5. ASSUME NEW y, NEW n
      PROVE  Keeps(y, SelectEvents(y, n), Quiet)
  BY DEF SelectEvents
<1>6. ASSUME NEW read
      PROVE  Keeps(x, Configure(x, read), Quiet)
  <2> DEFINE z == SelectEvents(Reset(x), read.events)
  <2>1. Keeps(x, z, Quiet)
    <3> HIDE DEF Keeps
    <3>1. QED
      BY <1>3, <1>5, KeepsTrans
  <2>2. Configure(x, read) = [z EXCEPT !.static = read.static]
    BY DEF Configure
  <2> HIDE DEF z
  <2>3. QED
    BY <2>1, <2>2
<1>7. ASSUME NEW y, NEW load
      PROVE  Keeps(y, Load(y, load), Quiet)
  BY DEF Load
<1>8. ASSUME NEW y, NEW fir, NEW confirm, NEW events
      PROVE  Keeps(y, SendResponse(y, fir, confirm, events), Quiet)
  BY <1>1 DEF SendResponse
<1>9. Keeps(x, SendFragment(x), Quiet)
  <2> DEFINE load == LoadEvents(x)
             y == Load(x, load)
             objects == IF load.full THEN 0 ELSE Min({x.static, load.room})
             fin == ~load.full /\ objects = x.static
             z == [y EXCEPT !.static = @ - objects, !.fir = FALSE, !.loaded = FALSE]
  <2>1. Keeps(x, y, Quiet)
    BY <1>7
  <2>2. SendFragment(x) = SendResponse(z, x.fir, ~fin \/ y.loaded, LoadedEvents(x, load))
    BY DEF SendFragment
  <2> HIDE DEF load, y, objects, fin
  <2>3. Keeps(y, z, Quiet)
    OBVIOUS
  <2> HIDE DEF z
  <2> HIDE DEF Keeps
  <2>4. QED
    BY <1>8, <2>1, <2>2, <2>3, KeepsTrans
<1>10. Keeps(x, Respond(x), Quiet)
  <2> HIDE DEF Keeps
  <2>1. QED
    BY <1>8 DEF Respond
<1>11. Keeps(x, StartUnsolTimer(x), Quiet)
  <2>1. CASE x.timer
    BY <1>1, <2>1 DEF StartUnsolTimer
  <2>2. CASE ~x.timer
    <3>1. StartUnsolTimer(x) = [x EXCEPT !.timer = TRUE, !.armed = x.armed + 1]
      BY <2>2 DEF StartUnsolTimer
    <3>2. QED
      BY <3>1
  <2>3. QED
    BY <2>1, <2>2
<1>12. Keeps(x, FlushUpdates(x), Quiet)
  BY DEF FlushUpdates
<1>13. ASSUME NEW n
       PROVE  Keeps(x, SendUnsolicited(x, n), History)
  <2> DEFINE w == [x EXCEPT !.state = "WaitForUnsolSuccess"]
             y == SelectEvents(w, n)
             load == LoadEvents(y)
             z == Load(y, load)
  <2>1. Keeps(x, w, Quiet)
    OBVIOUS
  <2>2. Keeps(x, z, Quiet)
    <3> HIDE DEF Keeps
    <3>1. QED
      BY <1>5, <1>7, <2>1, KeepsTrans
  <2>3. SendUnsolicited(x, n) = IF x.uns # "Idle" THEN Fail(x, "busy")
                                ELSE [z EXCEPT !.uns = "Busy", !.unsEvents = LoadedEvents(y, load)]
    BY DEF SendUnsolicited
  <2> HIDE DEF w, y, load, z
  <2>4. CASE x.uns # "Idle"
    BY <1>1, <2>3, <2>4
  <2>5. CASE x.uns = "Idle"
    BY <2>2, <2>3, <2>5
  <2>6. QED
    BY <2>4, <2>5
<1> HIDE DEF Keeps
<1>14. QED
  BY <1>1, <1>3, <1>4, <1>6, <1>9, <1>10, <1>11, <1>12, <1>13

\* The handlers of AS_Idle, and what ends an unsolicited response
LEMMA IdleOperators ==
  ASSUME NEW x, SlaveAssumption
  PROVE  /\ Keeps(x, IdleOnDataUpdate(x), History)
         /\ Keeps(x, IdleOnUnsolExpiration(x), History)
         /\ Keeps(x, DoUnsolSuccess(x), Quiet)
         /\ Complete(x) /\ ~config.packDelayZero => IdleOnDataUpdate(x).state = x.state
<1>1. Everything \in Nat
  BY DEF SlaveAssumption
<1>2. Keeps(x, x, History)
  BY DEF Keeps
<1>3. Keeps(x, IdleOnDataUpdate(x), History)
  <2> DEFINE y == FlushUpdates(x)
  <2>1. Keeps(x, y, History)
    BY QuietOperators, QuietIsHistory
  <2>2. IdleOnDataUpdate(x) \in {y, SendUnsolicited(y, Everything), StartUnsolTimer(y)}
    BY DEF IdleOnDataUpdate
  <2> HIDE DEF y
  <2>3. Keeps(y, SendUnsolicited(y, Everything), History) /\ Keeps(y, StartUnsolTimer(y), History)
    BY <1>1, QuietOperators, QuietIsHistory
  <2>4. QED
    BY <2>1, <2>2, <2>3, KeepsTrans
<1>4. Keeps(x, IdleOnUnsolExpiration(x), History)
  <2>1. IdleOnUnsolExpiration(x) \in {SendUnsolicited(x, 0), SendUnsolicited(x, Everything), x}
    BY DEF IdleOnUnsolExpiration
  <2>2. 0 \in Nat
    OBVIOUS
  <2>3. QED
    BY <1>1, <1>2, <2>1, <2>2, QuietOperators
<1>5. Keeps(x, DoUnsolSuccess(x), Quiet)
  <2> DEFINE y == [x EXCEPT !.nullUnsol = TRUE, !.deferredUnsol = TRUE]
  <2>1. Keeps(x, y, Quiet)
    BY DEF Keeps, Complete, Fields, Quiet, History
  <2>2. DoUnsolSuccess(x) = Reset(ClearWritten(y))
    BY DEF DoUnsolSuccess
  <2> HIDE DEF y
  <2>3. Keeps(y, ClearWritten(y), Quiet)
    BY QuietOperators
  <2>4. Keeps(ClearWritten(y), Reset(ClearWritten(y)), Quiet)
    BY QuietOperators
  <2>5. QED
    BY <2>1, <2>2, <2>3, <2>4, KeepsTrans
<1>6. Complete(x) /\ ~config.packDelayZero => IdleOnDataUpdate(x).state = x.state
  <2> SUFFICES ASSUME Complete(x), ~config.packDelayZero
               PROVE  IdleOnDataUpdate(x).state = x.state
    OBVIOUS
  <2> DEFINE y == FlushUpdates(x)
  <2>1. Complete(y) /\ y.state = x.state
    BY DEF FlushUpdates, Complete, Fields
  <2>2. IdleOnDataUpdate(x) \in {y, StartUnsolTimer(y)}
    BY DEF IdleOnDataUpdate
  <2> HIDE DEF y
  <2>3. StartUnsolTimer(y).state = y.state
    BY <2>1 DEF StartUnsolTimer, Fail, Complete, Fields
  <2>4. QED
    BY <2>1, <2>2, <2>3
<1>7. QED
  BY <1>3, <1>4, <1>5, <1>6

---------------------------------------------------------------------------
(* The history of requests *)

Done(x) == ToSet(x.executed) \cup x.overwritten

\* What was answered as done was done or overwritten, and so was a deferred repetition; the last
\* request l was done, or waits.
Honest(x, l) ==
  /\ Complete(x) /\ x.executed \in Numbers
  /\ x.request \in Request /\ x.request.fc # "UNKNOWN"
  /\ x.acknowledged \subseteq Done(x)
  /\ x.deferredRequest /\ x.request.prev /\ x.request.fc = "WRITE" => x.request.id \in Done(x)
  /\ l.fc = "WRITE" /\ l.id # 0 => l.id \in Done(x) \/ (x.deferredRequest /\ x.request = l)

LEMMA HonestFrame ==
  ASSUME NEW x, NEW y, NEW l, Honest(x, l), Keeps(x, y, History)
  PROVE  Honest(y, l)
<1>1. /\ Complete(y) /\ y.executed = x.executed /\ y.request = x.request
      /\ y.acknowledged = x.acknowledged /\ y.overwritten = x.overwritten
      /\ y.deferredRequest = x.deferredRequest
  BY DEF Honest, Keeps, History
<1>2. QED
  BY <1>1 DEF Honest, Done

\* What a request adds to the history
LEMMA DoRequestHistory ==
  ASSUME NEW x, NEW next, NEW r \in Request, r.fc # "UNKNOWN", Complete(x),
         NEW y, y = DoRequest(x, next, r)
  PROVE  /\ Keeps(x, y, DoRequestKeeps)
         /\ r.fc # "WRITE" => Keeps(x, y, Quiet)
         /\ r.fc = "WRITE" =>
              /\ y.executed = IF r.prev THEN x.executed ELSE Append(x.executed, r.id)
              /\ y.acknowledged = x.acknowledged \cup {r.id}
<1> DEFINE w == [x EXCEPT !.state = next, !.answered = <<r.id, x.heard>>]
<1>1. Keeps(x, w, Quiet)
  BY DEF Keeps, Complete, Fields, Quiet, History
<1>2. r.fc \in {"READ", "WRITE", "NO_ACK", "ENABLE", "DISABLE"}
  BY DEF Request, Functions
<1>3. CASE r.fc = "READ"
  <2>1. y = SendFragment(Configure(w, r.read))
    BY <1>3 DEF DoRequest
  <2> HIDE DEF w
  <2> DEFINE c == Configure(w, r.read)
  <2>4. Keeps(w, c, Quiet)
    BY QuietOperators
  <2> HIDE DEF c
  <2>5. Keeps(c, SendFragment(c), Quiet)
    BY QuietOperators
  <2>2. Keeps(x, y, Quiet)
    BY <1>1, <2>1, <2>4, <2>5, KeepsTrans DEF c
  <2>3. QED
    BY <1>3, <2>2 DEF Keeps, Quiet, History, DoRequestKeeps
<1>4. CASE r.fc = "WRITE"
  <2> DEFINE e == IF r.prev THEN w.executed ELSE Append(w.executed, r.id)
             k == w.acknowledged \cup {r.id}
             z == [w EXCEPT !.executed = e, !.acknowledged = k]
  <2>1. y = Respond(z)
    BY <1>4 DEF DoRequest
  <2>2. w.executed = x.executed /\ w.acknowledged = x.acknowledged /\ Complete(w)
    BY <1>1 DEF Keeps, Quiet, History
  <2> HIDE DEF w
  <2>3. Keeps(w, z, DoRequestKeeps) /\ z.executed = e /\ z.acknowledged = k /\ Complete(z)
    BY <2>2 DEF Keeps, Complete, Fields, DoRequestKeeps
  <2>4. /\ e = IF r.prev THEN x.executed ELSE Append(x.executed, r.id)
        /\ k = x.acknowledged \cup {r.id}
    BY <2>2
  <2> HIDE DEF e, k, z
  <2>5. Keeps(z, y, Quiet)
    BY <2>1, QuietOperators
  <2>6. QED
    BY <1>1, <1>4, <2>3, <2>4, <2>5 DEF Keeps, Quiet, History, DoRequestKeeps
<1>5. CASE r.fc = "NO_ACK"
  <2>1. y = x
    BY <1>5 DEF DoRequest
  <2>2. QED
    BY <1>5, <2>1 DEF Keeps
<1>6. CASE r.fc \in {"ENABLE", "DISABLE"}
  <2>1. PICK z \in {w, [w EXCEPT !.deferredUnsol = TRUE, !.mask = TRUE],
                    [w EXCEPT !.mask = w.mask /\ config.disableUnsol]} : y = Respond(z)
    <3>1. CASE r.fc = "ENABLE"
      BY <3>1 DEF DoRequest
    <3>2. CASE r.fc = "DISABLE"
      BY <3>2 DEF DoRequest
    <3>3. QED
      BY <1>6, <3>1, <3>2
  <2> HIDE DEF w
  <2>2. Keeps(w, z, Quiet)
    <3>1. Keeps(w, w, Quiet) /\ Keeps(w, [w EXCEPT !.deferredUnsol = TRUE, !.mask = TRUE], Quiet)
      BY DEF Keeps, Complete, Fields, Quiet, History
    <3> DEFINE m == w.mask /\ config.disableUnsol
    <3>2. Keeps(w, [w EXCEPT !.mask = m], Quiet)
      <4> HIDE DEF m
      <4>1. QED
        BY DEF Keeps, Complete, Fields, Quiet, History
    <3>3. QED
      BY <3>1, <3>2
  <2>5. Keeps(z, y, Quiet)
    BY <2>1, QuietOperators
  <2>3. Keeps(x, y, Quiet)
    BY <1>1, <2>2, <2>5, KeepsTrans
  <2>4. QED
    BY <1>6, <2>3 DEF Keeps, Quiet, History, DoRequestKeeps
<1>7. QED
  BY <1>2, <1>3, <1>4, <1>5, <1>6

\* A request that is handled is done, provided that a repetition is not the first that is handled.
LEMMA DoRequestHonest ==
  ASSUME NEW x, NEW next, NEW r \in Request, NEW l, r.fc # "UNKNOWN", Honest(x, l),
         r.fc = "WRITE" /\ r.prev => r.id \in Done(x),
         NEW y, y = DoRequest(x, next, r)
  PROVE  /\ Honest(y, l)
         /\ r.fc = "WRITE" => r.id \in Done(y)
         /\ y.deferredRequest = x.deferredRequest
         /\ Done(x) \subseteq Done(y)
<1>1. /\ Complete(x) /\ Complete(y)
      /\ y.request = x.request /\ y.deferredRequest = x.deferredRequest
      /\ y.overwritten = x.overwritten
  BY DoRequestHistory DEF Honest, Keeps, DoRequestKeeps
<1>2. CASE r.fc # "WRITE"
  <2>1. Keeps(x, y, History)
    BY <1>1, <1>2, DoRequestHistory, QuietIsHistory
  <2>2. Honest(y, l)
    BY <2>1, HonestFrame
  <2>3. Done(x) = Done(y)
    BY <1>1, <2>1 DEF Keeps, History, Done
  <2>4. QED
    BY <1>1, <1>2, <2>2, <2>3
<1>3. CASE r.fc = "WRITE"
  <2>1. /\ y.executed = IF r.prev THEN x.executed ELSE Append(x.executed, r.id)
        /\ y.acknowledged = x.acknowledged \cup {r.id}
    BY <1>1, <1>3, DoRequestHistory
  <2>2. x.executed \in Numbers /\ r.id \in Nat
    BY DEF Honest, Request
  <2>3. y.executed \in Numbers /\ ToSet(y.executed) = ToSet(x.executed) \cup (IF r.prev THEN {} ELSE {r.id})
    <3>1. CASE r.prev
      BY <2>1, <2>2, <3>1
    <3>2. CASE ~r.prev
      <4>1. y.executed = Append(x.executed, r.id)
        BY <2>1, <3>2
      <4>2. DOMAIN Append(x.executed, r.id) = (DOMAIN x.executed) \cup {Len(x.executed) + 1}
        BY <2>2 DEF Numbers
      <4>3. /\ \A i \in DOMAIN x.executed : Append(x.executed, r.id)[i] = x.executed[i]
            /\ Append(x.executed, r.id)[Len(x.executed) + 1] = r.id
        BY <2>2 DEF Numbers
      <4>4. ToSet(Append(x.executed, r.id)) = ToSet(x.executed) \cup {r.id}
        BY <4>2, <4>3 DEF ToSet
      <4>5. Append(x.executed, r.id) \in Numbers
        BY <2>2 DEF Numbers
      <4>6. QED
        BY <3>2, <4>1, <4>4, <4>5
    <3>3. QED
      BY <3>1, <3>2
  <2>4. Done(x) \subseteq Done(y) /\ r.id \in Done(y)
    BY <1>1, <1>3, <2>3 DEF Done
  <2>5. Honest(y, l)
    BY <1>1, <2>1, <2>3, <2>4 DEF Honest
  <2>6. QED
    BY <1>1, <2>4, <2>5
<1>4. QED
  BY <1>2, <1>3

\* Whatever is deferred is handled (Slave::FlushDeferredEvents).
LEMMA FlushHonest ==
  ASSUME NEW x, NEW l \in Request, ~l.prev, Honest(x, l), SlaveAssumption
  PROVE  Honest(FlushDeferredEvents(x), l)
<1> DEFINE y == FlushUpdate(x)
           z == FlushRequest(y)
<1>1. FlushDeferredEvents(x) = FlushUnsol(z)
  BY DEF FlushDeferredEvents
<1>2. Honest(y, l)
  <2>1. CASE x.state = "Idle" /\ x.deferredUpdate
    <3> DEFINE w == [x EXCEPT !.deferredUpdate = FALSE]
    <3>1. y = IdleOnDataUpdate(w)
      BY <2>1 DEF FlushUpdate
    <3>2. Honest(w, l)
      <4>1. /\ Complete(w) /\ w.executed = x.executed /\ w.request = x.request
            /\ w.acknowledged = x.acknowledged /\ w.overwritten = x.overwritten
            /\ w.deferredRequest = x.deferredRequest
        BY DEF Honest, Complete, Fields
      <4> HIDE DEF w
      <4>2. QED
        BY <4>1 DEF Honest, Done
    <3> HIDE DEF w, y
    <3>3. QED
      BY <3>1, <3>2, IdleOperators, HonestFrame
  <2>2. CASE ~(x.state = "Idle" /\ x.deferredUpdate)
    BY <2>2 DEF FlushUpdate
  <2>3. QED
    BY <2>1, <2>2
<1> HIDE DEF y
<1>3. Honest(z, l)
  <2>1. CASE y.state = "Idle" /\ y.deferredRequest
    <3> DEFINE w == [y EXCEPT !.deferredRequest = FALSE]
               r == y.request
    <3>1. z = DoRequest(w, "WaitForRspSuccess", r)
      BY <2>1 DEF FlushRequest, IdleOnRequest
    <3>2. /\ Complete(w) /\ w.executed = y.executed /\ w.request = y.request
          /\ w.acknowledged = y.acknowledged /\ w.overwritten = y.overwritten
          /\ w.deferredRequest = FALSE
      BY <1>2 DEF Honest, Complete, Fields
    <3> HIDE DEF w, z
    <3>3. Honest(w, NoRequest) /\ Done(w) = Done(y)
      BY <1>2, <3>2 DEF Honest, Done, NoRequest
    <3>4. r \in Request /\ r.fc # "UNKNOWN" /\ (r.fc = "WRITE" /\ r.prev => r.id \in Done(w))
      BY <1>2, <2>1, <3>3 DEF Honest
    <3>5. Honest(z, NoRequest) /\ (r.fc = "WRITE" => r.id \in Done(z))
      BY <3>1, <3>3, <3>4, DoRequestHonest
    <3>6. Done(w) \subseteq Done(z)
      BY <3>1, <3>3, <3>4, DoRequestHonest
    <3>7. l.fc = "WRITE" /\ l.id # 0 => l.id \in Done(z)
      BY <1>2, <3>3, <3>5, <3>6 DEF Honest
    <3>8. QED
      BY <3>5, <3>7 DEF Honest
  <2>2. CASE ~(y.state = "Idle" /\ y.deferredRequest)
    BY <1>2, <2>2 DEF FlushRequest
  <2>3. QED
    BY <2>1, <2>2
<1> HIDE DEF z
<1>4. Honest(FlushUnsol(z), l)
  <2>1. CASE z.state = "Idle" /\ z.deferredUnsol
    <3> DEFINE w == [z EXCEPT !.deferredUnsol = FALSE]
    <3>1. FlushUnsol(z) = IdleOnUnsolExpiration(w)
      BY <2>1 DEF FlushUnsol
    <3>2. Keeps(z, w, History)
      BY DEF Keeps, Complete, Fields, History
    <3> HIDE DEF w
    <3>3. QED
      BY <1>3, <3>1, <3>2, IdleOperators, HonestFrame
  <2>2. CASE ~(z.state = "Idle" /\ z.deferredUnsol)
    BY <1>3, <2>2 DEF FlushUnsol
  <2>3. QED
    BY <2>1, <2>2
<1>5. QED
  BY <1>1, <1>4

\* A handler that changes the state and then flushes what is deferred
LEMMA HonestThenFlush ==
  ASSUME NEW x, NEW y, NEW l \in Request, ~l.prev, Honest(x, l), SlaveAssumption, Keeps(x, y, History)
  PROVE  Honest(FlushDeferredEvents(y), l)
BY HonestFrame, FlushHonest

\* What the callbacks of the application layer, the updates and the timer do to a record x before
\* they flush
AfterSolSendSuccess(x) ==
  CASE x.state = "WaitForRspSuccess" ->
         LET y == ClearWritten(x) IN
         IF IsComplete(y) THEN [y EXCEPT !.state = "Idle"] ELSE SendFragment(y)
    [] x.state = "WaitForSolUnsolSuccess" -> [x EXCEPT !.state = "WaitForUnsolSuccess"]
    [] OTHER -> Fail(x, "state")

AfterSolFailure(x) ==
  CASE x.state = "WaitForRspSuccess" -> Reset([x EXCEPT !.state = "Idle"])
    [] x.state = "WaitForSolUnsolSuccess" -> [x EXCEPT !.state = "WaitForUnsolSuccess"]
    [] OTHER -> Fail(x, "state")

AfterUnsolSendSuccess(x) ==
  CASE x.state = "WaitForUnsolSuccess" -> DoUnsolSuccess([x EXCEPT !.state = "Idle"])
    [] x.state = "WaitForSolUnsolSuccess" -> DoUnsolSuccess([x EXCEPT !.state = "WaitForRspSuccess"])
    [] OTHER -> Fail(x, "state")

AfterUnsolFailure(x) ==
  CASE x.state = "WaitForUnsolSuccess" -> StartUnsolTimer(Reset([x EXCEPT !.state = "Idle"]))
    [] x.state = "WaitForSolUnsolSuccess" ->
         LET y == Reset([x EXCEPT !.state = "WaitForRspSuccess"]) IN
         IF config.retryDelayZero THEN [y EXCEPT !.timer = FALSE, !.deferredUnsol = TRUE]
                                  ELSE StartUnsolTimer(y)
    [] OTHER -> Fail(x, "state")

AfterUnknownObject(x) ==
  IF x.state = "Idle" THEN Respond([x EXCEPT !.state = "WaitForRspSuccess"])
                      ELSE [x EXCEPT !.deferredUnknown = TRUE]

AfterUnsolTimer(x) ==
  LET y == [x EXCEPT !.timer = FALSE] IN
  IF x.state = "Idle" THEN IdleOnUnsolExpiration(y) ELSE [y EXCEPT !.deferredUnsol = TRUE]

LEMMA HandlersFlush ==
  ASSUME NEW x
  PROVE  /\ OnSolSendSuccess(x) = FlushDeferredEvents(AfterSolSendSuccess(x))
         /\ OnSolFailure(x) = FlushDeferredEvents(AfterSolFailure(x))
         /\ OnUnsolSendSuccess(x) = FlushDeferredEvents(AfterUnsolSendSuccess(x))
         /\ OnUnsolFailure(x) = FlushDeferredEvents(AfterUnsolFailure(x))
         /\ OnUnknownObject(x) = FlushDeferredEvents(AfterUnknownObject(x))
         /\ OnUnsolTimerExpiration(x) = FlushDeferredEvents(AfterUnsolTimer(x))
<1>1. OnSolSendSuccess(x) = FlushDeferredEvents(AfterSolSendSuccess(x))
  BY DEF OnSolSendSuccess, AfterSolSendSuccess
<1>2. OnSolFailure(x) = FlushDeferredEvents(AfterSolFailure(x))
  BY DEF OnSolFailure, AfterSolFailure
<1>3. OnUnsolSendSuccess(x) = FlushDeferredEvents(AfterUnsolSendSuccess(x))
  BY DEF OnUnsolSendSuccess, AfterUnsolSendSuccess
<1>4. OnUnsolFailure(x) = FlushDeferredEvents(AfterUnsolFailure(x))
  BY DEF OnUnsolFailure, AfterUnsolFailure
<1>5. OnUnknownObject(x) = FlushDeferredEvents(AfterUnknownObject(x))
  BY DEF OnUnknownObject, AfterUnknownObject
<1>6. OnUnsolTimerExpiration(x) = FlushDeferredEvents(AfterUnsolTimer(x))
  BY DEF OnUnsolTimerExpiration, AfterUnsolTimer
<1>7. QED
  BY <1>1, <1>2, <1>3, <1>4, <1>5, <1>6

\* They leave the history alone, and the unsolicited channel but for the timer's.
LEMMA HandlersKeep ==
  ASSUME NEW x, SlaveAssumption
  PROVE  /\ Keeps(x, AfterSolSendSuccess(x), Quiet)
         /\ Keeps(x, AfterSolFailure(x), Quiet)
         /\ Keeps(x, AfterUnsolSendSuccess(x), Quiet)
         /\ Keeps(x, AfterUnsolFailure(x), Quiet)
         /\ Keeps(x, AfterUnknownObject(x), Quiet)
         /\ Keeps(x, AfterUnsolTimer(x), History)
         /\ x.state # "Idle" => Keeps(x, AfterUnsolTimer(x), Quiet)
<1>1. ASSUME NEW y, NEW state
      PROVE  Keeps(y, [y EXCEPT !.state = state], Quiet)
  BY DEF Keeps, Complete, Fields, Quiet, History
<1>2. Keeps(x, Fail(x, "state"), Quiet)
  BY QuietOperators DEF Errors
<1>3. Keeps(x, AfterSolSendSuccess(x), Quiet)
  <2> DEFINE y == ClearWritten(x)
  <2>1. AfterSolSendSuccess(x) \in {[y EXCEPT !.state = "Idle"], SendFragment(y),
                                    [x EXCEPT !.state = "WaitForUnsolSuccess"], Fail(x, "state")}
    BY DEF AfterSolSendSuccess
  <2>2. Keeps(x, y, Quiet)
    BY QuietOperators
  <2> HIDE DEF y
  <2>3. Keeps(y, SendFragment(y), Quiet) /\ Keeps(y, [y EXCEPT !.state = "Idle"], Quiet)
    BY <1>1, QuietOperators
  <2>4. QED
    BY <1>1, <1>2, <2>1, <2>2, <2>3, KeepsTrans
<1>4. Keeps(x, AfterSolFailure(x), Quiet)
  <2> DEFINE y == [x EXCEPT !.state = "Idle"]
  <2>1. AfterSolFailure(x) \in {Reset(y), [x EXCEPT !.state = "WaitForUnsolSuccess"], Fail(x, "state")}
    BY DEF AfterSolFailure
  <2>2. Keeps(x, y, Quiet)
    BY <1>1
  <2> HIDE DEF y
  <2>3. Keeps(y, Reset(y), Quiet)
    BY QuietOperators
  <2>4. QED
    BY <1>1, <1>2, <2>1, <2>2, <2>3, KeepsTrans
<1>5. Keeps(x, AfterUnsolSendSuccess(x), Quiet)
  <2>1. PICK y \in {[x EXCEPT !.state = "Idle"], [x EXCEPT !.state = "WaitForRspSuccess"]} :
          AfterUnsolSendSuccess(x) \in {DoUnsolSuccess(y), Fail(x, "state")}
    BY DEF AfterUnsolSendSuccess
  <2>2. Keeps(x, y, Quiet)
    BY <1>1, <2>1
  <2>3. Keeps(y, DoUnsolSuccess(y), Quiet)
    BY IdleOperators
  <2>4. QED
    BY <1>2, <2>1, <2>2, <2>3, KeepsTrans
<1>6. Keeps(x, AfterUnsolFailure(x), Quiet)
  <2>1. PICK w \in {[x EXCEPT !.state = "Idle"], [x EXCEPT !.state = "WaitForRspSuccess"]} :
          AfterUnsolFailure(x) \in {StartUnsolTimer(Reset(w)), Fail(x, "state"),
                                    [Reset(w) EXCEPT !.timer = FALSE, !.deferredUnsol = TRUE]}
    BY DEF AfterUnsolFailure
  <2> DEFINE y == Reset(w)
  <2>2. Keeps(x, w, Quiet)
    BY <1>1, <2>1
  <2>3. Keeps(w, y, Quiet)
    BY QuietOperators
  <2> HIDE DEF y
  <2>4. Keeps(y, StartUnsolTimer(y), Quiet)
    BY QuietOperators
  <2>5. Keeps(y, [y EXCEPT !.timer = FALSE, !.deferredUnsol = TRUE], Quiet)
    BY DEF Keeps, Complete, Fields, Quiet, History
  <2>6. AfterUnsolFailure(x) \in {StartUnsolTimer(y), Fail(x, "state"),
                                  [y EXCEPT !.timer = FALSE, !.deferredUnsol = TRUE]}
    BY <2>1 DEF y
  <2>7. QED
    BY <1>2, <2>2, <2>3, <2>4, <2>5, <2>6, KeepsTrans
<1>7. Keeps(x, AfterUnknownObject(x), Quiet)
  <2> DEFINE y == [x EXCEPT !.state = "WaitForRspSuccess"]
  <2>1. AfterUnknownObject(x) \in {Respond(y), [x EXCEPT !.deferredUnknown = TRUE]}
    BY DEF AfterUnknownObject
  <2>2. Keeps(x, y, Quiet)
    BY <1>1
  <2> HIDE DEF y
  <2>3. Keeps(y, Respond(y), Quiet)
    BY QuietOperators
  <2>4. Keeps(x, [x EXCEPT !.deferredUnknown = TRUE], Quiet)
    BY DEF Keeps, Complete, Fields, Quiet, History
  <2>5. QED
    BY <2>1, <2>2, <2>3, <2>4, KeepsTrans
<1>8. /\ Keeps(x, AfterUnsolTimer(x), History)
      /\ x.state # "Idle" => Keeps(x, AfterUnsolTimer(x), Quiet)
  <2> DEFINE y == [x EXCEPT !.timer = FALSE]
  <2>1. AfterUnsolTimer(x) = IF x.state = "Idle" THEN IdleOnUnsolExpiration(y)
                                                 ELSE [y EXCEPT !.deferredUnsol = TRUE]
    BY DEF AfterUnsolTimer
  <2>2. Keeps(x, y, Quiet)
    BY DEF Keeps, Complete, Fields, Quiet, History
  <2> HIDE DEF y
  <2>3. Keeps(y, IdleOnUnsolExpiration(y), History)
    BY IdleOperators
  <2>4. Keeps(y, [y EXCEPT !.deferredUnsol = TRUE], Quiet)
    BY DEF Keeps, Complete, Fields, Quiet, History
  <2>5. CASE x.state = "Idle"
    BY <2>1, <2>2, <2>3, <2>5, KeepsTrans, QuietIsHistory
  <2>6. CASE x.state # "Idle"
    BY <2>1, <2>2, <2>4, <2>6, KeepsTrans, QuietIsHistory
  <2>7. QED
    BY <2>5, <2>6
<1>9. QED
  BY <1>3, <1>4, <1>5, <1>6, <1>7, <1>8

\* A response that is cancelled may fail at once.
LEMMA CancelHonest ==
  ASSUME NEW x, NEW l \in Request, ~l.prev, Honest(x, l), SlaveAssumption
  PROVE  Honest(CancelResponse(x), l)
<1>1. CASE x.sol = "WaitForConfirm"
  <2> DEFINE y == [x EXCEPT !.sol = "Idle", !.solEvents = {}]
  <2>1. Keeps(x, y, History)
    BY DEF Keeps, Complete, Fields, History
  <2>2. CancelResponse(x) = OnSolFailure(y)
    BY <1>1 DEF CancelResponse
  <2> HIDE DEF y
  <2>3. Honest(y, l)
    BY <2>1, HonestFrame
  <2>4. QED
    BY <2>2, <2>3, HandlersFlush, HandlersKeep, QuietIsHistory, HonestThenFlush
<1>2. CASE x.sol # "WaitForConfirm"
  <2>1. Keeps(x, [x EXCEPT !.sol = "SendCanceled"], History)
    BY DEF Keeps, Complete, Fields, History
  <2>2. QED
    BY <1>2, <2>1, HonestFrame DEF CancelResponse
<1>3. QED
  BY <1>1, <1>2

\* A request r arrives: it is the last one, l, or repeats it.
Arrives(x, r, l) ==
  /\ r \in Request /\ r.fc # "UNKNOWN" /\ r.id = l.id /\ r.fc = l.fc /\ l.id # 0
  /\ r = l \/ (r.prev /\ Honest(x, l))

\* A repetition overwrites a request that was not done, which is noted, or one that was.
LEMMA OverwriteHonest ==
  ASSUME NEW x, NEW r, NEW l \in Request, ~l.prev, Arrives(x, r, l), Honest(x, NoRequest),
         NEW o, o = Overwrite(x, r)
  PROVE  /\ Honest(o, NoRequest) /\ (r.fc = "WRITE" /\ r.prev => r.id \in Done(o))
<1> DEFINE e == IF /\ r.fc = "WRITE" /\ r.prev
                   /\ x.deferredRequest /\ ~x.request.prev /\ x.request.id = r.id
                THEN x.overwritten \cup {r.id} ELSE x.overwritten
<1>1. o = [x EXCEPT !.overwritten = e]
  BY DEF Overwrite
<1>2. x.overwritten \subseteq e
  OBVIOUS
<1>3. r.fc = "WRITE" /\ r.prev => r.id \in ToSet(x.executed) \cup e
  <2> SUFFICES ASSUME r.fc = "WRITE", r.prev
               PROVE  r.id \in ToSet(x.executed) \cup e
    OBVIOUS
  <2>1. Honest(x, l) /\ r.id = l.id /\ l.id # 0 /\ l.fc = "WRITE"
    BY DEF Arrives
  <2>2. CASE l.id \in Done(x)
    BY <1>2, <2>1, <2>2 DEF Done
  <2>3. CASE x.deferredRequest /\ x.request = l
    BY <2>1, <2>3
  <2>4. QED
    BY <2>1, <2>2, <2>3 DEF Honest
<1> HIDE DEF e
<1>4. /\ Complete(o) /\ o.executed = x.executed /\ o.request = x.request
      /\ o.acknowledged = x.acknowledged /\ o.overwritten = e
      /\ o.deferredRequest = x.deferredRequest
  BY <1>1 DEF Honest, Complete, Fields
<1>5. Honest(o, NoRequest)
  BY <1>2, <1>4 DEF Honest, Done, NoRequest
<1>6. QED
  BY <1>3, <1>4, <1>5 DEF Done

LEMMA DeferHonest ==
  ASSUME NEW x, NEW r, NEW l \in Request, ~l.prev, Arrives(x, r, l), Honest(x, NoRequest)
  PROVE  Honest(Defer(x, r), l)
<1>1. PICK o : o = Overwrite(x, r)
  OBVIOUS
<1>2. Honest(o, NoRequest) /\ (r.fc = "WRITE" /\ r.prev => r.id \in Done(o))
  BY <1>1, OverwriteHonest
<1>3. PICK y : y = [o EXCEPT !.request = r, !.deferredRequest = TRUE]
  OBVIOUS
<1>4. Defer(x, r) = y
  BY <1>1, <1>3 DEF Defer
<1>5. /\ Complete(y) /\ y.executed = o.executed /\ y.request = r
      /\ y.acknowledged = o.acknowledged /\ y.overwritten = o.overwritten
      /\ y.deferredRequest
  BY <1>2, <1>3 DEF Honest, Complete, Fields
<1>6. Done(y) = Done(o)
  BY <1>5 DEF Done
<1>7. l.fc = "WRITE" /\ l.id # 0 => l.id \in Done(y) \/ y.request = l
  BY <1>2, <1>5, <1>6 DEF Arrives
<1>8. QED
  BY <1>2, <1>4, <1>5, <1>6, <1>7 DEF Honest, Arrives

LEMMA OnRequestHonest ==
  ASSUME NEW x, NEW r, NEW l \in Request, ~l.prev, Arrives(x, r, l), Honest(x, NoRequest),
         x.state = "Idle" => ~x.deferredRequest, x.state \in States \ {"Closed"}, SlaveAssumption
  PROVE  Honest(OnRequest(x, r), l)
<1>1. PICK z : z = CASE x.state = "Idle" -> IdleOnRequest(x, r)
                     [] x.state = "WaitForRspSuccess" -> Defer(CancelResponse(x), r)
                     [] x.state = "WaitForUnsolSuccess" -> RequestWhileUnsol(x, r)
                     [] x.state = "WaitForSolUnsolSuccess" -> Defer(x, r)
                     [] OTHER -> Fail(x, "state")
  OBVIOUS
<1>2. OnRequest(x, r) = FlushDeferredEvents(z)
  BY <1>1 DEF OnRequest
<1>3. NoRequest \in Request /\ ~NoRequest.prev
  BY DEF NoRequest, Request, ReadRequest, NoObjects, Functions
<1>4. Honest(z, l)
  <2>1. CASE x.state = "Idle"
    <3>1. z = DoRequest(x, "WaitForRspSuccess", r)
      BY <1>1, <2>1 DEF IdleOnRequest
    <3>2. r.fc = "WRITE" /\ r.prev => r.id \in Done(x)
      BY <2>1 DEF Arrives, Honest
    <3>3. Honest(z, NoRequest) /\ (r.fc = "WRITE" => r.id \in Done(z))
      BY <3>1, <3>2, DoRequestHonest DEF Arrives
    <3>4. QED
      BY <3>3 DEF Honest, Arrives
  <2>2. CASE x.state = "WaitForRspSuccess"
    <3>1. PICK c : c = CancelResponse(x)
      OBVIOUS
    <3>2. Honest(c, NoRequest)
      BY <1>3, <3>1, CancelHonest
    <3>3. Arrives(c, r, l)
      BY <3>1, CancelHonest DEF Arrives
    <3>4. z = Defer(c, r)
      BY <1>1, <2>2, <3>1
    <3>5. QED
      BY <3>2, <3>3, <3>4, DeferHonest
  <2>3. CASE x.state = "WaitForUnsolSuccess" /\ r.fc # "READ"
    <3>1. PICK o : o = Overwrite(x, r)
      OBVIOUS
    <3>2. Honest(o, NoRequest) /\ (r.fc = "WRITE" /\ r.prev => r.id \in Done(o))
      BY <3>1, OverwriteHonest
    <3>3. PICK w : w = [o EXCEPT !.deferredRequest = FALSE]
      OBVIOUS
    <3>4. z = DoRequest(w, "WaitForSolUnsolSuccess", r)
      BY <1>1, <2>3, <3>1, <3>3 DEF RequestWhileUnsol
    <3>5. /\ Complete(w) /\ w.executed = o.executed /\ w.request = o.request
          /\ w.acknowledged = o.acknowledged /\ w.overwritten = o.overwritten
          /\ w.deferredRequest = FALSE
      BY <3>2, <3>3 DEF Honest, Complete, Fields
    <3>6. Honest(w, NoRequest) /\ Done(w) = Done(o)
      BY <3>2, <3>5 DEF Honest, Done, NoRequest
    <3>7. Honest(z, NoRequest) /\ (r.fc = "WRITE" => r.id \in Done(z))
      BY <3>2, <3>4, <3>6, DoRequestHonest DEF Arrives
    <3>8. QED
      BY <3>7 DEF Honest, Arrives
  <2>4. CASE x.state = "WaitForSolUnsolSuccess" \/ (x.state = "WaitForUnsolSuccess" /\ r.fc = "READ")
    <3>1. z = Defer(x, r)
      BY <1>1, <2>4 DEF RequestWhileUnsol
    <3>2. QED
      BY <3>1, DeferHonest
  <2>5. QED
    BY <2>1, <2>2, <2>3, <2>4 DEF States
<1>5. QED
  BY <1>2, <1>4, FlushHonest

LEMMA HonestNext ==
  ASSUME Inv, Honest(s, last), [Next]_vars
  PROVE  Honest(s', last')
<1>1. /\ last \in Request /\ ~last.prev /\ s.state \in States
      /\ s.error = "none" => Settled(s)
  BY DEF Inv, Good, Kept, Typed, Outstation
<1>2. CASE UNCHANGED vars
  BY <1>2 DEF vars, Honest, Done
<1>3. CASE OnLowerLayerUp
  <2> DEFINE x == [s EXCEPT !.state = "Idle"]
  <2>1. Keeps(s, x, History)
    BY DEF Keeps, Complete, Fields, History
  <2> HIDE DEF x
  <2>2. s' = FlushDeferredEvents(x) /\ last' = last
    BY <1>3 DEF OnLowerLayerUp, Environment, x
  <2>3. QED
    BY <1>1, <2>1, <2>2, HonestThenFlush, SlaveAssumption
<1>4. CASE OnLowerLayerDown
  <2>1. s' = [s EXCEPT !.state = "Closed", !.sol = "Idle", !.uns = "Idle", !.heard = 0,
                       !.solEvents = {}, !.unsEvents = {}]
    BY <1>4 DEF OnLowerLayerDown
  <2>2. Keeps(s, s', History)
    BY <2>1 DEF Keeps, Complete, Fields, History
  <2>3. Honest(s, NoRequest) /\ last' = NoRequest
    BY <1>4 DEF OnLowerLayerDown, Honest, NoRequest
  <2>4. QED
    BY <2>2, <2>3, HonestFrame
<1>5. CASE UpdatePoint
  <2> DEFINE c == s.changes \cup {updates + 1}
  <2>1. s' = [s EXCEPT !.changes = c] /\ last' = last
    BY <1>5 DEF UpdatePoint
  <2> HIDE DEF c
  <2>2. Keeps(s, s', History)
    BY <2>1 DEF Keeps, Complete, Fields, History
  <2>3. QED
    BY <2>1, <2>2, HonestFrame
<1>6. CASE RunDataUpdate
  <2> DEFINE y == CASE s.state = "Idle"   -> IdleOnDataUpdate(s)
                    [] s.state = "Closed" -> FlushUpdates(s)
                    [] OTHER              -> [s EXCEPT !.deferredUpdate = TRUE]
  <2>1. s' = FlushDeferredEvents(y) /\ last' = last
    BY <1>6 DEF RunDataUpdate, OnDataUpdate
  <2>2. y \in {IdleOnDataUpdate(s), FlushUpdates(s), [s EXCEPT !.deferredUpdate = TRUE]}
    OBVIOUS
  <2> HIDE DEF y
  <2>3. Honest([s EXCEPT !.deferredUpdate = TRUE], last)
    <3>1. PICK z : z = [s EXCEPT !.deferredUpdate = TRUE]
      OBVIOUS
    <3>2. /\ Complete(z) /\ z.executed = s.executed /\ z.request = s.request
          /\ z.acknowledged = s.acknowledged /\ z.overwritten = s.overwritten
          /\ z.deferredRequest = s.deferredRequest
      BY <3>1 DEF Honest, Complete, Fields
    <3>3. QED
      BY <3>1, <3>2 DEF Honest, Done
  <2>4. Honest(IdleOnDataUpdate(s), last) /\ Honest(FlushUpdates(s), last)
    BY IdleOperators, QuietOperators, QuietIsHistory, HonestFrame, SlaveAssumption
  <2>5. QED
    BY <1>1, <2>1, <2>2, <2>3, <2>4, FlushHonest, SlaveAssumption
\* A record that differs from the outstation in the channel below, and what it is given to
<1>7. ASSUME NEW x, Keeps(s, x, History), last' = last,
             \/ s' = OnSolSendSuccess(x) \/ s' = OnSolFailure(x)
             \/ s' = OnUnsolSendSuccess(x) \/ s' = OnUnsolFailure(x)
             \/ s' = OnUnknownObject(x) \/ s' = OnUnsolTimerExpiration(x)
      PROVE  Honest(s', last')
  <2>1. Honest(x, last)
    BY <1>7, HonestFrame
  <2>2. PICK y : s' = FlushDeferredEvents(y) /\ Keeps(x, y, History)
    BY <1>7, HandlersFlush, HandlersKeep, QuietIsHistory, SlaveAssumption
  <2>3. QED
    BY <1>1, <1>7, <2>1, <2>2, HonestThenFlush, SlaveAssumption
<1>8. CASE NewRequest
  <2>1. PICK fc \in Functions : \E read \in IF fc = "READ" THEN Reads ELSE {NoObjects} :
          /\ last' = [id |-> requests + 1, fc |-> fc, read |-> read, prev |-> FALSE]
          /\ LET x == [s EXCEPT !.heard = requests + 1]
             IN  s' = IF fc = "UNKNOWN" THEN OnUnknownObject(x) ELSE OnRequest(x, last')
    BY <1>8 DEF NewRequest
  <2>2. PICK x : x = [s EXCEPT !.heard = requests + 1]
    OBVIOUS
  <2>3. Keeps(s, x, History) /\ (Complete(s) => x.state = s.state)
    BY <2>2 DEF Keeps, Complete, Fields, History
  <2>4. /\ last' \in Request /\ ~last'.prev /\ last'.id # 0 /\ last'.fc = fc
        /\ s' = IF fc = "UNKNOWN" THEN OnUnknownObject(x) ELSE OnRequest(x, last')
    BY <2>1, <2>2, SlaveAssumption DEF Request, Inv, SlaveAssumption, NoObjects, ReadRequest
  <2>5. Honest(x, NoRequest)
    <3>1. Honest(s, NoRequest)
      BY DEF Honest, NoRequest
    <3>2. QED
      BY <2>3, <3>1, HonestFrame
  <2>6. CASE fc = "UNKNOWN"
    <3>1. Honest(x, last')
      BY <2>4, <2>5, <2>6 DEF Honest, NoRequest
    <3>2. PICK y : s' = FlushDeferredEvents(y) /\ Keeps(x, y, History)
      BY <2>4, <2>6, HandlersFlush, HandlersKeep, QuietIsHistory, SlaveAssumption
    <3>3. QED
      BY <2>4, <3>1, <3>2, HonestThenFlush, SlaveAssumption
  <2>7. CASE fc # "UNKNOWN"
    <3>1. s' = OnRequest(x, last') /\ Arrives(x, last', last')
      BY <2>4, <2>7 DEF Arrives
    <3>2. /\ x.state \in States \ {"Closed"}
          /\ x.state = "Idle" => ~x.deferredRequest
      BY <1>1, <1>8, <2>3 DEF NewRequest, Running, Settled, Honest, Keeps, History
    <3>3. QED
      BY <2>4, <2>5, <3>1, <3>2, OnRequestHonest, SlaveAssumption
  <2>8. QED
    BY <2>6, <2>7
<1>9. CASE RepeatRequest
  <2>1. /\ s.error = "none" /\ s.state # "Closed" /\ last.id > 0 /\ last' = last
        /\ s' = IF last.fc = "UNKNOWN" THEN OnUnknownObject(s)
                                       ELSE OnRequest(s, [last EXCEPT !.prev = TRUE])
    BY <1>9 DEF RepeatRequest, Running
  <2>2. CASE last.fc = "UNKNOWN"
    <3>1. Keeps(s, s, History)
      BY DEF Keeps
    <3>2. QED
      BY <1>7, <2>1, <2>2, <3>1
  <2>3. CASE last.fc # "UNKNOWN"
    <3>1. PICK r : r = [last EXCEPT !.prev = TRUE]
      OBVIOUS
    <3>2. /\ r \in Request /\ r.prev /\ r.id = last.id /\ r.fc = last.fc
      BY <1>1, <3>1 DEF Request
    <3>3. last.id # 0
      BY <2>1 DEF Request
    <3>4. Arrives(s, r, last)
      BY <2>3, <3>2, <3>3 DEF Arrives
    <3>5. Honest(s, NoRequest)
      BY DEF Honest, NoRequest
    <3>6. s.state = "Idle" => ~s.deferredRequest
      BY <1>1, <2>1 DEF Settled
    <3>7. s' = OnRequest(s, r)
      BY <2>1, <2>3, <3>1
    <3>8. QED
      BY <1>1, <2>1, <3>4, <3>5, <3>6, <3>7, OnRequestHonest, SlaveAssumption
  <2>4. QED
    BY <2>2, <2>3
<1>10. CASE ResponseSent
  <2>1. last' = last
    BY <1>10 DEF ResponseSent, Environment
  <2>2. CASE s.sol = "SendConfirmed" /\ s' = [s EXCEPT !.sol = "WaitForConfirm"]
    <3>1. Keeps(s, s', History)
      BY <2>2 DEF Keeps, Complete, Fields, History
    <3>2. QED
      BY <2>1, <3>1, HonestFrame
  <2>3. CASE s' = OnSolSendSuccess([s EXCEPT !.sol = "Idle", !.solEvents = {},
                                             !.confirmed = @ \cup s.solEvents])
    <3>1. PICK x : x = [s EXCEPT !.sol = "Idle", !.solEvents = {},
                                 !.confirmed = @ \cup s.solEvents]
      OBVIOUS
    <3>2. Keeps(s, x, History)
      BY <3>1 DEF Keeps, Complete, Fields, History
    <3>3. QED
      BY <1>7, <2>1, <2>3, <3>1, <3>2
  <2>4. CASE s' = OnSolFailure([s EXCEPT !.sol = "Idle", !.solEvents = {}])
    <3>1. PICK x : x = [s EXCEPT !.sol = "Idle", !.solEvents = {}]
      OBVIOUS
    <3>2. Keeps(s, x, History)
      BY <3>1 DEF Keeps, Complete, Fields, History
    <3>3. QED
      BY <1>7, <2>1, <2>4, <3>1, <3>2
  <2>5. QED
    BY <1>10, <2>2, <2>3, <2>4 DEF ResponseSent
<1>11. CASE ResponseFailed
  <2>1. PICK x : x = [s EXCEPT !.sol = "Idle", !.solEvents = {}]
    OBVIOUS
  <2>2. Keeps(s, x, History)
    BY <2>1 DEF Keeps, Complete, Fields, History
  <2>3. last' = last /\ s' = OnSolFailure(x)
    BY <1>11, <2>1 DEF ResponseFailed, Environment
  <2>4. QED
    BY <1>7, <2>2, <2>3
<1>12. CASE UnsolConfirmed
  <2>1. PICK x : x = [s EXCEPT !.uns = "Idle", !.unsEvents = {},
                               !.confirmed = @ \cup s.unsEvents]
    OBVIOUS
  <2>2. Keeps(s, x, History)
    BY <2>1 DEF Keeps, Complete, Fields, History
  <2>3. last' = last /\ s' = OnUnsolSendSuccess(x)
    BY <1>12, <2>1 DEF UnsolConfirmed, Environment
  <2>4. QED
    BY <1>7, <2>2, <2>3
<1>13. CASE UnsolFailed
  <2>1. PICK x : x = [s EXCEPT !.uns = "Idle", !.unsEvents = {}]
    OBVIOUS
  <2>2. Keeps(s, x, History)
    BY <2>1 DEF Keeps, Complete, Fields, History
  <2>3. last' = last /\ s' = OnUnsolFailure(x)
    BY <1>13, <2>1 DEF UnsolFailed, Environment
  <2>4. QED
    BY <1>7, <2>2, <2>3
<1>14. CASE TimerExpires
  <2>1. PICK x : x = [s EXCEPT !.armed = @ - 1]
    OBVIOUS
  <2>2. Keeps(s, x, History)
    BY <2>1 DEF Keeps, Complete, Fields, History
  <2>3. last' = last /\ s' = OnUnsolTimerExpiration(x)
    BY <1>14, <2>1 DEF TimerExpires, Environment
  <2>4. QED
    BY <1>7, <2>2, <2>3
<1>15. QED
  BY <1>2, <1>3, <1>4, <1>5, <1>6, <1>8, <1>9, <1>10, <1>11, <1>12, <1>13, <1>14
     DEF Next, Outcome, UnsolOutcome

LEMMA HonestInit == Init => Honest(s, last)
<1> SUFFICES ASSUME Init
             PROVE  Honest(s, last)
  OBVIOUS
<1>1. Inv /\ s \in Outstation /\ s.request.fc # "UNKNOWN"
  BY InvInit DEF Inv, Good, Kept, Typed
<1>2. s.executed \in Numbers /\ s.request \in Request /\ Complete(s)
  BY <1>1 DEF Outstation, Complete, Fields
<1>3. s.acknowledged = {} /\ s.deferredRequest = FALSE /\ last = NoRequest
  BY DEF Init
<1>4. QED
  BY <1>1, <1>2, <1>3 DEF Honest, NoRequest

LEMMA HonestAlways == Spec => []Honest(s, last)
<1>1. Inv /\ Honest(s, last) /\ [Next]_vars => Honest(s, last)'
  BY HonestNext
<1>2. QED
  BY <1>1, HonestInit, InvAlways, PTL DEF Spec

---------------------------------------------------------------------------
(* What passes a deferred request *)

\* Flushing starts an unsolicited response before a deferred request is handled only if an update
\* was deferred too, and without a pack delay (Slave::FlushDeferredEvents).
LEMMA FlushPasses ==
  ASSUME NEW z, Honest(z, NoRequest), SlaveAssumption, z.deferredRequest, z.uns = "Idle",
         NEW y, y = FlushDeferredEvents(z), y.deferredRequest, y.uns = "Busy"
  PROVE  z.deferredUpdate /\ config.packDelayZero
<1>1. PICK a : a = FlushUpdate(z)
  OBVIOUS
<1>2. PICK b : b = FlushRequest(a)
  OBVIOUS
<1>3. y = FlushUnsol(b)
  BY <1>1, <1>2 DEF FlushDeferredEvents
<1>4. z.state = "Idle"
  BY <1>1, <1>2, <1>3 DEF FlushUpdate, FlushRequest, FlushUnsol
<1>5. /\ Complete(a) /\ a.deferredRequest /\ a.request \in Request /\ a.request.fc # "UNKNOWN"
      /\ a.state # "Idle" => z.deferredUpdate /\ config.packDelayZero
  <2>1. CASE z.deferredUpdate
    <3>1. PICK w : w = [z EXCEPT !.deferredUpdate = FALSE]
      OBVIOUS
    <3>2. /\ Complete(w) /\ w.deferredRequest /\ w.request = z.request /\ w.state = z.state
      BY <3>1 DEF Honest, Complete, Fields
    <3>3. a = IdleOnDataUpdate(w)
      BY <1>1, <1>4, <2>1, <3>1 DEF FlushUpdate
    <3>4. Keeps(w, a, History) /\ (~config.packDelayZero => a.state = w.state)
      BY <3>2, <3>3, IdleOperators
    <3>5. QED
      BY <1>4, <2>1, <3>2, <3>4 DEF Honest, Keeps, History
  <2>2. CASE ~z.deferredUpdate
    BY <1>1, <1>4, <2>2 DEF FlushUpdate, Honest
  <2>3. QED
    BY <2>1, <2>2
<1>6. SUFFICES ASSUME a.state = "Idle"
               PROVE  FALSE
  BY <1>5
<1>7. Complete(b) /\ b.deferredRequest = FALSE
  <2>1. PICK w : w = [a EXCEPT !.deferredRequest = FALSE]
    OBVIOUS
  <2>2. Complete(w) /\ w.deferredRequest = FALSE
    BY <1>5, <2>1 DEF Complete, Fields
  <2>3. b = DoRequest(w, "WaitForRspSuccess", a.request)
    BY <1>2, <1>5, <1>6, <2>1 DEF FlushRequest, IdleOnRequest
  <2>4. Keeps(w, b, DoRequestKeeps)
    BY <1>5, <2>2, <2>3, DoRequestHistory
  <2>5. QED
    BY <2>2, <2>4 DEF Keeps, DoRequestKeeps
<1>8. y.deferredRequest = b.deferredRequest
  <2>1. CASE b.state = "Idle" /\ b.deferredUnsol
    <3>1. PICK w : w = [b EXCEPT !.deferredUnsol = FALSE]
      OBVIOUS
    <3>2. Keeps(b, w, History)
      BY <3>1 DEF Keeps, Complete, Fields, History
    <3>3. Keeps(w, y, History)
      BY <1>3, <2>1, <3>1, IdleOperators DEF FlushUnsol
    <3>4. QED
      BY <1>7, <3>2, <3>3 DEF Keeps, History
  <2>2. CASE ~(b.state = "Idle" /\ b.deferredUnsol)
    BY <1>3, <2>2 DEF FlushUnsol
  <2>3. QED
    BY <2>1, <2>2
<1>9. QED
  BY <1>7, <1>8

LEMMA PassesNext ==
  ASSUME Inv, Honest(s, last), Next, PassesRequest
  PROVE  s.deferredUpdate /\ config.packDelayZero
<1>1. /\ s.deferredRequest /\ s'.deferredRequest /\ s'.uns = "Busy"
      /\ s.uns = "Idle" \/ UnsolOutcome
  BY DEF PassesRequest
<1>2. Honest(s, NoRequest) /\ Complete(s)
  BY DEF Honest, NoRequest
<1>3. s.state \in States
  BY DEF Inv, Good, Kept, Typed, Outstation
<1>4. s.error = "none" => Solicits(s) /\ Reports(s) /\ Postponed(s) /\ s.state # "Idle"
  BY <1>1 DEF Inv, Good, Live, Steady, Settled
\* A handler that keeps the channel of unsolicited responses, applied to a record where it is idle
<1>5. ASSUME NEW x, Keeps(s, x, History), x.uns = "Idle", NEW z, Keeps(x, z, Quiet),
             s' = FlushDeferredEvents(z)
      PROVE  s.deferredUpdate /\ config.packDelayZero
  <2>1. Keeps(s, z, History)
    BY <1>5, QuietIsHistory, KeepsTrans
  <2>2. Honest(z, NoRequest)
    BY <1>2, <2>1, HonestFrame
  <2>3. /\ z.deferredRequest /\ z.uns = "Idle" /\ z.deferredUpdate = s.deferredUpdate
    BY <1>1, <1>2, <1>5, <2>1 DEF Keeps, Quiet, History
  <2>4. QED
    BY <1>1, <1>5, <2>2, <2>3, FlushPasses, SlaveAssumption
<1>6. CASE UnsolOutcome
  <2>1. CASE UnsolConfirmed
    <3>1. PICK x : x = [s EXCEPT !.uns = "Idle", !.unsEvents = {},
                                 !.confirmed = @ \cup s.unsEvents]
      OBVIOUS
    <3>2. Keeps(s, x, History) /\ x.uns = "Idle"
      BY <1>2, <3>1 DEF Keeps, Complete, Fields, History
    <3>3. s' = FlushDeferredEvents(AfterUnsolSendSuccess(x))
      BY <2>1, <3>1, HandlersFlush DEF UnsolConfirmed
    <3>4. QED
      BY <1>5, <3>2, <3>3, HandlersKeep, SlaveAssumption
  <2>2. CASE UnsolFailed
    <3>1. PICK x : x = [s EXCEPT !.uns = "Idle", !.unsEvents = {}]
      OBVIOUS
    <3>2. Keeps(s, x, History) /\ x.uns = "Idle"
      BY <1>2, <3>1 DEF Keeps, Complete, Fields, History
    <3>3. s' = FlushDeferredEvents(AfterUnsolFailure(x))
      BY <2>2, <3>1, HandlersFlush DEF UnsolFailed
    <3>4. QED
      BY <1>5, <3>2, <3>3, HandlersKeep, SlaveAssumption
  <2>3. QED
    BY <1>6, <2>1, <2>2 DEF UnsolOutcome
<1>7. SUFFICES ASSUME s.uns = "Idle", ~UnsolOutcome
               PROVE  s.deferredUpdate /\ config.packDelayZero
  BY <1>1, <1>6
<1>8. CASE OnLowerLayerUp
  <2>1. PICK x : x = [s EXCEPT !.state = "Idle"]
    OBVIOUS
  <2>2. Keeps(s, x, History) /\ x.uns = "Idle" /\ Keeps(x, x, Quiet)
    BY <1>2, <1>7, <2>1 DEF Keeps, Complete, Fields, History
  <2>3. s' = FlushDeferredEvents(x)
    BY <1>8, <2>1 DEF OnLowerLayerUp
  <2>4. QED
    BY <1>5, <2>2, <2>3
<1>9. CASE OnLowerLayerDown
  <2>1. s'.uns = "Idle"
    BY <1>2, <1>9 DEF OnLowerLayerDown, Complete, Fields
  <2>2. QED
    BY <1>1, <2>1
<1>10. CASE UpdatePoint
  <2>1. s'.uns = s.uns
    BY <1>2, <1>10 DEF UpdatePoint, Complete, Fields
  <2>2. QED
    BY <1>1, <1>7, <2>1
\* A state that is not idle flushes nothing.
<1>11. ASSUME NEW z, z.state # "Idle", z.uns = "Idle", s' = FlushDeferredEvents(z)
       PROVE  FALSE
  <2>1. FlushDeferredEvents(z) = z
    BY <1>11 DEF FlushDeferredEvents, FlushUpdate, FlushRequest, FlushUnsol
  <2>2. QED
    BY <1>1, <1>11, <2>1
<1>12. CASE RunDataUpdate
  <2>1. PICK z : z = IF s.state = "Closed" THEN FlushUpdates(s) ELSE [s EXCEPT !.deferredUpdate = TRUE]
    OBVIOUS
  <2>2. s' = FlushDeferredEvents(z) /\ s.state # "Idle"
    BY <1>4, <1>12, <2>1 DEF RunDataUpdate, OnDataUpdate, Running
  <2>3. z.state = s.state /\ z.uns = s.uns
    BY <1>2, <2>1 DEF FlushUpdates, Complete, Fields
  <2>4. QED
    BY <1>7, <1>11, <2>2, <2>3
\* A request waits while a response is sent, for whose confirmation nothing waits.
<1>13. ASSUME NEW x, Keeps(s, x, Quiet), x.state = s.state, x.sol = s.sol, s.error = "none",
              s.state # "Closed", NEW r, s' = OnRequest(x, r)
       PROVE  FALSE
  <2>1. s.state = "WaitForRspSuccess" /\ s.sol # "WaitForConfirm"
    BY <1>1, <1>3, <1>4, <1>7, <1>13 DEF Solicits, Reports, Postponed, WaitsForResponse, WaitsForUnsol, AwaitsConfirm, States
  <2>2. PICK c : c = [x EXCEPT !.sol = "SendCanceled"]
    OBVIOUS
  <2>3. PICK o : o = Overwrite(c, r)
    OBVIOUS
  <2>4. PICK z : z = [o EXCEPT !.request = r, !.deferredRequest = TRUE]
    OBVIOUS
  <2>5. s' = FlushDeferredEvents(z)
    BY <1>13, <2>1, <2>2, <2>3, <2>4 DEF OnRequest, CancelResponse, Defer
  <2>6. Complete(c) /\ c.state = s.state /\ c.uns = s.uns
    BY <1>2, <1>13, <2>2 DEF Keeps, Quiet, Complete, Fields
  <2>7. Complete(o) /\ o.state = s.state /\ o.uns = s.uns
    <3> DEFINE e == IF /\ r.fc = "WRITE" /\ r.prev
                       /\ c.deferredRequest /\ ~c.request.prev /\ c.request.id = r.id
                    THEN c.overwritten \cup {r.id} ELSE c.overwritten
    <3>1. o = [c EXCEPT !.overwritten = e]
      BY <2>3 DEF Overwrite
    <3> HIDE DEF e
    <3>2. QED
      BY <2>6, <3>1 DEF Complete, Fields
  <2>8. z.state = s.state /\ z.uns = s.uns
    BY <2>4, <2>7 DEF Complete, Fields
  <2>9. QED
    BY <1>7, <1>11, <2>1, <2>5, <2>8
<1>14. ASSUME NEW x, Keeps(s, x, Quiet), s' = OnUnknownObject(x)
       PROVE  s.deferredUpdate /\ config.packDelayZero
  <2>1. Keeps(x, AfterUnknownObject(x), Quiet) /\ s' = FlushDeferredEvents(AfterUnknownObject(x))
    BY <1>14, HandlersKeep, HandlersFlush, SlaveAssumption
  <2>2. x.uns = "Idle"
    BY <1>2, <1>7, <1>14 DEF Keeps, Quiet
  <2>3. QED
    BY <1>5, <1>14, <2>1, <2>2, QuietIsHistory
<1>15. CASE NewRequest
  <2>1. PICK x : x = [s EXCEPT !.heard = requests + 1]
    OBVIOUS
  <2>2. Keeps(s, x, Quiet) /\ x.state = s.state /\ x.sol = s.sol
    BY <1>2, <2>1 DEF Keeps, Complete, Fields, Quiet, History
  <2>3. s.error = "none" /\ s.state # "Closed" /\ (s' = OnUnknownObject(x) \/ s' = OnRequest(x, last'))
    BY <1>15, <2>1 DEF NewRequest, Running
  <2>4. QED
    BY <1>13, <1>14, <2>2, <2>3
<1>16. CASE RepeatRequest
  <2>1. Keeps(s, s, Quiet)
    BY DEF Keeps
  <2>2. /\ s.error = "none" /\ s.state # "Closed"
        /\ s' = OnUnknownObject(s) \/ s' = OnRequest(s, [last EXCEPT !.prev = TRUE])
    BY <1>16 DEF RepeatRequest, Running
  <2>3. QED
    BY <1>13, <1>14, <2>1, <2>2
\* The response that was sent, or failed
<1>17. ASSUME NEW x, Keeps(s, x, Quiet), s' = OnSolSendSuccess(x) \/ s' = OnSolFailure(x)
       PROVE  s.deferredUpdate /\ config.packDelayZero
  <2>1. PICK z : Keeps(x, z, Quiet) /\ s' = FlushDeferredEvents(z)
    BY <1>17, HandlersKeep, HandlersFlush, SlaveAssumption
  <2>2. x.uns = "Idle"
    BY <1>2, <1>7, <1>17 DEF Keeps, Quiet
  <2>3. QED
    BY <1>5, <1>17, <2>1, <2>2, QuietIsHistory
<1>18. CASE ResponseSent
  <2>1. CASE s' = [s EXCEPT !.sol = "WaitForConfirm"]
    <3>1. s'.uns = s.uns
      BY <1>2, <2>1 DEF Complete, Fields
    <3>2. QED
      BY <1>1, <1>7, <3>1
  <2>2. PICK x : x = [s EXCEPT !.sol = "Idle", !.solEvents = {},
                               !.confirmed = @ \cup s.solEvents]
    OBVIOUS
  <2>3. PICK y : y = [s EXCEPT !.sol = "Idle", !.solEvents = {}]
    OBVIOUS
  <2>4. Keeps(s, x, Quiet)
    BY <2>2 DEF Keeps, Complete, Fields, Quiet, History
  <2>5. Keeps(s, y, Quiet)
    BY <2>3 DEF Keeps, Complete, Fields, Quiet, History
  <2>6. \/ s' = [s EXCEPT !.sol = "WaitForConfirm"]
        \/ s' = OnSolSendSuccess(x) \/ s' = OnSolFailure(y)
    BY <1>18, <2>2, <2>3 DEF ResponseSent
  <2>7. QED
    BY <1>17, <2>1, <2>4, <2>5, <2>6
<1>19. CASE ResponseFailed
  <2>1. PICK y : y = [s EXCEPT !.sol = "Idle", !.solEvents = {}]
    OBVIOUS
  <2>2. Keeps(s, y, Quiet)
    BY <2>1 DEF Keeps, Complete, Fields, Quiet, History
  <2>3. QED
    BY <1>17, <1>19, <2>1, <2>2 DEF ResponseFailed
<1>20. CASE TimerExpires
  <2>1. PICK x : x = [s EXCEPT !.armed = @ - 1]
    OBVIOUS
  <2>2. Keeps(s, x, Quiet) /\ x.state = s.state
    BY <1>2, <2>1 DEF Keeps, Complete, Fields, Quiet, History
  <2>3. s' = FlushDeferredEvents(AfterUnsolTimer(x)) /\ s.error = "none"
    BY <1>20, <2>1, HandlersFlush DEF TimerExpires, Running
  <2>4. Keeps(x, AfterUnsolTimer(x), Quiet)
    BY <1>4, <2>2, <2>3, HandlersKeep, SlaveAssumption
  <2>5. x.uns = "Idle"
    BY <1>2, <1>7, <2>2 DEF Keeps, Quiet
  <2>6. QED
    BY <1>5, <2>2, <2>3, <2>4, <2>5, QuietIsHistory
<1>21. QED
  BY <1>7, <1>8, <1>9, <1>10, <1>12, <1>15, <1>16, <1>18, <1>19, <1>20 DEF Next, Outcome

---------------------------------------------------------------------------
(* The theorems *)

\* The state of the outstation keeps pace with the two channels of the application layer, whatever
\* is deferred, cancelled or nested in a callback (Slave::ChangeState, AppLayer::SendResponse).
THEOREM ConsistentCorrect == Spec => []Consistent
<1>1. Inv => Consistent
  <2> SUFFICES ASSUME Inv
               PROVE  Consistent
    OBVIOUS
  <2>1. Good(s, updates, requests, downs) /\ Typed(s)
    BY DEF Inv, Good, Kept
  <2>2. TypeOK
    BY <2>1 DEF TypeOK, Typed, Inv, Configs
  <2>3. StateMatchesChannels
    BY <2>1 DEF StateMatchesChannels, Good, Ends, Live, Steady, Solicits, Reports, Running,
       WaitsForResponse, WaitsForUnsol
  <2>4. QED
    BY <2>2, <2>3 DEF Consistent
<1>2. QED
  BY <1>1, InvAlways, PTL

\* An event is in one place, and is not left lying where nothing will report it
\* (ResponseContext, EventBufferBase, Slave::FlushDeferredEvents).
THEOREM NoEventLostCorrect == Spec => []NoEventLost
<1>1. Inv => NoEventLost
  <2> SUFFICES ASSUME Inv
               PROVE  NoEventLost
    OBVIOUS
  <2>1. Good(s, updates, requests, downs) /\ Accounted(s, updates)
    BY DEF Inv, Good, Kept
  <2>2. EveryEventAccounted
    <3> DEFINE a == s.changes
               b == s.events
               c == ToSet(s.selected)
               e == s.erased
               places == <<a, b, c, e>>
    <3>1. EveryEventAccounted <=>
            /\ 1 .. updates = UNION ToSet(places)
            /\ \A i, j \in DOMAIN places : i # j => places[i] \cap places[j] = {}
      BY DEF EveryEventAccounted
    <3>2. /\ a \cup b \cup c \cup e = 1 .. updates
          /\ a \cap b = {} /\ a \cap c = {} /\ a \cap e = {}
          /\ b \cap c = {} /\ b \cap e = {} /\ c \cap e = {}
      BY <2>1 DEF Accounted
    <3> HIDE DEF a, b, c, e
    <3>3. DOMAIN places = {1, 2, 3, 4}
      OBVIOUS
    <3>4. ToSet(places) = {a, b, c, e}
      BY <3>3 DEF ToSet
    <3>5. /\ places[1] = a /\ places[2] = b /\ places[3] = c /\ places[4] = e
      OBVIOUS
    <3> HIDE DEF places
    <3>6. \A i, j \in {1, 2, 3, 4} : i # j => places[i] \cap places[j] = {}
      BY <3>2, <3>5
    <3>7. QED
      BY <3>1, <3>2, <3>3, <3>4, <3>6
  <2>3. EventsHaveTrigger
    <3> SUFFICES ASSUME Running, downs = 0, s.state = "Idle", s.nullUnsol, ~config.disableUnsol,
                        HasEvents(s)
                 PROVE  s.armed > 0
      BY DEF EventsHaveTrigger
    <3>1. Triggered(s) /\ Settled(s)
      BY <2>1 DEF Good, Live, Running, Inv
    <3>2. s.mask /\ Unreported(s) # {}
      BY DEF HasEvents, Unreported
    <3>3. QED
      BY <3>1, <3>2 DEF Triggered, Settled, WaitsForUnsol
  <2>4. QED
    BY <2>2, <2>3 DEF NoEventLost
<1>2. QED
  BY <1>1, InvAlways, PTL

\* While the lower layer stays up an event is erased only after a fragment with it was confirmed
\* (ResponseContext::ClearWritten).
THEOREM ErasedMeansConfirmedCorrect == Spec => []ErasedMeansConfirmedWhileUp
<1>1. Inv => ErasedMeansConfirmedWhileUp
  BY DEF Inv, Good, Kept, ErasedMeansConfirmedWhileUp, ErasedMeansConfirmed
<1>2. QED
  BY <1>1, InvAlways, PTL

\* A request that is deferred, repeated or overtaken is executed once at most, once at least before
\* it is answered unless its repetition overwrote it, and answered in its turn (AS_Base::DoRequest,
\* the OnRequest of the states).
THEOREM RequestsHandledOnceCorrect == Spec => []RequestsHandledOnce
<1>1. Inv /\ Honest(s, last) => RequestsHandledOnce
  <2> SUFFICES ASSUME Inv, Honest(s, last)
               PROVE  RequestsHandledOnce
    OBVIOUS
  <2>1. Good(s, updates, requests, downs) /\ downs \in Nat
    BY DEF Inv
  <2>2. ExecutedAtMostOnce
    BY <2>1 DEF Good, Kept, ExecutedOnce, Distinct, ExecutedAtMostOnce
  <2>3. AnswersLastRequest
    BY <2>1 DEF Good, Ends, Live, Steady, Answered, Running, AnswersLastRequest
  <2>4. AnsweredMeansExecutedUnlessOverwritten
    BY DEF Honest, Done, AnsweredMeansExecutedUnlessOverwritten
  <2>5. QED
    BY <2>2, <2>3, <2>4 DEF RequestsHandledOnce
<1>2. QED
  BY <1>1, InvAlways, HonestAlways, PTL

\* Nothing passes a deferred request but the report of an update that was deferred with it, and
\* only without a pack delay: the safety half of DeferredRequestServed, whose other half is
\* liveness (Slave::FlushDeferredEvents, AS_Idle::OnDataUpdate).
THEOREM OnlyUpdatesPassRequestCorrect == Spec => OnlyUpdatesPassRequest
<1>1. ASSUME Inv, Honest(s, last), [Next]_vars
      PROVE  [PassesRequest => s.deferredUpdate /\ config.packDelayZero]_vars
  <2>1. CASE Next
    BY <1>1, <2>1, PassesNext
  <2>2. CASE UNCHANGED vars
    BY <2>2
  <2>3. QED
    BY <1>1, <2>1, <2>2
<1>2. Inv /\ Honest(s, last) /\ [Next]_vars =>
        [PassesRequest => s.deferredUpdate /\ config.packDelayZero]_vars
  BY <1>1
<1>3. QED
  BY <1>2, InvAlways, HonestAlways, PTL DEF Spec, OnlyUpdatesPassRequest
=============================================================================
