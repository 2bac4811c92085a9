---------------------------- MODULE ControlsProofs ----------------------------
(***************************************************************************)
(* Proofs about Controls, for every value of its constants: the thread of  *)
(* the stack and that of the application agree on what is under way, what  *)
(* is operated was selected, and an answer tells what became of a command, *)
(* however often it is asked for.                                          *)
(*                                                                         *)
(* The invariant has three parts: Good, of the record of the stack's       *)
(* thread, the last request and the history of answers; Threads, of the    *)
(* two queues; and Selections, of the points and the history of commands.  *)
(* A fourth, Written, rests on these three: the bits and the origin of     *)
(* what is answered.                                                       *)
(***************************************************************************)
EXTENDS Controls, NaturalsInduction, WellFoundedInduction, TLAPS

---------------------------------------------------------------------------
(* The inductive invariant *)

Shown == [status : Statuses, sequence : Nat]
Reply == [request : Request, out : Seq(Shown), iin : SUBSET Bit, author : Nat, again : BOOLEAN]
Command == [sequence : Nat]
Result == [sequence : Nat, status : Outcomes]
Kinds == {"SELECT", "selected", "operated", "direct", "elapsed"}
Entry == [kind : Kinds, id : Nat, point : Nat, value : Values \cup {"none"}]

Stack == [
  select : [Points -> Selection], state : States, deferred : BOOLEAN, request : Request,
  reqPrev : BOOLEAN, heard : -1 .. 15, last : Request, response : Seq(Shown), author : Nat,
  iin : SUBSET Bit, sequence : Nat,
  pc : {"free", "object", "find", "wait"}, current : Request, out : Seq(Shown),
  broken : BOOLEAN, answers : SUBSET Reply]

\* The types of everything but the stack's thread
Types ==
  /\ commands \in Seq(Command) /\ app \in Seq(Command) /\ Len(app) <= 1
  /\ results \in Seq(Result) /\ signal \in BOOLEAN
  /\ last \in Request
  /\ count \in [requests : Nat, incidents : Nat, wakeups : Nat]
  /\ log \in Seq(Entry)
  /\ told \subseteq [status : Outcomes, sequence : Nat]

\* What is handled or deferred is the last request l. Nothing is deferred in AS_Idle, or while
\* a request is handled.
Follows(x, l) ==
  /\ x.deferred => x.request = l /\ x.pc = "free"
  /\ x.pc # "free" => x.current = l
  /\ x.heard \in {-1, SequenceOf(l)}

Settled(x) == x.state = "Idle" => ~x.deferred

Done(x, l) == \E a \in x.answers : a.request.id = l.id

\* What was answered last is what an OPERATE is compared with.
Remembered(x, l) ==
  \A a \in x.answers :
    /\ a.request.id <= l.id
    /\ a.request.id = l.id =>
         a.request = l /\ x.last = l /\ (l.fc = "OPERATE" => a.out = x.response)

Alike(x) ==
  \A a, b \in x.answers :
    a.request = b.request /\ a.request.fc = "OPERATE" => a.out = b.out

\* An OPERATE that was answered comes back as a repetition only.
Once(x, l) ==
  l.fc = "OPERATE" /\ Done(x, l) => x.pc = "free" /\ (x.deferred => x.reqPrev)

\* A status is what the application returned under t, unless one of w waits ended too early.
Truthful(q, w, t) ==
  \A k \in DOMAIN q :
    q[k].sequence # 0 => q[k] \in t \/ (q[k].status = "HARDWARE_ERROR" /\ w > 0)

Truth(x, w, t) ==
  /\ Truthful(x.out, w, t) /\ Truthful(x.response, w, t)
  /\ \A a \in x.answers : Truthful(a.out, w, t)

Ready(x, l, w, t) ==
  x \in Stack /\ Follows(x, l) /\ Remembered(x, l) /\ Alike(x) /\ Truth(x, w, t)

Good(x, l, w, t) == Ready(x, l, w, t) /\ Settled(x) /\ Once(x, l)

UnderWay == Len(commands) + Len(app) + Len(results)
Waits == {"find", "wait"}

\* What is under way belongs to the command that the stack waits for.
AllOf(q, sequence) == \A i \in DOMAIN q : q[i].sequence = sequence
Mine == AllOf(commands, s.sequence) /\ AllOf(app, s.sequence) /\ AllOf(results, s.sequence)

\* One command is under way while the stack waits and none otherwise, but for one that each
\* return of Wait without a signal may have left behind.
Threads ==
  /\ UnderWay <= count.wakeups + (IF s.pc \in Waits THEN 1 ELSE 0)
  /\ s.pc \in Waits /\ count.wakeups = 0 => UnderWay = 1 /\ Mine
  /\ s.pc = "wait" => (signal <=> results # <<>>)
  /\ \A i \in DOMAIN results : Status(results[i].status, results[i].sequence) \in told

\* Entry i of lg is the selection sel of point p, and nothing came after it that ends it.
SelectedAt(lg, i, p, sel) ==
  /\ lg[i].kind = "selected" /\ lg[i].point = p /\ lg[i].value = sel.value
  /\ lg[i].id % 16 = sel.seq
  /\ \A k \in (i + 1) .. Len(lg) : lg[k].kind \notin {"SELECT", "elapsed"} /\ lg[k].point # p

Selected(select, lg) ==
  \A p \in Points : select[p].on /\ ~select[p].old =>
    \E i \in DOMAIN lg : SelectedAt(lg, i, p, select[p])

Operated(lg) ==
  \A j \in DOMAIN lg : lg[j].kind = "operated" =>
    \E i \in 1..(j - 1) :
      /\ lg[i].kind = "selected" /\ lg[i].point = lg[j].point /\ lg[i].value = lg[j].value
      /\ (lg[j].id - lg[i].id) % 16 = 1
      /\ \A k \in (i + 1)..(j - 1) : lg[k].kind \notin {"SELECT", "elapsed"}
                                    /\ lg[k].point # lg[j].point

Selections == Selected(s.select, log) /\ Operated(log)

Inv == Types /\ Good(s, last, count.wakeups, told) /\ Threads /\ Selections

---------------------------------------------------------------------------
(* Answering a request *)

LEMMA NoRequestType == NoRequest \in Request /\ NoRequest.id = 0 /\ NoRequest.fc = "OTHER"
BY DEF NoRequest, Request, Functions

LEMMA SequenceType == ASSUME NEW r \in Request PROVE SequenceOf(r) \in 0 .. 15
<1>1. r.id \in Nat
  BY DEF Request
<1>2. QED
  BY <1>1 DEF SequenceOf

LEMMA StatusTypes ==
  /\ Outcomes \subseteq Statuses
  /\ {"SUCCESS", "NOT_SUPPORTED", "TOO_MANY_OPS", "NO_SELECT", "TIMEOUT", "HARDWARE_ERROR", "nothing"}
       \subseteq Statuses
  /\ \A status : Bits(status) \subseteq Bit
BY DEF Statuses, Bits, Bit

LEMMA UnselectedType == Unselected \in Selection /\ ~Unselected.on
<1>1. "none" \in Values \cup {"none"}
  OBVIOUS
<1>2. 0 \in 0 .. 15
  OBVIOUS
<1>3. FALSE \in BOOLEAN
  OBVIOUS
<1>4. Unselected \in Selection
  BY <1>1, <1>2, <1>3 DEF Unselected, Selection
<1>5. QED
  BY <1>4 DEF Unselected

Answered(x, y, l, w, t) ==
  /\ Good(y, l, w, t) /\ y.pc = "free" /\ y.select = x.select /\ y.sequence = x.sequence
  /\ y.state = x.state /\ ~y.deferred

\* The answer to a request is remembered with it, for its repetitions (Slave::SendResponse).
LEMMA SentGood ==
  ASSUME NEW x, NEW l \in Request, NEW w \in Nat, NEW t, Ready(x, l, w, t), Settled(x),
         x.current = l, ~x.deferred, NEW out \in Seq(Shown), Truthful(out, w, t),
         l.fc = "OPERATE" /\ Done(x, l) => out = x.response,
         NEW author \in Nat, NEW again \in BOOLEAN
  PROVE  Answered(x, Sent(x, out, author, again), l, w, t)
<1> DEFINE a == [request |-> x.current, out |-> out, iin |-> x.iin, author |-> author,
                 again |-> again]
           heard == x.heard = -1
           answers == x.answers \cup {a}
           y == [x EXCEPT !.response = out, !.author = author, !.pc = "free", !.out = <<>>,
                          !.last = x.current, !.current = NoRequest, !.broken = heard, !.answers = answers]
<1>1. x \in Stack
  BY DEF Ready
<1>2. Sent(x, out, author, again) = y
  BY <1>1 DEF Sent, Stack
<1>3. a \in Reply /\ a.request = l /\ a.out = out
  BY <1>1 DEF Reply, Stack
<1>4. heard \in BOOLEAN /\ answers \in SUBSET Reply /\ <<>> \in Seq(Shown)
  BY <1>1, <1>3 DEF Stack
<1>5. answers = x.answers \cup {a}
  OBVIOUS
<1> HIDE DEF a, heard, answers
<1>6. y \in Stack
  BY <1>1, <1>4, NoRequestType DEF Stack
<1>7. /\ y.response = out /\ y.pc = "free" /\ y.out = <<>> /\ y.last = l
      /\ y.answers = answers /\ y.select = x.select /\ y.sequence = x.sequence
      /\ y.state = x.state /\ y.deferred = x.deferred /\ y.heard = x.heard
  BY <1>1 DEF Stack
<1> HIDE DEF y
<1>8. Follows(y, l) /\ Settled(y)
  BY <1>7 DEF Ready, Follows, Settled
<1>9. Remembered(y, l)
  <2> SUFFICES ASSUME NEW b \in y.answers
               PROVE  /\ b.request.id <= l.id
                      /\ b.request.id = l.id =>
                           b.request = l /\ y.last = l /\ (l.fc = "OPERATE" => b.out = y.response)
    BY DEF Remembered
  <2>1. CASE b = a
    <3> l.id \in Nat
      BY DEF Request
    <3> QED
      BY <1>3, <1>7, <2>1
  <2>2. CASE b \in x.answers
    <3>1. b.request.id = l.id => Done(x, l)
      BY <2>2 DEF Done
    <3>2. QED
      BY <1>7, <2>2, <3>1 DEF Ready, Remembered
  <2>3. QED
    BY <1>5, <1>7, <2>1, <2>2
<1>10. Alike(y)
  <2> SUFFICES ASSUME NEW b \in y.answers, NEW c \in y.answers,
                      b.request = c.request, b.request.fc = "OPERATE"
               PROVE  b.out = c.out
    BY DEF Alike
  <2>1. CASE b \in x.answers /\ c \in x.answers
    BY <2>1 DEF Ready, Alike
  <2>2. CASE b = a \/ c = a
    <3>1. b.request.id = l.id /\ c.request.id = l.id /\ l.fc = "OPERATE"
      BY <1>3, <2>2
    <3>2. QED
      BY <1>9, <3>1 DEF Remembered
  <2>3. QED
    BY <1>5, <1>7, <2>1, <2>2
<1>11. Truth(y, w, t)
  BY <1>3, <1>5, <1>7 DEF Ready, Truth, Truthful
<1>12. Once(y, l)
  BY <1>7 DEF Once
<1>13. QED
  BY <1>2, <1>6, <1>7, <1>8, <1>9, <1>10, <1>11, <1>12 DEF Good, Ready, Answered

\* Where a request begins to be handled, the points are as they were, or a SELECT drops all.
Begins(x, y) ==
  /\ y.pc \in {"free", "object"} /\ y.sequence = x.sequence
  /\ y.select = IF y.pc = "object" /\ y.current.fc = "SELECT"
                  THEN [p \in Points |-> Unselected] ELSE x.select

\* A request is answered at once, or its first object is next (AS_Base::DoRequest).
LEMMA DoRequestGood ==
  ASSUME NEW x, NEW l \in Request, NEW w \in Nat, NEW t, Ready(x, l, w, t), ~x.deferred,
         NEW prev \in BOOLEAN, l.fc = "OPERATE" /\ Done(x, l) => prev, NEW next \in States
  PROVE  LET y == DoRequest(x, l, prev, next) IN Good(y, l, w, t) /\ Begins(x, y)
<1> DEFINE state == IF l.fc = "DIRECT_OPERATE_NO_ACK" THEN x.state ELSE next
           y == [x EXCEPT !.state = state, !.iin = {}, !.current = l, !.pc = "object"]
           none == [p \in Points |-> Unselected]
<1>1. x \in Stack
  BY DEF Ready
<1>2. state \in States /\ {} \in SUBSET Bit /\ none \in [Points -> Selection]
  BY <1>1, UnselectedType DEF Stack
<1>3. DoRequest(x, l, prev, next) =
        CASE l.fc = "OTHER"  -> Respond(y, <<>>)
          [] l.fc = "SELECT" -> DeselectAll(y)
          [] OTHER           -> IF l.fc = "OPERATE" /\ IsRetry(x, l, prev)
                                  THEN RespondAgain(y) ELSE y
  BY <1>1 DEF DoRequest, Stack
<1> HIDE DEF state
<1>4. y \in Stack
  BY <1>1, <1>2 DEF Stack
<1>5. /\ y.state = state /\ y.current = l /\ y.pc = "object" /\ y.deferred = x.deferred
      /\ y.heard = x.heard /\ y.answers = x.answers /\ y.last = x.last /\ y.response = x.response
      /\ y.out = x.out /\ y.select = x.select /\ y.sequence = x.sequence
      /\ l.id \in Nat /\ y.author \in Nat
  BY <1>1 DEF Stack, Request
<1> HIDE DEF y
<1>6. Follows(y, l) /\ Settled(y)
  BY <1>5 DEF Ready, Follows, Settled
<1>7. Remembered(y, l) /\ Alike(y) /\ Truth(y, w, t)
  BY <1>5 DEF Ready, Remembered, Alike, Truth
<1>8. Ready(y, l, w, t)
  BY <1>4, <1>6, <1>7 DEF Ready
<1>9. Done(y, l) <=> Done(x, l)
  BY <1>5 DEF Done
<1>10. CASE l.fc = "OTHER"
  <2>1. <<>> \in Seq(Shown) /\ Truthful(<<>>, w, t)
    BY DEF Truthful
  <2>2. Good(Respond(y, <<>>), l, w, t) /\ Begins(x, Respond(y, <<>>))
    <3>1. l.fc = "OPERATE" /\ Done(y, l) => <<>> = y.response
      BY <1>10
    <3>2. y.current = l /\ ~y.deferred
      BY <1>5
    <3> DEFINE z == Respond(y, <<>>)
    <3>3. Good(z, l, w, t) /\ z.pc = "free" /\ z.select = y.select /\ z.sequence = y.sequence
      <4>1. Answered(y, Sent(y, <<>>, l.id, FALSE), l, w, t)
        BY <1>5, <1>6, <1>8, <2>1, <3>1, <3>2, SentGood
      <4>2. QED
        BY <1>5, <4>1 DEF Respond, Answered
    <3> HIDE DEF z
    <3>4. Begins(x, z)
      BY <1>5, <1>10, <3>3 DEF Begins
    <3>5. QED
      BY <3>3, <3>4 DEF z
  <2>3. QED
    BY <1>3, <1>10, <2>2
<1>11. CASE l.fc = "SELECT"
  <2> DEFINE z == [y EXCEPT !.select = none]
  <2>1. DeselectAll(y) = z
    BY DEF DeselectAll
  <2> HIDE DEF none
  <2>2. z \in Stack
    BY <1>2, <1>4 DEF Stack
  <2>3. /\ z.state = y.state /\ z.current = y.current /\ z.pc = y.pc /\ z.deferred = y.deferred
        /\ z.heard = y.heard /\ z.answers = y.answers /\ z.last = y.last
        /\ z.response = y.response /\ z.out = y.out /\ z.select = none
        /\ z.sequence = y.sequence /\ z.request = y.request
    BY <1>4 DEF Stack
  <2> HIDE DEF z
  <2>4. Ready(z, l, w, t) /\ Settled(z)
    BY <1>6, <1>8, <2>2, <2>3 DEF Ready, Follows, Remembered, Alike, Truth, Settled
  <2>5. Once(z, l)
    BY <1>11 DEF Once
  <2>6. Begins(x, z)
    BY <1>5, <1>11, <2>3 DEF Begins, none
  <2>7. QED
    BY <1>3, <1>11, <2>1, <2>4, <2>5, <2>6 DEF Good
<1>12. CASE l.fc = "OPERATE" /\ IsRetry(x, l, prev)
  <2>1. x.response \in Seq(Shown) /\ Truthful(x.response, w, t)
    BY <1>1 DEF Stack, Ready, Truth
  <2>2. Good(RespondAgain(y), l, w, t) /\ Begins(x, RespondAgain(y))
    <3>1. l.fc = "OPERATE" /\ Done(y, l) => x.response = y.response
      BY <1>5
    <3>2. y.current = l /\ ~y.deferred
      BY <1>5
    <3> DEFINE z == RespondAgain(y)
    <3>3. Good(z, l, w, t) /\ z.pc = "free" /\ z.select = y.select /\ z.sequence = y.sequence
      <4>1. Answered(y, Sent(y, x.response, y.author, TRUE), l, w, t)
        BY <1>5, <1>6, <1>8, <2>1, <3>1, <3>2, SentGood
      <4>2. QED
        BY <1>5, <4>1 DEF RespondAgain, Answered
    <3> HIDE DEF z
    <3>4. Begins(x, z)
      BY <1>5, <1>12, <3>3 DEF Begins
    <3>5. QED
      BY <3>3, <3>4 DEF z
  <2>3. QED
    BY <1>3, <1>12, <2>2
<1>13. CASE l.fc \notin {"OTHER", "SELECT"} /\ ~(l.fc = "OPERATE" /\ IsRetry(x, l, prev))
  <2>1. Once(y, l)
    <3> SUFFICES ASSUME l.fc = "OPERATE", Done(y, l)
                 PROVE  FALSE
      BY DEF Once
    <3>1. Done(x, l) /\ prev
      BY <1>9
    <3>2. x.last = l
      BY <3>1 DEF Done, Ready, Remembered
    <3>3. IsRetry(x, l, prev)
      BY <3>1, <3>2 DEF IsRetry, SameAPDU
    <3>4. QED
      BY <1>13, <3>3
  <2>2. Begins(x, y)
    BY <1>5, <1>13 DEF Begins
  <2>3. DoRequest(x, l, prev, next) = y
    BY <1>3, <1>13
  <2>4. QED
    BY <1>6, <1>8, <2>1, <2>2, <2>3 DEF Good
<1>14. QED
  BY <1>10, <1>11, <1>12, <1>13

\* A request that AS_Idle finds deferred is begun (Slave::FlushDeferredEvents).
LEMMA FlushRequestGood ==
  ASSUME NEW x, NEW l \in Request, NEW w \in Nat, NEW t, Good(x, l, w, t), x.pc = "free"
  PROVE  LET y == FlushRequest([x EXCEPT !.state = "Idle"]) IN Good(y, l, w, t) /\ Begins(x, y)
<1> DEFINE y == [x EXCEPT !.state = "Idle"]
           z == [y EXCEPT !.deferred = FALSE, !.request = NoRequest]
<1>1. x \in Stack
  BY DEF Good, Ready
<1>2. y \in Stack
  BY <1>1 DEF Stack, States
<1>3. /\ y.state = "Idle" /\ y.pc = "free" /\ y.deferred = x.deferred /\ y.request = x.request
      /\ y.heard = x.heard /\ y.answers = x.answers /\ y.last = x.last /\ y.response = x.response
      /\ y.out = x.out /\ y.select = x.select /\ y.sequence = x.sequence /\ y.reqPrev = x.reqPrev
  BY <1>1 DEF Stack
<1>4. z \in Stack
  BY <1>2, NoRequestType DEF Stack
<1>5. /\ z.state = y.state /\ z.pc = y.pc /\ ~z.deferred
      /\ z.heard = y.heard /\ z.answers = y.answers /\ z.last = y.last /\ z.response = y.response
      /\ z.out = y.out /\ z.select = y.select /\ z.sequence = y.sequence
  BY <1>2 DEF Stack
<1>6. FlushRequest(y) = IF y.deferred THEN DoRequest(z, y.request, y.reqPrev, "WaitForRspSuccess")
                                      ELSE y
  BY <1>3 DEF FlushRequest
<1> HIDE DEF y, z
<1>7. CASE ~x.deferred
  <2>1. Ready(y, l, w, t) /\ Settled(y) /\ Once(y, l)
    BY <1>2, <1>3, <1>7
       DEF Good, Ready, Follows, Remembered, Alike, Truth, Settled, Once, Done
  <2>2. Begins(x, y)
    BY <1>3 DEF Begins
  <2>3. QED
    BY <1>3, <1>6, <1>7, <2>1, <2>2 DEF Good, y
<1>8. CASE x.deferred
  <2>1. Ready(z, l, w, t)
    BY <1>3, <1>4, <1>5 DEF Good, Ready, Follows, Remembered, Alike, Truth
  <2>2. y.request = l /\ y.reqPrev \in BOOLEAN /\ (l.fc = "OPERATE" /\ Done(z, l) => y.reqPrev)
    BY <1>1, <1>3, <1>5, <1>8 DEF Good, Ready, Follows, Once, Done, Stack
  <2>3. "WaitForRspSuccess" \in States
    BY DEF States
  <2>4. /\ Good(DoRequest(z, l, y.reqPrev, "WaitForRspSuccess"), l, w, t)
        /\ Begins(z, DoRequest(z, l, y.reqPrev, "WaitForRspSuccess"))
    BY <1>5, <2>1, <2>2, <2>3, DoRequestGood
  <2>5. Begins(x, DoRequest(z, l, y.reqPrev, "WaitForRspSuccess"))
    BY <1>3, <1>5, <2>4 DEF Begins
  <2>6. FlushRequest(y) = DoRequest(z, l, y.reqPrev, "WaitForRspSuccess")
    BY <1>3, <1>6, <1>8, <2>2
  <2>7. QED
    BY <2>4, <2>5, <2>6 DEF y
<1>9. QED
  BY <1>7, <1>8

\* A new request, or a repetition on the connection that heard it (Slave::OnRequest)
LEMMA OnRequestGood ==
  ASSUME NEW x, NEW l \in Request, NEW w \in Nat, NEW t, Good(x, l, w, t), x.pc = "free",
         NEW r \in Request, r.id > l.id \/ (r = l /\ x.heard # -1)
  PROVE  LET y == OnRequest(x, r) IN Good(y, r, w, t) /\ Begins(x, y)
<1> DEFINE prev == SequenceOf(r) = x.heard
           heard == SequenceOf(r)
           y == [x EXCEPT !.heard = heard]
           z == [y EXCEPT !.deferred = FALSE, !.request = NoRequest]
           d == [y EXCEPT !.deferred = TRUE, !.request = r, !.reqPrev = prev]
<1>1. x \in Stack
  BY DEF Good, Ready
<1>2. heard \in -1 .. 15 /\ prev \in BOOLEAN
  <2>1. heard \in 0 .. 15
    BY SequenceType
  <2> HIDE DEF heard
  <2>2. QED
    BY <2>1
<1>3. OnRequest(x, r) =
        CASE x.state = "Idle" -> DoRequest(y, r, prev, "WaitForRspSuccess")
          [] x.state = "WaitForUnsolSuccess" -> DoRequest(z, r, prev, "WaitForSolUnsolSuccess")
          [] OTHER -> d
  BY DEF OnRequest
<1>4. Remembered(x, r) /\ (Done(x, r) => r = l /\ x.heard # -1)
  <2>1. CASE r.id > l.id
    <3>1. r.id \in Nat /\ l.id \in Nat
      BY DEF Request
    <3>2. ASSUME NEW a \in x.answers
          PROVE  a.request.id <= r.id /\ a.request.id # r.id
      <4>1. a.request.id \in Nat
        BY <1>1 DEF Stack, Reply, Request
      <4>2. a.request.id <= l.id
        BY DEF Good, Ready, Remembered
      <4>3. QED
        BY <2>1, <3>1, <4>1, <4>2
    <3>3. QED
      BY <3>2 DEF Remembered, Done
  <2>2. CASE r = l /\ x.heard # -1
    BY <2>2 DEF Good, Ready
  <2>3. QED
    BY <2>1, <2>2
<1>5. Done(x, r) => prev
  BY <1>4 DEF Good, Ready, Follows
<1>6. heard = SequenceOf(r)
  OBVIOUS
<1>7. /\ OnRequest(x, r) = DoRequest(y, r, prev, "WaitForRspSuccess") \/ x.state # "Idle"
      /\ x.state = "WaitForUnsolSuccess" => OnRequest(x, r) = DoRequest(z, r, prev, "WaitForSolUnsolSuccess")
      /\ x.state \notin {"Idle", "WaitForUnsolSuccess"} => OnRequest(x, r) = d
  BY <1>3
<1> HIDE DEF heard, prev
<1>8. y \in Stack
  BY <1>1, <1>2 DEF Stack
<1>9. /\ y.state = x.state /\ y.pc = "free" /\ y.deferred = x.deferred /\ y.heard = heard
      /\ y.answers = x.answers /\ y.last = x.last /\ y.response = x.response
      /\ y.out = x.out /\ y.select = x.select /\ y.sequence = x.sequence
  BY <1>1 DEF Stack
<1>10. z \in Stack /\ d \in Stack
  <2>1. NoRequest \in Request /\ TRUE \in BOOLEAN /\ FALSE \in BOOLEAN /\ prev \in BOOLEAN
    BY <1>2, NoRequestType
  <2>2. z \in Stack
    BY <1>8, <2>1 DEF Stack
  <2>3. d \in Stack
    BY <1>8, <2>1 DEF Stack
  <2>4. QED
    BY <2>2, <2>3
<1>11. /\ z.state = y.state /\ z.pc = y.pc /\ ~z.deferred
       /\ z.heard = y.heard /\ z.answers = y.answers /\ z.last = y.last /\ z.response = y.response
       /\ z.out = y.out /\ z.select = y.select /\ z.sequence = y.sequence
  BY <1>8 DEF Stack
<1>12. /\ d.state = y.state /\ d.pc = y.pc /\ d.request = r /\ d.reqPrev = prev
       /\ d.heard = y.heard /\ d.answers = y.answers /\ d.last = y.last /\ d.response = y.response
       /\ d.out = y.out /\ d.select = y.select /\ d.sequence = y.sequence
  BY <1>8 DEF Stack
<1> HIDE DEF y, z, d
<1>13. "WaitForRspSuccess" \in States /\ "WaitForSolUnsolSuccess" \in States
  BY DEF States
<1>14. CASE x.state = "Idle"
  <2>1. ~y.deferred
    BY <1>9, <1>14 DEF Good, Settled
  <2>2. Ready(y, r, w, t)
    BY <1>4, <1>6, <1>8, <1>9, <2>1 DEF Good, Ready, Follows, Remembered, Alike, Truth
  <2>3. r.fc = "OPERATE" /\ Done(y, r) => prev
    BY <1>5, <1>9 DEF Done
  <2>4. /\ Good(DoRequest(y, r, prev, "WaitForRspSuccess"), r, w, t)
        /\ Begins(y, DoRequest(y, r, prev, "WaitForRspSuccess"))
    BY <1>2, <1>13, <2>1, <2>2, <2>3, DoRequestGood
  <2>5. Begins(x, DoRequest(y, r, prev, "WaitForRspSuccess"))
    BY <1>9, <2>4 DEF Begins
  <2>6. QED
    BY <1>7, <1>14, <2>4, <2>5
<1>15. CASE x.state = "WaitForUnsolSuccess"
  <2>1. Ready(z, r, w, t)
    BY <1>4, <1>6, <1>9, <1>10, <1>11 DEF Good, Ready, Follows, Remembered, Alike, Truth
  <2>2. r.fc = "OPERATE" /\ Done(z, r) => prev
    BY <1>5, <1>9, <1>11 DEF Done
  <2>3. /\ Good(DoRequest(z, r, prev, "WaitForSolUnsolSuccess"), r, w, t)
        /\ Begins(z, DoRequest(z, r, prev, "WaitForSolUnsolSuccess"))
    BY <1>2, <1>11, <1>13, <2>1, <2>2, DoRequestGood
  <2>4. Begins(x, DoRequest(z, r, prev, "WaitForSolUnsolSuccess"))
    BY <1>9, <1>11, <2>3 DEF Begins
  <2>5. QED
    BY <1>7, <1>15, <2>3, <2>4
<1>16. CASE x.state \notin {"Idle", "WaitForUnsolSuccess"}
  <2>1. Ready(d, r, w, t)
    BY <1>4, <1>6, <1>9, <1>10, <1>12 DEF Good, Ready, Follows, Remembered, Alike, Truth
  <2>2. Settled(d) /\ Begins(x, d)
    BY <1>9, <1>12, <1>16 DEF Settled, Begins
  <2>3. Once(d, r)
    BY <1>5, <1>9, <1>12 DEF Once, Done
  <2>4. QED
    BY <1>7, <1>16, <2>1, <2>2, <2>3 DEF Good
<1>17. QED
  BY <1>14, <1>15, <1>16

---------------------------------------------------------------------------
(* Handling the objects of a request, one by one (Slave::RespondToCommands) *)

LEMMA AppendShown ==
  ASSUME NEW q \in Seq(Shown), NEW e \in Shown, NEW w \in Nat, NEW t, Truthful(q, w, t),
         e.sequence # 0 => e \in t \/ (e.status = "HARDWARE_ERROR" /\ w > 0)
  PROVE  Append(q, e) \in Seq(Shown) /\ Truthful(Append(q, e), w, t)
<1>1. \A k \in DOMAIN Append(q, e) : Append(q, e)[k] = e \/ (k \in DOMAIN q /\ Append(q, e)[k] = q[k])
  OBVIOUS
<1>2. QED
  BY <1>1 DEF Truthful

\* What the handling of an object leaves alone
Handles(x, y) ==
  /\ y \in Stack /\ y.pc # "free" /\ y.state = x.state /\ y.deferred = x.deferred
  /\ y.request = x.request /\ y.reqPrev = x.reqPrev /\ y.heard = x.heard
  /\ y.last = x.last /\ y.response = x.response /\ y.current = x.current
  /\ y.answers = x.answers

\* An object is answered: the points may change, and the answer is true.
LEMMA ObjectGood ==
  ASSUME NEW x, NEW l, NEW w, NEW t, Good(x, l, w, t), x.pc # "free",
         NEW y, Handles(x, y), Truthful(y.out, w, t)
  PROVE  Good(y, l, w, t)
BY DEF Handles, Good, Ready, Follows, Remembered, Alike, Truth, Settled, Once, Done

\* The state and the selections of the stack's thread may change while it handles nothing.
LEMMA StateGood ==
  ASSUME NEW x, NEW l \in Request, NEW w \in Nat, NEW t, Good(x, l, w, t),
         NEW select \in [Points -> Selection], NEW state \in States, NEW heard \in {-1, x.heard},
         state = "Idle" => x.state = "Idle"
  PROVE  Good([x EXCEPT !.select = select, !.state = state, !.heard = heard], l, w, t)
<1> DEFINE y == [x EXCEPT !.select = select, !.state = state, !.heard = heard]
<1>1. x \in Stack
  BY DEF Good, Ready
<1>2. heard \in -1 .. 15
  <2>1. x.heard \in -1 .. 15
    BY <1>1 DEF Stack
  <2>2. QED
    BY <2>1
<1>3. y \in Stack
  BY <1>1, <1>2 DEF Stack
<1>4. /\ y.state = state /\ y.pc = x.pc /\ y.deferred = x.deferred /\ y.request = x.request
      /\ y.reqPrev = x.reqPrev /\ y.current = x.current
      /\ y.heard = heard /\ y.answers = x.answers /\ y.last = x.last /\ y.response = x.response
      /\ y.out = x.out /\ y.select = select /\ y.sequence = x.sequence
  BY <1>1 DEF Stack
<1> HIDE DEF y
<1>5. Follows(y, l)
  BY <1>4 DEF Good, Ready, Follows
<1>6. QED
  BY <1>3, <1>4, <1>5 DEF Good, Ready, Remembered, Alike, Truth, Settled, Once, Done, y

\* What was true stays so when more is told, or another wait ends too early.
LEMMA TruthKept ==
  ASSUME NEW x, NEW l, NEW w \in Nat, NEW t, Good(x, l, w, t),
         NEW v \in Nat, v >= w, NEW u, t \subseteq u
  PROVE  Good(x, l, v, u)
<1>1. \A q : Truthful(q, w, t) => Truthful(q, v, u)
  BY DEF Truthful
<1>2. QED
  BY <1>1 DEF Good, Ready, Truth

---------------------------------------------------------------------------
(* The history of selections and commands *)

LEMMA NoteType ==
  ASSUME NEW kind \in Kinds, NEW id \in Nat, NEW point \in Nat, NEW value \in Values \cup {"none"}
  PROVE  /\ Note(kind, id, point, value) \in Entry
         /\ Note(kind, id, point, value).kind = kind /\ Note(kind, id, point, value).id = id
         /\ Note(kind, id, point, value).point = point /\ Note(kind, id, point, value).value = value
BY DEF Note, Entry

LEMMA AppendEntry ==
  ASSUME NEW lg \in Seq(Entry), NEW e \in Entry
  PROVE  /\ Append(lg, e) \in Seq(Entry) /\ Len(Append(lg, e)) = Len(lg) + 1 /\ Len(lg) \in Nat
         /\ Append(lg, e)[Len(lg) + 1] = e
         /\ DOMAIN lg = 1 .. Len(lg) /\ DOMAIN Append(lg, e) = 1 .. Len(lg) + 1
         /\ \A i \in 1 .. Len(lg) : Append(lg, e)[i] = lg[i]
OBVIOUS

\* An entry that ends no selection of point p leaves the one that made it.
LEMMA SelectionKept ==
  ASSUME NEW lg \in Seq(Entry), NEW e \in Entry, NEW p, NEW sel, NEW i \in DOMAIN lg,
         SelectedAt(lg, i, p, sel), e.kind \notin {"SELECT", "elapsed"}, e.point # p
  PROVE  i \in DOMAIN Append(lg, e) /\ SelectedAt(Append(lg, e), i, p, sel)
<1> DEFINE n == Len(lg)
           m == Append(lg, e)
<1>1. i \in 1 .. n /\ n \in Nat
  BY AppendEntry
<1>2. Len(m) = n + 1 /\ m[n + 1] = e /\ DOMAIN m = 1 .. n + 1 /\ \A k \in 1 .. n : m[k] = lg[k]
  BY AppendEntry
<1> HIDE DEF m
<1>3. ASSUME NEW k \in (i + 1) .. Len(m)
      PROVE  m[k].kind \notin {"SELECT", "elapsed"} /\ m[k].point # p
  <2>1. k = n + 1 \/ k \in (i + 1) .. n
    BY <1>1, <1>2
  <2>2. CASE k \in (i + 1) .. n
    <3>1. k \in 1 .. n
      BY <1>1, <2>2
    <3>2. QED
      BY <1>2, <2>2, <3>1 DEF SelectedAt
  <2>3. QED
    BY <1>2, <2>1, <2>2
<1>4. i \in DOMAIN m /\ m[i] = lg[i]
  BY <1>1, <1>2
<1> HIDE DEF n
<1>5. QED
  BY <1>3, <1>4 DEF SelectedAt, m

\* A command that is operated was selected by the entry that the selection of its point is.
LEMMA CommandOperated ==
  ASSUME NEW lg \in Seq(Entry), NEW e \in Entry, Operated(lg),
         e.kind = "operated" =>
           \E i \in DOMAIN lg : \E sel :
             /\ SelectedAt(lg, i, e.point, sel) /\ sel.value = e.value
             /\ e.id % 16 = (sel.seq + 1) % 16 /\ sel.seq \in 0 .. 15
  PROVE  Operated(Append(lg, e))
<1> DEFINE n == Len(lg)
           m == Append(lg, e)
<1>1. /\ n \in Nat /\ DOMAIN lg = 1 .. n
      /\ Len(m) = n + 1 /\ m[n + 1] = e /\ DOMAIN m = 1 .. n + 1 /\ \A k \in 1 .. n : m[k] = lg[k]
  BY AppendEntry
<1> HIDE DEF m, n
<1> SUFFICES ASSUME NEW j \in DOMAIN m, m[j].kind = "operated"
             PROVE  \E i \in 1..(j - 1) :
                      /\ m[i].kind = "selected" /\ m[i].point = m[j].point
                      /\ m[i].value = m[j].value
                      /\ (m[j].id - m[i].id) % 16 = 1
                      /\ \A k \in (i + 1)..(j - 1) :
                           m[k].kind \notin {"SELECT", "elapsed"} /\ m[k].point # m[j].point
  BY DEF Operated, m
<1>2. CASE j \in 1 .. n
  <2>1. m[j] = lg[j] /\ j \in DOMAIN lg
    BY <1>1, <1>2
  <2>2. PICK i \in 1..(j - 1) :
          /\ lg[i].kind = "selected" /\ lg[i].point = lg[j].point /\ lg[i].value = lg[j].value
          /\ (lg[j].id - lg[i].id) % 16 = 1
          /\ \A k \in (i + 1)..(j - 1) : lg[k].kind \notin {"SELECT", "elapsed"}
                                        /\ lg[k].point # lg[j].point
    BY <2>1 DEF Operated
  <2>3. \A k \in 1 .. (j - 1) : k \in 1 .. n
    BY <1>1, <1>2
  <2>4. \A k \in (i + 1) .. (j - 1) : k \in 1 .. (j - 1)
    OBVIOUS
  <2>5. QED
    BY <1>1, <2>1, <2>2, <2>3, <2>4
<1>3. CASE j = n + 1
  <2>1. m[j] = e
    BY <1>1, <1>3
  <2>2. PICK i \in DOMAIN lg : \E sel :
             /\ SelectedAt(lg, i, e.point, sel) /\ sel.value = e.value
             /\ e.id % 16 = (sel.seq + 1) % 16 /\ sel.seq \in 0 .. 15
    BY <2>1
  <2>3. PICK sel : /\ SelectedAt(lg, i, e.point, sel) /\ sel.value = e.value
                   /\ e.id % 16 = (sel.seq + 1) % 16 /\ sel.seq \in 0 .. 15
    BY <2>2
  <2>4. lg[i].id \in Nat /\ e.id \in Nat
    <3>1. lg[i] \in Entry
      OBVIOUS
    <3>2. QED
      BY <3>1 DEF Entry
  <2>5. (e.id - lg[i].id) % 16 = 1
    <3> DEFINE a == e.id
               b == lg[i].id
               c == sel.seq
    <3>1. a \in Nat /\ b \in Nat /\ c \in 0 .. 15 /\ a % 16 = (c + 1) % 16 /\ b % 16 = c
      BY <2>3, <2>4 DEF SelectedAt
    <3> HIDE DEF a, b, c
    <3>2. (a - b) % 16 = 1
      BY <3>1
    <3>3. QED
      BY <3>2 DEF a, b
  <2>6. i \in 1 .. (j - 1) /\ j - 1 = n /\ m[i] = lg[i]
    BY <1>1, <1>3
  <2>7. \A k \in (i + 1) .. (j - 1) : m[k] = lg[k] /\ k \in (i + 1) .. Len(lg)
    BY <1>1, <1>3 DEF n
  <2>8. QED
    BY <2>1, <2>3, <2>5, <2>6, <2>7 DEF SelectedAt
<1>4. QED
  BY <1>1, <1>2, <1>3

---------------------------------------------------------------------------
(* The invariant, action by action *)

LEMMA StackFacts ==
  ASSUME Inv
  PROVE  /\ s \in Stack /\ Ready(s, last, count.wakeups, told) /\ count.wakeups \in Nat
         /\ last \in Request /\ s.current \in Request /\ s.select \in [Points -> Selection]
         /\ s.sequence \in Nat /\ s.out \in Seq(Shown) /\ Truthful(s.out, count.wakeups, told)
<1>1. s \in Stack /\ Ready(s, last, count.wakeups, told) /\ last \in Request
  BY DEF Inv, Good, Ready, Types
<1>2. count.wakeups \in Nat
  BY DEF Inv, Types
<1>3. Truthful(s.out, count.wakeups, told)
  BY <1>1 DEF Ready, Truth
<1>4. QED
  BY <1>1, <1>2, <1>3 DEF Stack

LEMMA CountTypes ==
  ASSUME count \in [requests : Nat, incidents : Nat, wakeups : Nat]
  PROVE  /\ [count EXCEPT !.requests = @ + 1] \in [requests : Nat, incidents : Nat, wakeups : Nat]
         /\ [count EXCEPT !.requests = @ + 1].wakeups = count.wakeups
         /\ \A n \in {0, 1} :
              Incident(n) => /\ count' \in [requests : Nat, incidents : Nat, wakeups : Nat]
                             /\ count'.wakeups = count.wakeups + n
<1> DEFINE C == [requests : Nat, incidents : Nat, wakeups : Nat]
<1>1. count.requests \in Nat /\ count.incidents \in Nat /\ count.wakeups \in Nat
  OBVIOUS
<1>2. /\ [count EXCEPT !.requests = @ + 1] \in C
      /\ [count EXCEPT !.requests = @ + 1].wakeups = count.wakeups
  OBVIOUS
<1>3. ASSUME NEW n \in {0, 1}, Incident(n)
      PROVE  count' \in C /\ count'.wakeups = count.wakeups + n
  <2> DEFINE i == count.incidents + 1
             w == count.wakeups + n
  <2>1. i \in Nat /\ w \in Nat
    BY <1>1
  <2>2. count' = [count EXCEPT !.incidents = i, !.wakeups = w]
    BY <1>3 DEF Incident
  <2> HIDE DEF i
  <2>3. count' \in C
    <3> HIDE DEF w
    <3>1. QED
      BY <2>1, <2>2
  <2>4. count'.wakeups = w
    <3> HIDE DEF w
    <3>1. QED
      BY <2>1, <2>2
  <2>5. QED
    BY <2>3, <2>4
<1>4. QED
  BY <1>2, <1>3

\* The queues do not matter to a thread that handles nothing and waits for nothing.
LEMMA ThreadsKept ==
  ASSUME Inv, UNCHANGED Application, count'.wakeups = count.wakeups,
         s.pc \notin Waits, s'.pc \notin Waits
  PROVE  Threads'
BY DEF Inv, Threads, Application, UnderWay, Waits

\* A request begins to be handled, or is deferred or answered at once.
LEMMA BeginInv ==
  ASSUME Inv, s.pc = "free", Begins(s, s'), LogSelect, UNCHANGED Application,
         last' \in Request, Good(s', last', count.wakeups, told),
         count' \in [requests : Nat, incidents : Nat, wakeups : Nat],
         count'.wakeups = count.wakeups
  PROVE  Inv'
<1>1. log \in Seq(Entry) /\ Operated(log) /\ Selected(s.select, log)
  BY DEF Inv, Types, Selections
<1>2. s'.current.id \in Nat
  <2>1. s'.current \in Request
    BY DEF Good, Ready, Stack
  <2>2. QED
    BY <2>1 DEF Request
<1>3. Threads'
  BY ThreadsKept DEF Begins, Waits
<1>4. log' \in Seq(Entry) /\ Selections'
  <2>1. CASE s'.pc = "object" /\ s'.current.fc = "SELECT"
    <3> DEFINE e == Note("SELECT", s'.current.id, 0, "none")
    <3>1. e \in Entry /\ e.kind = "SELECT"
      BY <1>2, NoteType DEF Kinds
    <3>2. log' = Append(log, e)
      BY <2>1 DEF LogSelect
    <3> HIDE DEF e
    <3>3. log' \in Seq(Entry) /\ Operated(log')
      BY <1>1, <3>1, <3>2, CommandOperated, AppendEntry
    <3>4. \A p \in Points : ~s'.select[p].on
      BY <2>1, UnselectedType DEF Begins
    <3>5. QED
      BY <3>3, <3>4 DEF Selections, Selected
  <2>2. CASE ~(s'.pc = "object" /\ s'.current.fc = "SELECT")
    <3>1. log' = log /\ s'.select = s.select
      BY <2>2 DEF LogSelect, Begins
    <3>2. QED
      BY <1>1, <3>1 DEF Selections
  <2>3. QED
    BY <2>1, <2>2
<1>5. Types'
  BY <1>4 DEF Inv, Types, Application
<1>6. Good(s', last', count'.wakeups, told')
  BY DEF Application
<1>7. QED
  BY <1>3, <1>4, <1>5, <1>6 DEF Inv

LEMMA RequestInv ==
  ASSUME Inv, NewRequest \/ RepeatRequest
  PROVE  Inv'
<1>1. /\ Good(s, last, count.wakeups, told) /\ last \in Request /\ count.wakeups \in Nat
      /\ count \in [requests : Nat, incidents : Nat, wakeups : Nat]
  BY StackFacts DEF Inv, Types
<1>2. CASE NewRequest
  <2>1. PICK fc \in Functions, lost \in IF last.id = 0 THEN {0} ELSE Skips :
          \E objs \in IF fc = "OTHER" THEN {<<>>} ELSE Lists :
            last' = [id |-> last.id + 1 + lost, fc |-> fc, objs |-> objs]
    BY <1>2 DEF NewRequest
  <2>2. PICK objs \in IF fc = "OTHER" THEN {<<>>} ELSE Lists :
          last' = [id |-> last.id + 1 + lost, fc |-> fc, objs |-> objs]
    BY <2>1
  <2>3. last.id \in Nat /\ lost \in Nat /\ objs \in Seq(Object)
    <3>1. last.id \in Nat
      BY <1>1 DEF Request
    <3>2. lost \in {0} \cup Skips
      OBVIOUS
    <3>3. objs \in {<<>>} \cup Lists
      OBVIOUS
    <3>4. <<>> \in Seq(Object)
      OBVIOUS
    <3>5. QED
      BY <3>1, <3>2, <3>3, <3>4, ControlsAssumption
  <2>4. last.id + 1 + lost \in Nat /\ last.id + 1 + lost > last.id
    BY <2>3
  <2> DEFINE n == last.id + 1 + lost
  <2> HIDE DEF n
  <2>5. last' = [id |-> n, fc |-> fc, objs |-> objs] /\ n \in Nat /\ n > last.id
    BY <2>2, <2>4 DEF n
  <2>6. last' \in Request /\ last'.id > last.id
    BY <2>3, <2>5 DEF Request
  <2>7. s.pc = "free" /\ s' = OnRequest(s, last')
    BY <1>2 DEF NewRequest, Free
  <2>8. Good(s', last', count.wakeups, told) /\ Begins(s, s')
    BY <1>1, <2>6, <2>7, OnRequestGood
  <2>9. /\ count' \in [requests : Nat, incidents : Nat, wakeups : Nat]
        /\ count'.wakeups = count.wakeups
    BY <1>1, <1>2, CountTypes DEF NewRequest
  <2>10. QED
    BY <1>2, <2>6, <2>7, <2>8, <2>9, BeginInv DEF NewRequest
<1>3. CASE RepeatRequest
  <2>1. s.pc = "free" /\ s' = OnRequest(s, last) /\ s.heard # -1 /\ last' = last
    BY <1>3 DEF RepeatRequest, Free
  <2>2. Good(s', last', count.wakeups, told) /\ Begins(s, s')
    BY <1>1, <2>1, OnRequestGood
  <2>3. /\ count' \in [requests : Nat, incidents : Nat, wakeups : Nat]
        /\ count'.wakeups = count.wakeups
    BY <1>1, <1>3, CountTypes DEF RepeatRequest
  <2>4. QED
    BY <1>1, <1>3, <2>1, <2>2, <2>3, BeginInv DEF RepeatRequest
<1>4. QED
  BY <1>2, <1>3

LEMMA SameLog ==
  ASSUME Inv, UNCHANGED log, s'.select = s.select
  PROVE  log' \in Seq(Entry) /\ Selections'
BY DEF Inv, Types, Selections

\* The state of Slave changes, and the request that it deferred may begin.
LEMMA StateInv ==
  ASSUME Inv, ResponseEnds \/ UnsolEnds \/ OnLowerLayerUp \/ OnLowerLayerDown \/ SendUnsolicited
  PROVE  Inv'
<1>1. /\ Good(s, last, count.wakeups, told) /\ last \in Request /\ count.wakeups \in Nat
      /\ count \in [requests : Nat, incidents : Nat, wakeups : Nat]
      /\ s.select \in [Points -> Selection] /\ s \in Stack
  BY StackFacts DEF Inv, Types
<1>2. s.pc = "free" /\ UNCHANGED Application /\ last' = last
  BY DEF ResponseEnds, UnsolEnds, OnLowerLayerUp, OnLowerLayerDown, SendUnsolicited, Free
<1>3. ASSUME s' = FlushRequest([s EXCEPT !.state = "Idle"]), LogSelect, count' = count
      PROVE  Inv'
  <2>1. Good(s', last, count.wakeups, told) /\ Begins(s, s')
    BY <1>1, <1>2, <1>3, FlushRequestGood
  <2>2. QED
    BY <1>1, <1>2, <1>3, <2>1, BeginInv
<1>4. ASSUME NEW state \in States \ {"Idle"}, NEW heard \in {-1, s.heard},
             s' = [s EXCEPT !.state = state, !.heard = heard],
             LogSelect \/ log' = log,
             count' \in [requests : Nat, incidents : Nat, wakeups : Nat],
             count'.wakeups = count.wakeups
      PROVE  Inv'
  <2>1. /\ s' = [s EXCEPT !.select = s.select, !.state = state, !.heard = heard]
        /\ s'.pc = "free" /\ s'.select = s.select
    BY <1>1, <1>2, <1>4 DEF Stack
  <2>2. Good(s', last, count.wakeups, told)
    <3>1. state \in States /\ (state = "Idle" => s.state = "Idle")
      OBVIOUS
    <3>2. Good([s EXCEPT !.select = s.select, !.state = state, !.heard = heard], last, count.wakeups, told)
      BY <1>1, <1>4, <3>1, StateGood
    <3>3. QED
      BY <2>1, <3>2
  <2>3. log' = log
    BY <1>4, <2>1 DEF LogSelect
  <2>4. Threads'
    BY <1>2, <1>4, <2>1, ThreadsKept DEF Waits
  <2>5. log' \in Seq(Entry) /\ Selections'
    BY <2>1, <2>3, SameLog
  <2>6. Types'
    BY <1>1, <1>2, <1>4, <2>5 DEF Inv, Types, Application
  <2>7. QED
    BY <1>2, <1>4, <2>2, <2>4, <2>5, <2>6 DEF Inv, Application
<1>5. CASE ResponseEnds
  <2>1. CASE s' = FlushRequest([s EXCEPT !.state = "Idle"])
    BY <1>3, <1>5, <2>1 DEF ResponseEnds
  <2>2. CASE s' = [s EXCEPT !.state = "WaitForUnsolSuccess"]
    <3>1. s' = [s EXCEPT !.state = "WaitForUnsolSuccess", !.heard = s.heard]
      BY <1>1, <2>2 DEF Stack
    <3>2. LogSelect /\ count' = count
      BY <1>5 DEF ResponseEnds
    <3>3. "WaitForUnsolSuccess" \in States \ {"Idle"} /\ s.heard \in {-1, s.heard}
      BY DEF States
    <3>4. QED
      BY <1>1, <1>4, <3>1, <3>2, <3>3
  <2>3. QED
    BY <1>5, <2>1, <2>2 DEF ResponseEnds
<1>6. CASE UnsolEnds
  <2>1. CASE s' = FlushRequest([s EXCEPT !.state = "Idle"])
    BY <1>3, <1>6, <2>1 DEF UnsolEnds
  <2>2. CASE s' = [s EXCEPT !.state = "WaitForRspSuccess"]
    <3>1. s' = [s EXCEPT !.state = "WaitForRspSuccess", !.heard = s.heard]
      BY <1>1, <2>2 DEF Stack
    <3>2. LogSelect /\ count' = count
      BY <1>6 DEF UnsolEnds
    <3>3. "WaitForRspSuccess" \in States \ {"Idle"} /\ s.heard \in {-1, s.heard}
      BY DEF States
    <3>4. QED
      BY <1>1, <1>4, <3>1, <3>2, <3>3
  <2>3. QED
    BY <1>6, <2>1, <2>2 DEF UnsolEnds
<1>7. CASE OnLowerLayerUp
  BY <1>3, <1>7 DEF OnLowerLayerUp
<1>8. CASE OnLowerLayerDown
  <2>1. Incident(0) /\ log' = log /\ s' = [s EXCEPT !.state = "Closed", !.heard = -1]
    BY <1>8 DEF OnLowerLayerDown
  <2>2. /\ count' \in [requests : Nat, incidents : Nat, wakeups : Nat]
        /\ count'.wakeups = count.wakeups
    BY <1>1, <2>1, CountTypes
  <2>3. "Closed" \in States \ {"Idle"} /\ -1 \in {-1, s.heard}
    BY DEF States
  <2>4. QED
    BY <1>4, <2>1, <2>2, <2>3
<1>9. CASE SendUnsolicited
  <2>1. Incident(0) /\ log' = log /\ s' = [s EXCEPT !.state = "WaitForUnsolSuccess"]
    BY <1>9 DEF SendUnsolicited
  <2>2. /\ count' \in [requests : Nat, incidents : Nat, wakeups : Nat]
        /\ count'.wakeups = count.wakeups
    BY <1>1, <2>1, CountTypes
  <2>3. s' = [s EXCEPT !.state = "WaitForUnsolSuccess", !.heard = s.heard]
    BY <1>1, <2>1 DEF Stack
  <2>4. "WaitForUnsolSuccess" \in States \ {"Idle"} /\ s.heard \in {-1, s.heard}
    BY DEF States
  <2>5. QED
    BY <1>4, <2>1, <2>2, <2>3, <2>4
<1>10. QED
  BY <1>5, <1>6, <1>7, <1>8, <1>9

\* The selections grow old.
LEMMA ElapseInv == ASSUME Inv, Elapse PROVE Inv'
<1> DEFINE select == [p \in Points |-> Aged(s.select[p])]
           e == Note("elapsed", 0, 0, "none")
<1>1. /\ Good(s, last, count.wakeups, told) /\ count.wakeups \in Nat /\ s \in Stack
      /\ s.select \in [Points -> Selection]
  BY StackFacts DEF Inv
<1>2. /\ s' = [s EXCEPT !.select = select]
      /\ log' = Append(log, e) /\ UNCHANGED <<Application, last, count>>
  BY DEF Elapse
<1>3. ASSUME NEW sel \in Selection
      PROVE  Aged(sel) \in Selection /\ Aged(sel).on = sel.on /\ (sel.on => Aged(sel).old)
  <2> DEFINE old == sel.old \/ sel.on
  <2>1. old \in BOOLEAN /\ (sel.on => old)
    BY DEF Selection
  <2>2. Aged(sel) = [sel EXCEPT !.old = old]
    BY DEF Aged
  <2> HIDE DEF old
  <2>3. QED
    BY <2>1, <2>2 DEF Selection
<1>4. \A p \in Points : select[p] = Aged(s.select[p]) /\ s.select[p] \in Selection
  BY <1>1
<1>5. \A p \in Points : select[p] \in Selection /\ (select[p].on => select[p].old)
  BY <1>3, <1>4
<1>6. select \in [Points -> Selection]
  BY <1>5
<1> HIDE DEF select
<1>7. /\ s' = [s EXCEPT !.select = select, !.state = s.state, !.heard = s.heard]
      /\ s'.pc = s.pc /\ s'.select = select /\ s'.sequence = s.sequence /\ s.state \in States
  BY <1>1, <1>2, <1>6 DEF Stack
<1>8. Good(s', last, count.wakeups, told)
  <2>1. s.heard \in {-1, s.heard} /\ last \in Request
    BY StackFacts
  <2>2. QED
    BY <1>1, <1>6, <1>7, <2>1, StateGood
<1>9. Threads'
  BY <1>2, <1>7 DEF Inv, Threads, Application, UnderWay, Mine
<1>10. e \in Entry /\ e.kind = "elapsed"
  BY NoteType DEF Kinds
<1> HIDE DEF e
<1>11. log \in Seq(Entry) /\ Operated(log)
  BY DEF Inv, Types, Selections
<1>12. log' \in Seq(Entry) /\ Operated(log')
  BY <1>2, <1>10, <1>11, CommandOperated, AppendEntry
<1>13. Selected(select, log')
  BY <1>5 DEF Selected
<1>14. Selections'
  BY <1>7, <1>12, <1>13 DEF Selections
<1>15. Types'
  BY <1>2, <1>12 DEF Inv, Types, Application
<1>16. QED
  BY <1>2, <1>8, <1>9, <1>14, <1>15 DEF Inv, Application

\* The queues do not matter while an object is refused or selected.
LEMMA ObjectInv ==
  ASSUME Inv, s.pc = "object", NEW select \in [Points -> Selection], NEW sequence \in Nat,
         NEW status \in Statuses,
         s' = [s EXCEPT !.select = select, !.sequence = sequence, !.iin = @ \cup Bits(status),
                        !.out = Append(@, Status(status, 0))],
         log' \in Seq(Entry), Selected(select, log'), Operated(log'),
         UNCHANGED <<Application, last, count>>
  PROVE  Inv'
<1> DEFINE e == Status(status, 0)
           out == Append(s.out, e)
           iin == s.iin \cup Bits(status)
<1>1. /\ Good(s, last, count.wakeups, told) /\ last \in Request /\ count.wakeups \in Nat /\ s \in Stack
      /\ s.out \in Seq(Shown) /\ Truthful(s.out, count.wakeups, told)
  BY StackFacts DEF Inv
<1>2. e \in Shown /\ e.sequence = 0
  BY DEF Status, Shown
<1> HIDE DEF e
<1>3. out \in Seq(Shown) /\ Truthful(out, count.wakeups, told)
  BY <1>1, <1>2, AppendShown
<1>4. /\ s' = [s EXCEPT !.select = select, !.sequence = sequence, !.pc = "object", !.iin = iin,
                        !.out = out]
      /\ iin \in SUBSET Bit
  BY <1>1, StatusTypes DEF Stack, e
<1> HIDE DEF out, iin
<1>5. s.pc # "free"
  OBVIOUS
<1>6. Handles(s, s') /\ s'.select = select /\ s'.pc = "object" /\ s'.out = out
  <2>1. s' \in Stack
    BY <1>1, <1>3, <1>4 DEF Stack
  <2>2. QED
    BY <1>1, <1>4, <2>1 DEF Handles, Stack
<1>7. Good(s', last, count.wakeups, told)
  BY <1>1, <1>3, <1>5, <1>6, ObjectGood
<1>8. UNCHANGED Application /\ count'.wakeups = count.wakeups /\ s'.pc \notin Waits /\ s.pc \notin Waits
  BY <1>6 DEF Waits
<1>9. Threads'
  BY <1>8, ThreadsKept
<1>10. Types' /\ Selections'
  BY <1>6 DEF Inv, Types, Application, Selections
<1>11. QED
  BY <1>7, <1>9, <1>10 DEF Inv, Application

\* The object that is next
LEMMA UpcomingType ==
  ASSUME Inv, More
  PROVE  /\ s.pc = "object" /\ s.current = last /\ s.current \in Request
         /\ Upcoming \in Object /\ Upcoming.point \in Nat /\ Upcoming.value \in Values
         /\ s.current.id \in Nat
<1>1. /\ s.pc = "object" /\ s.current = last /\ s.current \in Request /\ s.out \in Seq(Shown)
  BY StackFacts DEF More, Ready, Follows
<1>2. s.current.objs \in Seq(Object) /\ s.current.id \in Nat
  BY <1>1 DEF Request
<1>3. Len(s.out) + 1 \in DOMAIN s.current.objs
  BY <1>1, <1>2 DEF More
<1>4. Upcoming \in Object
  BY <1>2, <1>3 DEF Upcoming
<1>5. QED
  BY <1>1, <1>2, <1>4 DEF Object

LEMMA PassOverInv == ASSUME Inv, PassOver PROVE Inv'
<1>1. s.select \in [Points -> Selection] /\ s.sequence \in Nat /\ "nothing" \in Statuses
  BY StackFacts, StatusTypes
<1>2. log' \in Seq(Entry) /\ Selected(s.select, log') /\ Operated(log')
  BY DEF PassOver, Inv, Types, Selections
<1>3. QED
  BY <1>1, <1>2, ObjectInv DEF PassOver, Answer, More

LEMMA RefuseObjectInv == ASSUME Inv, RefuseObject PROVE Inv'
<1>1. s.select \in [Points -> Selection] /\ s.sequence \in Nat /\ "TOO_MANY_OPS" \in Statuses
  BY StackFacts, StatusTypes
<1>2. log' \in Seq(Entry) /\ Selected(s.select, log') /\ Operated(log')
  BY DEF RefuseObject, Inv, Types, Selections
<1>3. QED
  BY <1>1, <1>2, ObjectInv DEF RefuseObject, Answer, More

\* A point is selected, or refuses it (DNPCommandMaster::Select).
LEMMA SelectObjectInv == ASSUME Inv, SelectObject PROVE Inv'
<1> DEFINE p == Upcoming.point
           sel == [on |-> TRUE, old |-> FALSE, seq |-> SequenceOf(s.current), value |-> Upcoming.value]
           select == [s.select EXCEPT ![p] = sel]
           e == Note("selected", s.current.id, p, Upcoming.value)
<1>1. More /\ s.pc = "object"
  BY DEF SelectObject, More
<1>2. /\ s.select \in [Points -> Selection] /\ s.sequence \in Nat
      /\ "NOT_SUPPORTED" \in Statuses /\ "SUCCESS" \in Statuses
      /\ s.current \in Request /\ log \in Seq(Entry) /\ Selected(s.select, log) /\ Operated(log)
      /\ Upcoming.value \in Values /\ p \in Nat /\ s.current.id \in Nat
  BY <1>1, StackFacts, StatusTypes, UpcomingType DEF Inv, Types, Selections
<1>3. CASE Bound /\ Modes[p] # "DO_ONLY"
  <2>1. /\ s' = [s EXCEPT !.select = select, !.sequence = s.sequence,
                          !.iin = @ \cup Bits("SUCCESS"), !.out = Append(@, Status("SUCCESS", 0))]
        /\ log' = Append(log, e) /\ UNCHANGED <<Application, last, count>>
    BY <1>3 DEF SelectObject, Answer
  <2>2. p \in Points
    BY <1>3 DEF Bound
  <2>3. SequenceOf(s.current) \in 0 .. 15
    BY <1>2, SequenceType
  <2>4. sel \in Selection /\ sel.seq = SequenceOf(s.current) /\ sel.value = Upcoming.value
    BY <1>2, <2>3 DEF Selection
  <2>5. e \in Entry /\ e.kind = "selected" /\ e.id = s.current.id /\ e.point = p /\ e.value = Upcoming.value
    <3>1. "selected" \in Kinds /\ Upcoming.value \in Values \cup {"none"} /\ p \in Nat
      BY <1>2 DEF Kinds
    <3>2. s.current.id \in Nat
      BY <1>2
    <3> HIDE DEF sel, select, p
    <3>3. QED
      BY <3>1, <3>2, NoteType
  <2> HIDE DEF e, sel, p
  <2>6. select \in [Points -> Selection] /\ select[p] = sel /\ \A o \in Points \ {p} : select[o] = s.select[o]
    BY <1>2, <2>2, <2>4
  <2> HIDE DEF select
  <2>7. log' \in Seq(Entry) /\ Operated(log')
    BY <1>2, <2>1, <2>5, CommandOperated, AppendEntry
  <2>8. Selected(select, log')
    <3> SUFFICES ASSUME NEW o \in Points, select[o].on, ~select[o].old
                 PROVE  \E i \in DOMAIN log' : SelectedAt(log', i, o, select[o])
      BY DEF Selected
    <3>1. CASE o = p
      <4>1. /\ Len(log) + 1 \in DOMAIN log' /\ log'[Len(log) + 1] = e
            /\ (Len(log) + 1) + 1 > Len(log') /\ Len(log') = Len(log) + 1 /\ Len(log) \in Nat
        BY <1>2, <2>1, <2>5, AppendEntry
      <4>2. \A k \in ((Len(log) + 1) + 1) .. Len(log') : FALSE
        BY <4>1
      <4>3. SelectedAt(log', Len(log) + 1, o, select[o])
        BY <2>4, <2>5, <2>6, <3>1, <4>1, <4>2 DEF SelectedAt, SequenceOf
      <4>4. QED
        BY <4>1, <4>3
    <3>2. CASE o # p
      <4>1. select[o] = s.select[o]
        BY <2>6, <3>2
      <4>2. PICK i \in DOMAIN log : SelectedAt(log, i, o, s.select[o])
        BY <1>2, <4>1 DEF Selected
      <4>3. i \in DOMAIN log' /\ SelectedAt(log', i, o, s.select[o])
        BY <1>2, <2>1, <2>5, <3>2, <4>2, SelectionKept
      <4>4. QED
        BY <4>1, <4>3
    <3>3. QED
      BY <3>1, <3>2
  <2>9. QED
    BY <1>1, <1>2, <2>1, <2>6, <2>7, <2>8, ObjectInv
<1>4. CASE ~(Bound /\ Modes[p] # "DO_ONLY")
  <2>1. /\ s' = [s EXCEPT !.select = s.select, !.sequence = s.sequence,
                          !.iin = @ \cup Bits("NOT_SUPPORTED"), !.out = Append(@, Status("NOT_SUPPORTED", 0))]
        /\ log' = log /\ UNCHANGED <<Application, last, count>>
    BY <1>4 DEF SelectObject, Answer
  <2>2. QED
    BY <1>1, <1>2, <2>1, ObjectInv
<1>5. QED
  BY <1>3, <1>4

LEMMA DeselectType ==
  ASSUME NEW select \in [Points -> Selection], NEW p
  PROVE  /\ Deselect(select, p) \in [Points -> Selection]
         /\ \A o \in Points : Deselect(select, p)[o].on => Deselect(select, p)[o] = select[o] /\ o # p
BY UnselectedType DEF Deselect

\* Losing selections keeps the invariant.
LEMMA FewerSelected ==
  ASSUME NEW select, NEW lg, Selected(select, lg), NEW sel,
         \A o \in Points : sel[o].on => sel[o] = select[o]
  PROVE  Selected(sel, lg)
BY DEF Selected

\* An object of an OPERATE or DIRECT_OPERATE is refused (DNPCommandMaster::Operate).
LEMMA RefuseOperateInv == ASSUME Inv, RefuseOperate PROVE Inv'
<1> DEFINE p == Upcoming.point
           select == IF Bound /\ s.current.fc = "OPERATE" /\ ~s.select[p].old
                       THEN Deselect(s.select, p) ELSE s.select
           sequence == s.sequence + 1
<1>1. More /\ s.pc = "object"
  BY DEF RefuseOperate, Operating, More
<1>2. /\ s.select \in [Points -> Selection] /\ s.sequence \in Nat
      /\ log \in Seq(Entry) /\ Selected(s.select, log) /\ Operated(log)
  BY <1>1, StackFacts DEF Inv, Types, Selections
<1>3. /\ s' = [s EXCEPT !.select = select, !.sequence = sequence,
                        !.iin = @ \cup Bits(Refusal), !.out = Append(@, Status(Refusal, 0))]
      /\ log' = log /\ UNCHANGED <<Application, last, count>>
  BY DEF RefuseOperate, Answer
<1>4. Refusal \in {"NOT_SUPPORTED", "NO_SELECT", "TIMEOUT", "none"}
  BY DEF Refusal
<1>5. Refusal \in Statuses
  BY <1>4, StatusTypes DEF RefuseOperate
<1>6. select \in [Points -> Selection] /\ \A o \in Points : select[o].on => select[o] = s.select[o]
  BY <1>2, DeselectType
<1>7. sequence \in Nat
  BY <1>2
<1> HIDE DEF select, sequence
<1>8. Selected(select, log)
  BY <1>2, <1>6, FewerSelected
<1>9. QED
  BY <1>1, <1>2, <1>3, <1>5, <1>6, <1>7, <1>8, ObjectInv

\* A command is handed to the application (DNPCommandMaster::Operate, CommandQueue).
LEMMA OperateObjectInv == ASSUME Inv, OperateObject PROVE Inv'
<1> DEFINE p == Upcoming.point
           select == Deselect(s.select, p)
           sequence == s.sequence + 1
           kind == IF s.current.fc = "OPERATE" THEN "operated" ELSE "direct"
           e == Note(kind, s.current.id, p, Upcoming.value)
<1>1. More /\ s.pc = "object" /\ Refusal = "none"
  BY DEF OperateObject, Operating, More
<1>2. /\ s.select \in [Points -> Selection] /\ s.sequence \in Nat /\ s \in Stack
      /\ s.current \in Request /\ log \in Seq(Entry) /\ Selected(s.select, log) /\ Operated(log)
      /\ Upcoming.value \in Values /\ p \in Nat /\ s.current.id \in Nat
      /\ Good(s, last, count.wakeups, told) /\ Truthful(s.out, count.wakeups, told)
      /\ count.wakeups \in Nat
  BY <1>1, StackFacts, UpcomingType DEF Inv, Types, Selections
<1>3. /\ s' = [s EXCEPT !.select = select, !.sequence = sequence, !.pc = "find"]
      /\ commands' = Append(commands, [sequence |-> sequence])
      /\ log' = Append(log, e) /\ UNCHANGED <<app, results, signal, told, last, count>>
  BY <1>2 DEF OperateObject, Stack
<1>4. /\ select \in [Points -> Selection]
      /\ \A o \in Points : select[o].on => select[o] = s.select[o] /\ o # p
  BY <1>2, DeselectType
<1>5. sequence \in Nat
  BY <1>2
<1>6. e \in Entry /\ e.kind = kind /\ e.id = s.current.id /\ e.point = p /\ e.value = Upcoming.value
  <2>1. kind \in Kinds
    BY DEF Kinds
  <2> HIDE DEF kind
  <2>2. QED
    BY <1>2, <2>1, NoteType
<1>7. e.kind = "operated" => s.current.fc = "OPERATE"
  BY <1>6
<1>8. e.kind \notin {"SELECT", "elapsed"}
  BY <1>6
<1>9. s.current.fc = "OPERATE" =>
        /\ p \in Points /\ s.select[p].on /\ ~s.select[p].old
        /\ Matches(s.select[p], s.current, Upcoming)
  BY <1>1 DEF Refusal, Bound
<1> HIDE DEF e, kind, select, sequence
<1>10. Operated(log')
  <2>1. ASSUME e.kind = "operated"
        PROVE  \E i \in DOMAIN log : \E sel :
                 /\ SelectedAt(log, i, e.point, sel) /\ sel.value = e.value
                 /\ e.id % 16 = (sel.seq + 1) % 16 /\ sel.seq \in 0 .. 15
    <3>1. p \in Points /\ s.select[p].on /\ ~s.select[p].old /\ Matches(s.select[p], s.current, Upcoming)
      BY <1>7, <1>9, <2>1
    <3>2. PICK i \in DOMAIN log : SelectedAt(log, i, p, s.select[p])
      BY <1>2, <3>1 DEF Selected
    <3>3. s.select[p].seq \in 0 .. 15
      BY <1>2, <3>1 DEF Selection
    <3>4. s.select[p].value = e.value /\ e.id % 16 = (s.select[p].seq + 1) % 16 /\ e.point = p
      BY <1>6, <3>1 DEF Matches, SequenceOf
    <3> HIDE DEF p
    <3>5. QED
      BY <3>2, <3>3, <3>4
  <2>2. QED
    BY <1>2, <1>3, <1>6, <2>1, CommandOperated
<1>11. Selected(select, log')
  <2> SUFFICES ASSUME NEW o \in Points, select[o].on, ~select[o].old
               PROVE  \E i \in DOMAIN log' : SelectedAt(log', i, o, select[o])
    BY DEF Selected
  <2>1. select[o] = s.select[o] /\ o # p
    BY <1>4
  <2>2. PICK i \in DOMAIN log : SelectedAt(log, i, o, s.select[o])
    BY <1>2, <2>1 DEF Selected
  <2>3. i \in DOMAIN log' /\ SelectedAt(log', i, o, s.select[o])
    BY <1>2, <1>3, <1>6, <1>8, <2>1, <2>2, SelectionKept
  <2>4. QED
    BY <2>1, <2>3
<1>12. Handles(s, s') /\ s'.select = select /\ s'.pc = "find" /\ s'.sequence = sequence /\ s'.out = s.out
  <2>1. s' \in Stack
    BY <1>2, <1>3, <1>4, <1>5 DEF Stack
  <2>2. QED
    BY <1>2, <1>3, <2>1 DEF Handles, Stack
<1>13. Good(s', last, count.wakeups, told)
  BY <1>1, <1>2, <1>12, ObjectGood
<1>14. commands' \in Seq(Command) /\ Len(commands') = Len(commands) + 1
  BY <1>3, <1>5 DEF Inv, Types, Command
<1>15. Threads'
  <2>1. /\ commands \in Seq(Command) /\ app \in Seq(Command) /\ results \in Seq(Result)
        /\ s.pc \notin Waits /\ s'.pc \in Waits /\ UnderWay <= count.wakeups /\ UnderWay \in Nat
    BY <1>1, <1>12 DEF Inv, Types, Threads, Waits, UnderWay
  <2>2. UnderWay' = UnderWay + 1
    BY <1>3, <1>14, <2>1 DEF UnderWay
  <2>3. ASSUME count.wakeups = 0
        PROVE  Mine'
    <3>1. commands = <<>> /\ app = <<>> /\ results = <<>>
      BY <2>1, <2>3 DEF UnderWay
    <3>2. commands' = <<[sequence |-> sequence]>>
      BY <1>3, <3>1
    <3>3. QED
      BY <1>3, <1>12, <3>1, <3>2 DEF Mine, AllOf
  <2>4. UnderWay' <= count'.wakeups + (IF s'.pc \in Waits THEN 1 ELSE 0)
    BY <1>2, <1>3, <2>1, <2>2
  <2>5. s'.pc \in Waits /\ count'.wakeups = 0 => UnderWay' = 1 /\ Mine'
    BY <1>2, <1>3, <2>1, <2>2, <2>3
  <2>6. \A i \in DOMAIN results' : Status(results'[i].status, results'[i].sequence) \in told'
    BY <1>3 DEF Inv, Threads
  <2>7. QED
    BY <1>12, <2>4, <2>5, <2>6 DEF Threads
<1>16. Types'
  <2>1. log' \in Seq(Entry)
    BY <1>2, <1>3, <1>6, AppendEntry
  <2>2. QED
    BY <1>3, <1>14, <2>1 DEF Inv, Types
<1>17. QED
  BY <1>3, <1>10, <1>11, <1>12, <1>13, <1>15, <1>16 DEF Inv, Selections

\* The request has been handled and is answered (Slave::SendResponse).
LEMMA FinishRequestInv == ASSUME Inv, FinishRequest PROVE Inv'
<1> DEFINE y == Respond(s, s.out)
           broken == y.broken /\ s.current.fc # "DIRECT_OPERATE_NO_ACK"
<1>1. /\ s.pc = "object" /\ s \in Stack /\ Ready(s, last, count.wakeups, told) /\ count.wakeups \in Nat
      /\ last \in Request /\ s.out \in Seq(Shown) /\ Truthful(s.out, count.wakeups, told)
      /\ Settled(s) /\ Once(s, last)
  BY StackFacts DEF FinishRequest, Inv, Good
<1>2. s.current = last /\ ~s.deferred /\ (last.fc = "OPERATE" => ~Done(s, last))
  BY <1>1 DEF Ready, Follows, Once
<1>3. /\ Good(y, last, count.wakeups, told) /\ y.pc = "free" /\ y.select = s.select
      /\ y.sequence = s.sequence /\ y.state = s.state /\ ~y.deferred
  <2>1. last.id \in Nat /\ FALSE \in BOOLEAN
    BY <1>1 DEF Request
  <2>2. Answered(s, Sent(s, s.out, last.id, FALSE), last, count.wakeups, told)
    BY <1>1, <1>2, <2>1, SentGood
  <2>3. QED
    BY <1>2, <2>2 DEF Respond, Answered<1>4. s' = [y EXCEPT !.broken = broken] /\ UNCHANGED <<Application, last, count, log>>
  BY <1>1 DEF FinishRequest
<1>5. broken \in BOOLEAN
  OBVIOUS
<1> HIDE DEF broken, y
<1>6. y \in Stack
  BY <1>3 DEF Good, Ready
<1>7. s' \in Stack
  BY <1>4, <1>5, <1>6 DEF Stack
<1>8. /\ s'.state = y.state /\ s'.pc = y.pc /\ s'.deferred = y.deferred /\ s'.request = y.request
      /\ s'.reqPrev = y.reqPrev /\ s'.current = y.current
      /\ s'.heard = y.heard /\ s'.answers = y.answers /\ s'.last = y.last
      /\ s'.response = y.response /\ s'.out = y.out /\ s'.select = y.select
  BY <1>4, <1>6 DEF Stack
<1>9. Good(s', last, count.wakeups, told)
  BY <1>3, <1>7, <1>8 DEF Good, Ready, Follows, Remembered, Alike, Truth, Settled, Once, Done
<1>10. Threads'
  <2>1. s.pc \notin Waits /\ s'.pc \notin Waits /\ UNCHANGED Application /\ count'.wakeups = count.wakeups
    BY <1>1, <1>3, <1>4, <1>8 DEF Waits
  <2>2. QED
    BY <2>1, ThreadsKept
<1>11. log' \in Seq(Entry) /\ Selections'
  BY <1>3, <1>4, <1>8, SameLog
<1>12. Types'
  BY <1>4, <1>11 DEF Inv, Types, Application
<1>13. QED
  BY <1>4, <1>9, <1>10, <1>11, <1>12 DEF Inv, Application

---------------------------------------------------------------------------
(* The two queues *)

\* Every set of numbers that is not empty has a least one.
LEMMA LeastNumber ==
  ASSUME NEW T \in SUBSET Nat, T # {}
  PROVE  \E x \in T : \A y \in T : x <= y
<1>1. IsWellFoundedOn(OpToRel(<, Nat), Nat)
  BY NatLessThanWellFounded
<1>2. PICK x \in T : \A y \in T : ~(<<y, x>> \in OpToRel(<, Nat))
  BY <1>1, WFMin
<1>3. \A y \in T : ~(y < x)
  BY <1>2 DEF OpToRel
<1>4. x \in Nat /\ T \subseteq Nat
  OBVIOUS
<1> HIDE <1>1, <1>2
<1> QED BY <1>3, <1>4

\* The answer that is found is one for the sequence asked for (CommandResponseQueue::FindResponse).
LEMMA PositionFacts ==
  ASSUME results \in Seq(Result), NEW sequence, Found(sequence)
  PROVE  Position(sequence) \in DOMAIN results /\ results[Position(sequence)].sequence = sequence
<1> DEFINE T == {i \in 1 .. Len(results) : IsFor(results[i], sequence)}
<1>1. T \in SUBSET Nat /\ T # {}
  BY DEF Found
<1>2. \E i \in T : \A j \in T : i <= j
  BY <1>1, LeastNumber
<1>3. Position(sequence) = CHOOSE i \in T : \A j \in T : i <= j
  BY <1>1 DEF Position, SelectInSeq, Min
<1>4. Position(sequence) \in T
  BY <1>2, <1>3
<1>5. QED
  BY <1>4 DEF IsFor

\* What is behind an element of the queue is shorter than the queue.
LEMMA Behind ==
  ASSUME results \in Seq(Result), NEW i \in DOMAIN results,
         results' = SubSeq(results, i + 1, Len(results))
  PROVE  /\ results' \in Seq(Result) /\ Len(results') + 1 <= Len(results)
         /\ \A j \in DOMAIN results' : \E k \in DOMAIN results : results'[j] = results[k]
<1>1. i \in 1 .. Len(results) /\ Len(results) \in Nat
  OBVIOUS
<1>2. results' \in Seq(Result) /\ Len(results') = Len(results) - i
  BY <1>1
<1>3. ASSUME NEW j \in DOMAIN results'
      PROVE  \E k \in DOMAIN results : results'[j] = results[k]
  <2>1. j \in 1 .. Len(results) - i
    BY <1>2
  <2>2. i + j \in DOMAIN results /\ results'[j] = results[i + j]
    BY <1>1, <2>1
  <2>3. QED
    BY <2>2
<1>4. QED
  BY <1>1, <1>2, <1>3

\* The wait of the stack's thread ends: with the application's answer, or because a wait ended
\* too early (Slave::Operate).
LEMMA ReturnInv ==
  ASSUME Inv, s.pc \in Waits, NEW status \in Statuses, Return(status),
         results' \in Seq(Result), Len(results') + 1 <= Len(results) \/ count'.wakeups = count.wakeups + 1,
         Len(results') <= Len(results),
         \A j \in DOMAIN results' : \E k \in DOMAIN results : results'[j] = results[k],
         Status(status, s.sequence) \in told \/ (status = "HARDWARE_ERROR" /\ count'.wakeups > 0),
         count' \in [requests : Nat, incidents : Nat, wakeups : Nat],
         count'.wakeups >= count.wakeups,
         signal' = FALSE, UNCHANGED <<commands, app, told, last, log>>
  PROVE  Inv'
<1> DEFINE e == Status(status, s.sequence)
           out == Append(s.out, e)
<1>1. /\ Good(s, last, count.wakeups, told) /\ count.wakeups \in Nat /\ s \in Stack
      /\ s.out \in Seq(Shown) /\ Truthful(s.out, count.wakeups, told) /\ s.sequence \in Nat
  BY StackFacts DEF Inv
<1>2. count'.wakeups \in Nat
  OBVIOUS
<1>3. Good(s, last, count'.wakeups, told)
  BY <1>1, <1>2, TruthKept
<1>4. Truthful(s.out, count'.wakeups, told)
  BY <1>3 DEF Good, Ready, Truth
<1>5. e \in Shown /\ (e \in told \/ (e.status = "HARDWARE_ERROR" /\ count'.wakeups > 0))
  BY <1>1 DEF Status, Shown
<1>6. s' = [s EXCEPT !.pc = "object", !.out = out]
  BY <1>1 DEF Return, Stack
<1> HIDE DEF e
<1>7. out \in Seq(Shown) /\ Truthful(out, count'.wakeups, told)
  BY <1>1, <1>2, <1>4, <1>5, AppendShown
<1> HIDE DEF out
<1>8. Handles(s, s') /\ s'.select = s.select /\ s'.pc = "object" /\ s'.out = out
  <2>1. s' \in Stack
    BY <1>1, <1>6, <1>7 DEF Stack
  <2>2. QED
    BY <1>1, <1>6, <2>1 DEF Handles, Stack
<1>9. Good(s', last, count'.wakeups, told)
  BY <1>3, <1>7, <1>8, ObjectGood DEF Waits
<1>10. Threads'
  <2>1. /\ commands \in Seq(Command) /\ app \in Seq(Command) /\ results \in Seq(Result)
        /\ UnderWay <= count.wakeups + 1
    BY DEF Inv, Types, Threads
  <2>2. UnderWay' <= count'.wakeups
    BY <1>1, <1>2, <2>1 DEF UnderWay
  <2>3. s'.pc \notin Waits
    BY <1>8 DEF Waits
  <2>4. \A i \in DOMAIN results' : Status(results'[i].status, results'[i].sequence) \in told'
    BY DEF Inv, Threads
  <2>5. UnderWay' \in Nat
    BY <2>1 DEF UnderWay
  <2>6. QED
    BY <1>2, <2>2, <2>3, <2>4, <2>5 DEF Threads, Waits
<1>11. log' \in Seq(Entry) /\ Selections'
  BY <1>8, SameLog
<1>12. Types'
  BY <1>11 DEF Inv, Types
<1>13. QED
  BY <1>9, <1>10, <1>11, <1>12 DEF Inv

\* The answer is in the queue: it is taken, with whatever was in front of it.
LEMMA TakeInv ==
  ASSUME Inv, s.pc \in Waits, TakeResponse, signal' = FALSE,
         count' \in [requests : Nat, incidents : Nat, wakeups : Nat],
         count'.wakeups >= count.wakeups, UNCHANGED <<commands, app, told, last, log>>
  PROVE  Inv'
<1> DEFINE i == Position(s.sequence)
<1>1. results \in Seq(Result)
  BY DEF Inv, Types
<1>2. i \in DOMAIN results /\ results[i].sequence = s.sequence
  BY <1>1, PositionFacts DEF TakeResponse
<1>3. results' = SubSeq(results, i + 1, Len(results)) /\ Return(results[i].status)
  BY DEF TakeResponse
<1> HIDE DEF i
<1>4. /\ results' \in Seq(Result) /\ Len(results') + 1 <= Len(results)
      /\ \A j \in DOMAIN results' : \E k \in DOMAIN results : results'[j] = results[k]
  BY <1>1, <1>2, <1>3, Behind
<1>5. results[i].status \in Statuses
  <2>1. results[i] \in Result
    BY <1>1, <1>2
  <2>2. results[i].status \in Outcomes
    BY <2>1 DEF Result
  <2>3. QED
    BY <2>2, StatusTypes
<1>6. Status(results[i].status, s.sequence) \in told
  BY <1>2 DEF Inv, Threads
<1>7. Len(results') <= Len(results)
  BY <1>1, <1>4
<1>8. QED
  BY <1>3, <1>4, <1>5, <1>6, <1>7, ReturnInv

\* A search of the queue throws everything away that is not what it looks for.
LEMMA NothingFound ==
  ASSUME Inv, s.pc \in Waits, ~Found(s.sequence), count.wakeups = 0
  PROVE  results = <<>>
<1>1. results \in Seq(Result) /\ AllOf(results, s.sequence)
  BY DEF Inv, Types, Threads, Mine
<1>2. \A i \in DOMAIN results : FALSE
  BY <1>1 DEF Found, IsFor, AllOf
<1>3. ASSUME results # <<>>
      PROVE  1 \in DOMAIN results
  BY <1>1, <1>3
<1>4. QED
  BY <1>2, <1>3

\* WaitForResponse takes the answer, or begins to wait for it.
LEMMA WaitForResponseInv == ASSUME Inv, WaitForResponse PROVE Inv'
<1>1. /\ s.pc \in Waits /\ signal' = FALSE /\ UNCHANGED <<commands, app, told, last, count, log>>
      /\ s.pc = "find"
  BY DEF WaitForResponse, Waits
<1>2. /\ count \in [requests : Nat, incidents : Nat, wakeups : Nat] /\ count.wakeups \in Nat
      /\ commands \in Seq(Command) /\ app \in Seq(Command) /\ results \in Seq(Result)
  BY StackFacts DEF Inv, Types
<1>3. CASE TakeResponse
  <2>1. /\ count' \in [requests : Nat, incidents : Nat, wakeups : Nat]
        /\ count'.wakeups >= count.wakeups
    BY <1>1, <1>2
  <2>2. QED
    BY <1>1, <1>3, <2>1, TakeInv
<1>4. CASE ~Found(s.sequence) /\ results' = <<>> /\ s' = [s EXCEPT !.pc = "wait"]
  <2>1. /\ Good(s, last, count.wakeups, told) /\ s \in Stack /\ Truthful(s.out, count.wakeups, told)
    BY StackFacts DEF Inv
  <2>2. /\ Handles(s, s') /\ s'.select = s.select /\ s'.pc = "wait" /\ s'.out = s.out
        /\ s'.sequence = s.sequence
    <3>1. s' \in Stack
      BY <1>4, <2>1 DEF Stack
    <3>2. QED
      BY <1>4, <2>1, <3>1 DEF Handles, Stack
  <2>3. Good(s', last, count.wakeups, told)
    BY <1>1, <2>1, <2>2, ObjectGood
  <2>4. Threads'
    <3>1. UnderWay <= count.wakeups + 1
      BY <1>1 DEF Inv, Threads
    <3>2. UnderWay' <= count'.wakeups + 1
      BY <1>1, <1>2, <1>4, <3>1 DEF UnderWay
    <3>3. ASSUME count'.wakeups = 0
          PROVE  UnderWay' = 1 /\ Mine'
      <4>1. results = <<>> /\ UnderWay = 1 /\ Mine
        BY <1>1, <1>4, <3>3, NothingFound DEF Inv, Threads
      <4>2. QED
        BY <1>1, <1>4, <2>2, <4>1 DEF UnderWay, Mine
    <3>4. s'.pc \in Waits
      BY <2>2 DEF Waits
    <3>5. QED
      BY <1>1, <1>4, <2>2, <3>2, <3>3, <3>4 DEF Threads
  <2>5. log' \in Seq(Entry) /\ Selections'
    BY <1>1, <2>2, SameLog
  <2>6. Types'
    <3>1. results' \in Seq(Result)
      BY <1>4
    <3>2. signal' \in BOOLEAN
      BY <1>1
    <3>3. QED
      BY <1>1, <2>5, <3>1, <3>2 DEF Inv, Types
  <2>7. QED
    BY <1>1, <2>3, <2>4, <2>5, <2>6 DEF Inv
<1>5. QED
  BY <1>3, <1>4 DEF WaitForResponse, ThereBefore

\* Wait returns, with or without the answer.
LEMMA WakeUpInv == ASSUME Inv, WakeUp PROVE Inv'
<1>1. /\ s.pc \in Waits /\ signal' = FALSE /\ UNCHANGED <<commands, app, told, last, log>>
      /\ s.pc = "wait"
  BY DEF WakeUp, Waits
<1>2. /\ count \in [requests : Nat, incidents : Nat, wakeups : Nat] /\ count.wakeups \in Nat
      /\ results \in Seq(Result)
  BY StackFacts DEF Inv, Types
<1>3. /\ count' \in [requests : Nat, incidents : Nat, wakeups : Nat]
      /\ \/ signal /\ count'.wakeups = count.wakeups
         \/ count'.wakeups = count.wakeups + 1
  BY <1>2, CountTypes DEF WakeUp
<1>4. count'.wakeups >= count.wakeups
  BY <1>2, <1>3
<1>5. CASE TakeResponse
  BY <1>1, <1>3, <1>4, <1>5, TakeInv
<1>6. CASE ~Found(s.sequence) /\ results' = <<>> /\ Return("HARDWARE_ERROR")
  <2>1. results' \in Seq(Result) /\ Len(results') <= Len(results) /\ DOMAIN results' = {}
    BY <1>2, <1>6
  <2>2. count'.wakeups > 0
    <3>1. CASE signal /\ count'.wakeups = count.wakeups
      <4>1. results # <<>>
        BY <1>1, <3>1 DEF Inv, Threads
      <4>2. QED
        BY <1>1, <1>2, <1>6, <3>1, <4>1, NothingFound
    <3>2. CASE count'.wakeups = count.wakeups + 1
      BY <1>2, <3>2
    <3>3. QED
      BY <1>3, <3>1, <3>2
  <2>3. Len(results') + 1 <= Len(results) \/ count'.wakeups = count.wakeups + 1
    <3>1. CASE signal
      <4>1. results # <<>>
        BY <1>1, <3>1 DEF Inv, Threads
      <4>2. QED
        BY <1>2, <1>6, <4>1
    <3>2. QED
      BY <1>3, <3>1
  <2>4. "HARDWARE_ERROR" \in Statuses
    BY StatusTypes
  <2>5. QED
    BY <1>1, <1>3, <1>4, <1>6, <2>1, <2>2, <2>3, <2>4, ReturnInv
<1>7. QED
  BY <1>5, <1>6 DEF WakeUp

\* The application's thread reads the next command (CommandQueue::ExecuteCommand).
LEMMA ReadCommandInv == ASSUME Inv, ReadCommand PROVE Inv'
<1>1. /\ app = <<>> /\ commands # <<>> /\ app' = <<Head(commands)>> /\ commands' = Tail(commands)
      /\ UNCHANGED <<s, results, signal, told, last, count, log>>
  BY DEF ReadCommand
<1>2. commands \in Seq(Command) /\ results \in Seq(Result)
  BY DEF Inv, Types
<1>3. /\ Head(commands) \in Command /\ Head(commands) = commands[1] /\ 1 \in DOMAIN commands
      /\ Tail(commands) \in Seq(Command) /\ Len(Tail(commands)) = Len(commands) - 1
      /\ \A i \in DOMAIN Tail(commands) : i + 1 \in DOMAIN commands /\ Tail(commands)[i] = commands[i + 1]
  BY <1>1, <1>2
<1>4. UnderWay' = UnderWay
  BY <1>1, <1>2, <1>3 DEF UnderWay
<1>5. Mine => Mine'
  BY <1>1, <1>3 DEF Mine, AllOf
<1>6. Threads'
  BY <1>1, <1>4, <1>5 DEF Inv, Threads
<1>7. app' \in Seq(Command) /\ Len(app') <= 1
  BY <1>1, <1>3
<1>8. Types' /\ Selections'
  BY <1>1, <1>3, <1>7 DEF Inv, Types, Selections
<1>9. QED
  BY <1>1, <1>6, <1>8 DEF Inv

\* The application's answer is put into the queue, and a thread that waits is signalled
\* (CommandResponseQueue::AcceptResponse).
LEMMA AcceptResponseInv == ASSUME Inv, AcceptResponse PROVE Inv'
<1>1. PICK status \in Outcomes :
        /\ results' = <<[sequence |-> app[1].sequence, status |-> status]>> \o results
        /\ told' = told \cup {Status(status, app[1].sequence)}
  BY DEF AcceptResponse
<1>2. /\ app # <<>> /\ app' = <<>> /\ signal' = (s.pc = "wait")
      /\ UNCHANGED <<s, commands, last, count, log>>
  BY DEF AcceptResponse, Signals
<1>3. commands \in Seq(Command) /\ app \in Seq(Command) /\ results \in Seq(Result) /\ Len(app) <= 1
  BY DEF Inv, Types
<1> DEFINE n == app[1].sequence
           rsp == [sequence |-> n, status |-> status]
<1>4. 1 \in DOMAIN app /\ Len(app) = 1 /\ n \in Nat
  <2>1. 1 \in DOMAIN app /\ Len(app) = 1
    <3>1. app # <<>> /\ app \in Seq(Command) /\ Len(app) <= 1
      BY <1>2, <1>3
    <3>2. 1 \in DOMAIN app
      BY <3>1
    <3>3. DOMAIN app = 1 .. Len(app) /\ Len(app) \in Nat
      BY <3>1
    <3>4. QED
      BY <3>1, <3>2, <3>3
  <2>2. app[1] \in Command
    <3>1. app \in Seq(Command)
      BY <1>3
    <3>2. \A i \in DOMAIN app : app[i] \in Command
      BY <3>1
    <3>3. QED
      BY <2>1, <3>2
  <2>3. QED
    BY <2>1, <2>2 DEF Command
<1>5. /\ rsp \in Result /\ rsp.sequence = n
      /\ Status(rsp.status, rsp.sequence) \in told' /\ told \subseteq told'
      /\ Status(status, n) \in [status : Outcomes, sequence : Nat]
  BY <1>1, <1>4 DEF Result, Status
<1>6. results' = <<rsp>> \o results
  BY <1>1
<1> HIDE DEF rsp
<1>7. /\ results' \in Seq(Result) /\ Len(results') = Len(results) + 1
      /\ \A i \in DOMAIN results' : results'[i] = rsp \/ \E k \in DOMAIN results : results'[i] = results[k]
  <2>1. results' \in Seq(Result) /\ Len(results') = Len(results) + 1
    BY <1>3, <1>5, <1>6
  <2>2. ASSUME NEW i \in DOMAIN results'
        PROVE  results'[i] = rsp \/ \E k \in DOMAIN results : results'[i] = results[k]
    <3>1. CASE i = 1
      BY <1>3, <1>5, <1>6, <3>1
    <3>2. CASE i # 1
      <4>1. i - 1 \in DOMAIN results
        BY <1>3, <2>1, <2>2, <3>2
      <4>2. results'[i] = results[i - 1]
        BY <1>3, <1>5, <1>6, <2>2, <3>2, <4>1
      <4>3. QED
        BY <4>1, <4>2
    <3>3. QED
      BY <3>1, <3>2
  <2>3. QED
    BY <2>1, <2>2
<1>8. results' # <<>>
  BY <1>3, <1>7
<1>9. Good(s, last, count.wakeups, told')
  <2>1. Good(s, last, count.wakeups, told) /\ count.wakeups \in Nat
    BY StackFacts DEF Inv
  <2>2. QED
    BY <1>5, <2>1, TruthKept
<1>10. Threads'
  <2>1. UnderWay' = UnderWay
    BY <1>2, <1>3, <1>4, <1>7 DEF UnderWay
  <2>2. ASSUME Mine
        PROVE  Mine'
    <3>1. n = s.sequence
      BY <1>4, <2>2 DEF Mine, AllOf
    <3>2. AllOf(results', s.sequence)
      BY <1>5, <1>7, <2>2, <3>1 DEF Mine, AllOf
    <3>3. QED
      BY <1>2, <2>2, <3>2 DEF Mine, AllOf
  <2>3. \A i \in DOMAIN results' : Status(results'[i].status, results'[i].sequence) \in told'
    BY <1>5, <1>7 DEF Inv, Threads
  <2>4. QED
    BY <1>2, <1>8, <2>1, <2>2, <2>3 DEF Inv, Threads
<1>11. Types' /\ Selections'
  <2>1. app' \in Seq(Command) /\ Len(app') <= 1
    BY <1>2
  <2>2. told' \subseteq [status : Outcomes, sequence : Nat]
    BY <1>1, <1>5 DEF Inv, Types
  <2>3. signal' \in BOOLEAN
    BY <1>2
  <2>4. QED
    BY <1>2, <1>7, <2>1, <2>2, <2>3 DEF Inv, Types, Selections
<1>12. QED
  BY <1>2, <1>9, <1>10, <1>11 DEF Inv

---------------------------------------------------------------------------
(* The invariant holds *)

\* Nothing has been handled, and nothing is under way.
LEMMA InvInit == ASSUME Init PROVE Inv
<1>1. PICK u \in Uninitialised : s = Initially([p \in Points |-> u])
  BY DEF Init
<1> DEFINE select == [p \in Points |-> u]
<1>2. /\ commands = <<>> /\ app = <<>> /\ results = <<>> /\ signal = FALSE /\ last = NoRequest
      /\ count = [requests |-> 0, incidents |-> 0, wakeups |-> 0] /\ log = <<>> /\ told = {}
  BY DEF Init
<1>3. u \in Selection /\ (u.on => u.old)
  <2>1. Unselected \in Selection /\ ~Unselected.on
    BY UnselectedType
  <2>2. [Unselected EXCEPT !.on = TRUE, !.old = TRUE] \in Selection
    BY <2>1 DEF Selection
  <2>3. [Unselected EXCEPT !.on = TRUE, !.old = TRUE].old = TRUE
    BY <2>1 DEF Selection
  <2>4. QED
    BY <2>1, <2>2, <2>3 DEF Uninitialised
<1>4. select \in [Points -> Selection] /\ \A p \in Points : select[p].on => select[p].old
  BY <1>3
<1> HIDE DEF select
<1>5. NoRequest \in Request /\ NoRequest.id = 0 /\ NoRequest.fc = "OTHER"
  BY NoRequestType
<1>6. s = Initially(select)
  BY <1>1 DEF select
<1>7. s \in Stack
  <2>1. <<>> \in Seq(Shown)
    OBVIOUS
  <2>2. QED
    BY <1>4, <1>5, <1>6, <2>1 DEF Stack, Initially, States
<1>8. /\ s.pc = "free" /\ ~s.deferred /\ s.heard = -1 /\ s.answers = {} /\ s.out = <<>>
      /\ s.response = <<>> /\ s.select = select
  BY <1>6 DEF Initially
<1>9. Good(s, last, count.wakeups, told)
  <2>1. Follows(s, last) /\ Settled(s)
    BY <1>8 DEF Follows, Settled
  <2>2. Remembered(s, last) /\ Alike(s) /\ Once(s, last)
    BY <1>8 DEF Remembered, Alike, Once, Done
  <2>3. Truth(s, count.wakeups, told)
    BY <1>8 DEF Truth, Truthful
  <2>4. QED
    BY <1>7, <2>1, <2>2, <2>3 DEF Good, Ready
<1>10. Types
  <2>1. /\ commands \in Seq(Command) /\ app \in Seq(Command) /\ Len(app) <= 1
        /\ results \in Seq(Result)
    BY <1>2
  <2>2. log \in Seq(Entry) /\ told \subseteq [status : Outcomes, sequence : Nat]
    BY <1>2
  <2>3. count \in [requests : Nat, incidents : Nat, wakeups : Nat] /\ signal \in BOOLEAN
    BY <1>2
  <2>4. QED
    BY <1>2, <1>5, <2>1, <2>2, <2>3 DEF Types
<1>11. Threads
  <2>1. UnderWay = 0 /\ count.wakeups = 0 /\ s.pc \notin Waits
    BY <1>2, <1>8 DEF UnderWay, Waits
  <2>2. \A i \in DOMAIN results : FALSE
    BY <1>2
  <2>3. QED
    BY <2>1, <2>2 DEF Threads, Waits
<1>12. Selections
  <2>1. \A j \in DOMAIN log : FALSE
    BY <1>2
  <2>2. QED
    BY <1>4, <1>8, <2>1 DEF Selections, Selected, Operated
<1>13. QED
  BY <1>9, <1>10, <1>11, <1>12 DEF Inv

LEMMA InvNext == Inv /\ [Next]_vars => Inv'
<1> SUFFICES ASSUME Inv, [Next]_vars PROVE Inv'
  OBVIOUS
<1>1. CASE NewRequest \/ RepeatRequest
  BY <1>1, RequestInv
<1>2. CASE ResponseEnds \/ UnsolEnds \/ OnLowerLayerUp \/ OnLowerLayerDown \/ SendUnsolicited
  BY <1>2, StateInv
<1>3. CASE Elapse
  BY <1>3, ElapseInv
<1>4. CASE PassOver \/ RefuseObject
  BY <1>4, PassOverInv, RefuseObjectInv
<1>5. CASE SelectObject
  BY <1>5, SelectObjectInv
<1>6. CASE RefuseOperate
  BY <1>6, RefuseOperateInv
<1>7. CASE OperateObject
  BY <1>7, OperateObjectInv
<1>8. CASE FinishRequest
  BY <1>8, FinishRequestInv
<1>9. CASE WaitForResponse
  BY <1>9, WaitForResponseInv
<1>10. CASE WakeUp
  BY <1>10, WakeUpInv
<1>11. CASE ReadCommand
  BY <1>11, ReadCommandInv
<1>12. CASE AcceptResponse
  BY <1>12, AcceptResponseInv
<1>13. CASE UNCHANGED vars
  BY <1>13 DEF vars, Inv, Types, Threads, UnderWay, Mine, Selections
<1>14. QED
  BY <1>1, <1>2, <1>3, <1>4, <1>5, <1>6, <1>7, <1>8, <1>9, <1>10, <1>11, <1>12, <1>13
  DEF Next, Handler, ApplicationThread

LEMMA InvAlways == Spec => []Inv
<1>1. Init => Inv
  BY InvInit
<1>2. QED
  BY <1>1, InvNext, PTL DEF Spec

---------------------------------------------------------------------------
(* What the answers say, and for which request they were written *)

\* The bits say which of the objects that were written were refused or passed over.
Marks(iin, out) ==
  \A b \in Bit : b \in iin <=> \E k \in DOMAIN out : out[k].sequence = 0 /\ b \in Bits(out[k].status)

\* The objects out were written for a request that equals r, under the number author.
WrittenFor(answers, r, author, out) ==
  \E b \in answers : ~b.again /\ b.request.id = author /\ b.out = out /\ SameAPDU(r, b.request)

Entitled(answers, a) ==
  IF a.again
    THEN a.iin = {} /\ a.request.fc = "OPERATE" /\ WrittenFor(answers, a.request, a.author, a.out)
    ELSE a.author = a.request.id /\ Marks(a.iin, a.out)

\* The answers, and what the last OPERATE is answered with when it is repeated
Kept(x) ==
  /\ \A a \in x.answers : Entitled(x.answers, a)
  /\ x.last.fc = "OPERATE" => WrittenFor(x.answers, x.last, x.author, x.response)

\* What is written while a request is handled
Unfinished(x) ==
  /\ x.pc = "free" => x.out = <<>>
  /\ x.pc # "free" => Marks(x.iin, x.out)
  /\ x.pc \in Waits => x.sequence # 0

Written(x) == Kept(x) /\ Unfinished(x)

\* What was written for a request stays, for its repetitions.
LEMMA SentWritten ==
  ASSUME NEW x \in Stack, Kept(x), NEW r, x.current = r, NEW out, NEW author, NEW again \in BOOLEAN,
         ~again => author = r.id /\ Marks(x.iin, out),
         again => x.iin = {} /\ r.fc = "OPERATE" /\ WrittenFor(x.answers, r, author, out)
  PROVE  Written(Sent(x, out, author, again))
<1> DEFINE a == [request |-> r, out |-> out, iin |-> x.iin, author |-> author, again |-> again]
           y == Sent(x, out, author, again)
<1>1. /\ y.answers = x.answers \cup {a} /\ y.last = r /\ y.author = author /\ y.response = out
      /\ y.pc = "free" /\ y.out = <<>>
  BY DEF Sent, Stack
<1>2. /\ a.request = r /\ a.out = out /\ a.iin = x.iin /\ a.author = author /\ a.again = again
  OBVIOUS
<1> HIDE DEF a, y
<1>3. \A q, n, o : WrittenFor(x.answers, q, n, o) => WrittenFor(y.answers, q, n, o)
  BY <1>1 DEF WrittenFor
<1>4. WrittenFor(y.answers, r, author, out)
  <2>1. CASE again
    BY <1>3, <2>1
  <2>2. CASE ~again
    BY <1>1, <1>2, <2>2 DEF WrittenFor, SameAPDU
  <2>3. QED
    BY <2>1, <2>2
<1>5. ASSUME NEW b \in y.answers PROVE Entitled(y.answers, b)
  <2>1. CASE b = a
    BY <1>2, <1>4, <2>1 DEF Entitled
  <2>2. CASE b \in x.answers
    BY <1>3, <2>2 DEF Kept, Entitled
  <2>3. QED
    BY <1>1, <2>1, <2>2
<1>6. Kept(y)
  BY <1>1, <1>4, <1>5 DEF Kept
<1>7. Unfinished(y)
  BY <1>1 DEF Unfinished, Waits
<1>8. QED
  BY <1>6, <1>7 DEF Written, y

\* What is taken for a repetition equals what was handled last (Slave::HandleOperate).
LEMMA DoRequestWritten ==
  ASSUME NEW x \in Stack, Written(x), x.pc = "free", NEW r \in Request, NEW prev,
         NEW next \in States
  PROVE  Written(DoRequest(x, r, prev, next))
<1> DEFINE state == IF r.fc = "DIRECT_OPERATE_NO_ACK" THEN x.state ELSE next
           y == [x EXCEPT !.state = state, !.iin = {}, !.current = r, !.pc = "object"]
<1>1. DoRequest(x, r, prev, next) =
        CASE r.fc = "OTHER"  -> Respond(y, <<>>)
          [] r.fc = "SELECT" -> DeselectAll(y)
          [] OTHER           -> IF r.fc = "OPERATE" /\ IsRetry(x, r, prev)
                                  THEN RespondAgain(y) ELSE y
  BY DEF DoRequest, Stack
<1>2. state \in States /\ {} \in SUBSET Bit
  BY DEF Stack
<1> HIDE DEF state
<1>3. y \in Stack
  BY <1>2 DEF Stack
<1>4. /\ y.answers = x.answers /\ y.last = x.last /\ y.author = x.author /\ y.response = x.response
      /\ y.out = x.out /\ y.iin = {} /\ y.current = r /\ y.pc = "object"
  BY DEF Stack
<1> HIDE DEF y
<1>5. Kept(y) /\ y.out = <<>>
  BY <1>4 DEF Written, Kept, Unfinished
<1>6. Marks({}, <<>>)
  BY DEF Marks
<1>7. Unfinished(y)
  BY <1>4, <1>5, <1>6 DEF Unfinished, Waits
<1>8. Written(Respond(y, <<>>))
  <2>1. Written(Sent(y, <<>>, r.id, FALSE))
    BY <1>3, <1>4, <1>5, <1>6, SentWritten
  <2>2. QED
    BY <1>4, <2>1 DEF Respond
<1>9. Written(DeselectAll(y))
  <2> DEFINE z == DeselectAll(y)
  <2>1. /\ z.answers = y.answers /\ z.last = y.last /\ z.author = y.author /\ z.iin = y.iin
        /\ z.response = y.response /\ z.out = y.out /\ z.pc = y.pc
    BY <1>3 DEF DeselectAll, Stack
  <2> HIDE DEF z
  <2>2. Written(z)
    BY <1>4, <1>5, <1>7, <2>1 DEF Written, Kept, Unfinished, Waits
  <2>3. QED
    BY <2>2 DEF z
<1>10. ASSUME r.fc = "OPERATE", IsRetry(x, r, prev)
       PROVE  Written(RespondAgain(y))
  <2>1. SameAPDU(x.last, r) /\ x.last.fc = "OPERATE"
    BY <1>10 DEF IsRetry, SameAPDU
  <2>2. WrittenFor(x.answers, x.last, x.author, x.response)
    BY <2>1 DEF Written, Kept
  <2>3. WrittenFor(y.answers, r, y.author, y.response)
    BY <1>4, <2>1, <2>2 DEF WrittenFor, SameAPDU
  <2>4. Written(Sent(y, y.response, y.author, TRUE))
    BY <1>3, <1>4, <1>5, <1>10, <2>3, SentWritten
  <2>5. QED
    BY <2>4 DEF RespondAgain
<1>11. Written(y)
  BY <1>5, <1>7 DEF Written
<1>12. QED
  BY <1>1, <1>8, <1>9, <1>10, <1>11

\* What is no part of the answers may change while nothing is handled.
LEMMA WrittenStays ==
  ASSUME NEW x, NEW y, Written(x), x.pc = "free", y.pc = "free", y.answers = x.answers,
         y.last = x.last, y.author = x.author, y.response = x.response, y.out = x.out
  PROVE  Written(y)
BY DEF Written, Kept, Unfinished, Waits

LEMMA FlushWritten ==
  ASSUME NEW x \in Stack, Written(x), x.pc = "free"
  PROVE  Written(FlushRequest([x EXCEPT !.state = "Idle"]))
<1> DEFINE y == [x EXCEPT !.state = "Idle"]
           z == [y EXCEPT !.deferred = FALSE, !.request = NoRequest]
<1>1. y \in Stack
  BY DEF Stack, States
<1>2. z \in Stack
  BY <1>1, NoRequestType DEF Stack
<1>3. y.pc = "free" /\ Written(y) /\ y.request \in Request
  <2>1. /\ y.pc = "free" /\ y.answers = x.answers /\ y.last = x.last /\ y.author = x.author
        /\ y.response = x.response /\ y.out = x.out /\ y.request = x.request
    BY DEF Stack
  <2> HIDE DEF y
  <2>2. QED
    BY <2>1, WrittenStays DEF Stack
<1>4. z.pc = "free" /\ Written(z)
  <2>1. /\ z.pc = "free" /\ z.answers = y.answers /\ z.last = y.last /\ z.author = y.author
        /\ z.response = y.response /\ z.out = y.out
    BY <1>1, <1>3 DEF Stack
  <2> HIDE DEF y, z
  <2>2. QED
    BY <1>3, <2>1, WrittenStays
<1>5. FlushRequest(y) \in {y, DoRequest(z, y.request, y.reqPrev, "WaitForRspSuccess")}
  BY DEF FlushRequest
<1> HIDE DEF y, z
<1>6. "WaitForRspSuccess" \in States
  BY DEF States
<1>7. Written(DoRequest(z, y.request, y.reqPrev, "WaitForRspSuccess"))
  BY <1>2, <1>3, <1>4, <1>6, DoRequestWritten
<1>8. QED
  BY <1>3, <1>5, <1>7 DEF y

LEMMA OnRequestWritten ==
  ASSUME NEW x \in Stack, Written(x), x.pc = "free", NEW r \in Request
  PROVE  Written(OnRequest(x, r))
<1> DEFINE prev == SequenceOf(r) = x.heard
           heard == SequenceOf(r)
           y == [x EXCEPT !.heard = heard]
           z == [y EXCEPT !.deferred = FALSE, !.request = NoRequest]
           d == [y EXCEPT !.deferred = TRUE, !.request = r, !.reqPrev = prev]
<1>1. heard \in -1 .. 15
  <2>1. heard \in 0 .. 15
    BY SequenceType
  <2> HIDE DEF heard
  <2>2. QED
    BY <2>1
<1>2. OnRequest(x, r) \in {DoRequest(y, r, prev, "WaitForRspSuccess"),
                           DoRequest(z, r, prev, "WaitForSolUnsolSuccess"), d}
  BY DEF OnRequest
<1> HIDE DEF heard, prev
<1>3. y \in Stack
  BY <1>1 DEF Stack
<1>4. z \in Stack
  BY <1>3, NoRequestType DEF Stack
<1>5. y.pc = "free" /\ Written(y)
  <2>1. /\ y.pc = "free" /\ y.answers = x.answers /\ y.last = x.last /\ y.author = x.author
        /\ y.response = x.response /\ y.out = x.out
    BY DEF Stack
  <2> HIDE DEF y
  <2>2. QED
    BY <2>1, WrittenStays
<1>6. z.pc = "free" /\ Written(z)
  <2>1. /\ z.pc = "free" /\ z.answers = y.answers /\ z.last = y.last /\ z.author = y.author
        /\ z.response = y.response /\ z.out = y.out
    BY <1>3, <1>5 DEF Stack
  <2> HIDE DEF y, z
  <2>2. QED
    BY <1>5, <2>1, WrittenStays
<1>7. Written(d)
  <2>1. /\ d.pc = "free" /\ d.answers = y.answers /\ d.last = y.last /\ d.author = y.author
        /\ d.response = y.response /\ d.out = y.out
    BY <1>3, <1>5 DEF Stack
  <2> HIDE DEF y, d
  <2>2. QED
    BY <1>5, <2>1, WrittenStays
<1>8. "WaitForRspSuccess" \in States /\ "WaitForSolUnsolSuccess" \in States
  BY DEF States
<1> HIDE DEF y, z, d
<1>9. /\ Written(DoRequest(y, r, prev, "WaitForRspSuccess"))
      /\ Written(DoRequest(z, r, prev, "WaitForSolUnsolSuccess"))
  BY <1>3, <1>4, <1>5, <1>6, <1>8, DoRequestWritten
<1>10. QED
  BY <1>2, <1>7, <1>9

\* An object is written: a refusal with its bit, the status of a command without one.
LEMMA AppendMarks ==
  ASSUME NEW iin, NEW out \in Seq(Shown), Marks(iin, out), NEW status \in Statuses
  PROVE  /\ Marks(iin \cup Bits(status), Append(out, Status(status, 0)))
         /\ \A n \in Nat \ {0} : Marks(iin, Append(out, Status(status, n)))
<1>1. ASSUME NEW n \in Nat, NEW e \in Shown, e = Status(status, n)
      PROVE  /\ DOMAIN Append(out, e) = DOMAIN out \cup {Len(out) + 1}
             /\ \A k \in DOMAIN out : Append(out, e)[k] = out[k]
             /\ Append(out, e)[Len(out) + 1] = e /\ e.sequence = n /\ e.status = status
  <2>1. e.sequence = n /\ e.status = status
    BY <1>1 DEF Status
  <2>2. QED
    BY <2>1
<1>2. \A n \in Nat : Status(status, n) \in Shown
  BY DEF Status, Shown
<1>3. Marks(iin \cup Bits(status), Append(out, Status(status, 0)))
  <2> DEFINE e == Status(status, 0)
             q == Append(out, e)
  <2>1. /\ DOMAIN q = DOMAIN out \cup {Len(out) + 1} /\ \A k \in DOMAIN out : q[k] = out[k]
        /\ q[Len(out) + 1] = e /\ e.sequence = 0 /\ e.status = status
    BY <1>1, <1>2
  <2> HIDE DEF e, q
  <2>2. QED
    BY <2>1 DEF Marks, q, e
<1>4. ASSUME NEW n \in Nat \ {0} PROVE Marks(iin, Append(out, Status(status, n)))
  <2> DEFINE e == Status(status, n)
             q == Append(out, e)
  <2>1. /\ DOMAIN q = DOMAIN out \cup {Len(out) + 1} /\ \A k \in DOMAIN out : q[k] = out[k]
        /\ q[Len(out) + 1] = e /\ e.sequence = n /\ e.status = status /\ n # 0
    BY <1>1, <1>2
  <2> HIDE DEF e, q
  <2>2. QED
    BY <2>1 DEF Marks, q, e
<1>5. QED
  BY <1>3, <1>4

\* A step of the handling that writes no answer
LEMMA ObjectWritten ==
  ASSUME NEW x, NEW y, Written(x), Handles(x, y), y.author = x.author, Marks(y.iin, y.out),
         y.pc \in Waits => y.sequence # 0
  PROVE  Written(y)
BY DEF Written, Kept, Unfinished, Handles

LEMMA AnswerWritten ==
  ASSUME Inv, Written(s), s.pc = "object", NEW select \in [Points -> Selection],
         NEW sequence \in Nat, NEW status \in Statuses, Answer(select, status, sequence)
  PROVE  Written(s')
<1> DEFINE out == Append(s.out, Status(status, 0))
           iin == s.iin \cup Bits(status)
<1>1. s \in Stack /\ s.out \in Seq(Shown) /\ Marks(s.iin, s.out)
  BY StackFacts DEF Written, Unfinished
<1>2. Marks(iin, out) /\ out \in Seq(Shown) /\ iin \in SUBSET Bit
  <2>1. Status(status, 0) \in Shown
    BY DEF Status, Shown
  <2>2. QED
    BY <1>1, <2>1, AppendMarks, StatusTypes DEF Stack
<1>3. s' = [s EXCEPT !.select = select, !.sequence = sequence, !.iin = iin, !.out = out]
  BY <1>1 DEF Answer, Stack
<1> HIDE DEF out, iin
<1>4. s' \in Stack
  BY <1>1, <1>2, <1>3 DEF Stack
<1>5. Handles(s, s') /\ s'.author = s.author /\ s'.iin = iin /\ s'.out = out /\ s'.pc = "object"
  BY <1>1, <1>3, <1>4 DEF Handles, Stack
<1>6. QED
  BY <1>2, <1>5, ObjectWritten DEF Waits

LEMMA WrittenNext == Inv /\ Written(s) /\ [Next]_vars => Written(s')
<1> SUFFICES ASSUME Inv, Written(s), [Next]_vars PROVE Written(s')
  OBVIOUS
<1>1. /\ s \in Stack /\ s.sequence \in Nat /\ s.select \in [Points -> Selection]
      /\ s.out \in Seq(Shown) /\ last \in Request
  BY StackFacts
<1>2. \A status : Bits(status) \subseteq Bit
  BY StatusTypes
<1>3. CASE NewRequest \/ RepeatRequest
  <2>1. s.pc = "free" /\ s' = OnRequest(s, last') /\ last' \in Request
    BY <1>3, InvNext DEF NewRequest, RepeatRequest, Free, Next, Inv, Types
  <2>2. QED
    BY <1>1, <2>1, OnRequestWritten
<1>4. CASE ResponseEnds \/ UnsolEnds \/ OnLowerLayerUp \/ OnLowerLayerDown \/ SendUnsolicited \/ Elapse
  <2>1. CASE s.pc = "free" /\ s' = FlushRequest([s EXCEPT !.state = "Idle"])
    BY <1>1, <2>1, FlushWritten
  <2> DEFINE Turns == \E select, state, heard :
                        s' \in {[s EXCEPT !.state = state], [s EXCEPT !.state = state, !.heard = heard],
                                [s EXCEPT !.select = select]}
  <2>2. CASE Turns
    <3>1. /\ s'.answers = s.answers /\ s'.last = s.last /\ s'.author = s.author /\ s'.iin = s.iin
          /\ s'.response = s.response /\ s'.out = s.out /\ s'.pc = s.pc /\ s'.sequence = s.sequence
      BY <1>1, <2>2 DEF Stack
    <3>2. QED
      BY <3>1 DEF Written, Kept, Unfinished
  <2>3. (s.pc = "free" /\ s' = FlushRequest([s EXCEPT !.state = "Idle"])) \/ Turns
    BY <1>4 DEF ResponseEnds, UnsolEnds, OnLowerLayerUp, OnLowerLayerDown, SendUnsolicited, Elapse, Free
  <2> HIDE DEF Turns
  <2>4. QED
    BY <2>1, <2>2, <2>3
<1>5. CASE PassOver \/ RefuseObject
  <2>1. \E status \in {"nothing", "TOO_MANY_OPS"} : Answer(s.select, status, s.sequence)
    BY <1>5 DEF PassOver, RefuseObject
  <2>2. s.pc = "object" /\ {"nothing", "TOO_MANY_OPS"} \subseteq Statuses
    BY <1>5, StatusTypes DEF PassOver, RefuseObject, More
  <2>3. QED
    BY <1>1, <2>1, <2>2, AnswerWritten
<1>6. CASE SelectObject
  <2> DEFINE sel == [on |-> TRUE, old |-> FALSE, seq |-> SequenceOf(s.current), value |-> Upcoming.value]
             select == [s.select EXCEPT ![Upcoming.point] = sel]
  <2>1. More /\ s.pc = "object" /\ {"SUCCESS", "NOT_SUPPORTED"} \subseteq Statuses
    BY <1>6, StatusTypes DEF SelectObject, More
  <2>2. sel \in Selection
    <3>1. SequenceOf(s.current) \in 0 .. 15 /\ Upcoming.value \in Values
      BY <2>1, UpcomingType, SequenceType
    <3>2. QED
      BY <3>1 DEF Selection
  <2> HIDE DEF sel
  <2>3. select \in [Points -> Selection]
    BY <1>1, <2>2
  <2>4. Answer(select, "SUCCESS", s.sequence) \/ Answer(s.select, "NOT_SUPPORTED", s.sequence)
    BY <1>6 DEF SelectObject, sel
  <2> HIDE DEF select
  <2>5. QED
    BY <1>1, <2>1, <2>3, <2>4, AnswerWritten
<1>7. CASE RefuseOperate
  <2> DEFINE select == IF Bound /\ s.current.fc = "OPERATE" /\ ~s.select[Upcoming.point].old
                         THEN Deselect(s.select, Upcoming.point) ELSE s.select
             sequence == s.sequence + 1
  <2>1. s.pc = "object" /\ Refusal # "none" /\ Answer(select, Refusal, sequence)
    BY <1>7 DEF RefuseOperate, Operating, More
  <2>2. Refusal \in {"NOT_SUPPORTED", "NO_SELECT", "TIMEOUT", "none"}
    BY DEF Refusal
  <2>3. Refusal \in Statuses
    BY <2>1, <2>2, StatusTypes
  <2>4. select \in [Points -> Selection] /\ sequence \in Nat
    BY <1>1, DeselectType
  <2> HIDE DEF select, sequence
  <2>5. QED
    BY <2>1, <2>3, <2>4, AnswerWritten
<1>8. CASE OperateObject
  <2> DEFINE select == Deselect(s.select, Upcoming.point)
             sequence == s.sequence + 1
  <2>1. s' = [s EXCEPT !.select = select, !.sequence = sequence, !.pc = "find"] /\ s.pc = "object"
    BY <1>1, <1>8 DEF OperateObject, Operating, More, Stack
  <2>2. sequence \in Nat /\ sequence # 0 /\ select \in [Points -> Selection]
    BY <1>1, DeselectType
  <2> HIDE DEF select, sequence
  <2>3. s' \in Stack
    BY <1>1, <2>1, <2>2 DEF Stack
  <2>4. Handles(s, s') /\ s'.author = s.author /\ s'.iin = s.iin /\ s'.out = s.out /\ s'.sequence = sequence
    BY <1>1, <2>1, <2>3 DEF Handles, Stack
  <2>5. Marks(s.iin, s.out)
    BY <2>1 DEF Written, Unfinished
  <2>6. QED
    BY <2>2, <2>4, <2>5, ObjectWritten
<1>9. CASE FinishRequest
  <2> DEFINE y == Respond(s, s.out)
             broken == y.broken /\ s.current.fc # "DIRECT_OPERATE_NO_ACK"
  <2>1. s' = [y EXCEPT !.broken = broken] /\ s.pc = "object"
    BY <1>9 DEF FinishRequest, Respond, Sent
  <2>2. Kept(s) /\ Marks(s.iin, s.out)
    BY <2>1 DEF Written, Unfinished
  <2>3. Written(y)
    <3>1. Written(Sent(s, s.out, s.current.id, FALSE))
      BY <1>1, <2>2, SentWritten
    <3>2. QED
      BY <3>1 DEF Respond
  <2>4. /\ s'.answers = y.answers /\ s'.last = y.last /\ s'.author = y.author /\ s'.iin = y.iin
        /\ s'.response = y.response /\ s'.out = y.out /\ s'.pc = y.pc /\ s'.sequence = y.sequence
    BY <1>1, <2>1 DEF Respond, Sent, Stack
  <2> HIDE DEF y, broken
  <2>5. QED
    BY <2>3, <2>4 DEF Written, Kept, Unfinished
<1>10. CASE WaitForResponse \/ WakeUp
  <2>1. s.pc \in Waits
    BY <1>10 DEF WaitForResponse, WakeUp, Waits
  <2>2. Marks(s.iin, s.out) /\ s.sequence \in Nat \ {0}
    BY <1>1, <2>1 DEF Written, Unfinished, Waits
  <2>3. ASSUME NEW status \in Statuses, Return(status) PROVE Written(s')
    <3> DEFINE e == Status(status, s.sequence)
               out == Append(s.out, e)
    <3>1. Marks(s.iin, out)
      BY <1>1, <2>2, AppendMarks
    <3>2. e \in Shown
      BY <1>1 DEF Status, Shown
    <3> HIDE DEF e
    <3>3. out \in Seq(Shown)
      BY <1>1, <3>2
    <3>4. s' = [s EXCEPT !.pc = "object", !.out = out]
      BY <1>1, <2>3 DEF Return, Stack, e
    <3> HIDE DEF out
    <3>5. s' \in Stack
      BY <1>1, <3>3, <3>4 DEF Stack
    <3>6. Handles(s, s') /\ s'.author = s.author /\ s'.iin = s.iin /\ s'.out = out /\ s'.pc = "object"
      BY <1>1, <3>4, <3>5 DEF Handles, Stack
    <3>7. QED
      BY <3>1, <3>6, ObjectWritten DEF Waits
  <2>4. CASE TakeResponse
    <3>1. results \in Seq(Result)
      BY DEF Inv, Types
    <3>2. results[Position(s.sequence)] \in Result
      BY <2>4, <3>1, PositionFacts DEF TakeResponse
    <3>3. results[Position(s.sequence)].status \in Statuses
      BY <3>2, StatusTypes DEF Result
    <3>4. QED
      BY <2>3, <2>4, <3>3 DEF TakeResponse
  <2>5. CASE Return("HARDWARE_ERROR")
    BY <2>3, <2>5, StatusTypes
  <2>6. CASE s' = [s EXCEPT !.pc = "wait"]
    <3>1. s' \in Stack
      BY <1>1, <2>6 DEF Stack
    <3>2. /\ Handles(s, s') /\ s'.author = s.author /\ s'.iin = s.iin /\ s'.out = s.out
          /\ s'.sequence = s.sequence
      BY <1>1, <2>6, <3>1 DEF Handles, Stack
    <3>3. QED
      BY <2>2, <3>2, ObjectWritten
  <2>7. QED
    BY <1>10, <2>4, <2>5, <2>6 DEF WaitForResponse, WakeUp
<1>11. CASE ApplicationThread \/ UNCHANGED vars
  BY <1>11 DEF ApplicationThread, ReadCommand, AcceptResponse, vars
<1>12. QED
  BY <1>3, <1>4, <1>5, <1>6, <1>7, <1>8, <1>9, <1>10, <1>11 DEF Next, Handler

LEMMA WrittenAlways == Spec => []Written(s)
<1>1. Init => Written(s)
  <2> SUFFICES ASSUME Init PROVE Written(s)
    OBVIOUS
  <2>1. /\ s.answers = {} /\ s.last.fc = "OTHER" /\ s.pc = "free" /\ s.out = <<>>
    BY DEF Init, Initially, NoRequest
  <2>2. QED
    BY <2>1 DEF Written, Kept, Unfinished, Waits
<1>2. Inv /\ Written(s) /\ [Next]_vars => Written(s)'
  BY WrittenNext
<1> HIDE DEF Written
<1>3. QED
  BY <1>1, <1>2, InvAlways, PTL DEF Spec

---------------------------------------------------------------------------
(* The properties *)

\* While Slave handles nothing, no command is left for the application and no answer of it for a
\* later command, but for one that each return of Wait without a signal may leave; while
\* Slave::Operate waits, exactly one is under way.
THEOREM ConsistentCorrect == Spec => []Consistent
<1>1. Inv => Consistent
  <2> SUFFICES ASSUME Inv PROVE Consistent
    OBVIOUS
  <2>1. s \in Stack /\ Types /\ Threads
    BY StackFacts DEF Inv
  <2>2. \A a \in s.answers : \A k \in DOMAIN a.out : a.out[k] \in [status : Statuses, sequence : Nat]
    <3> SUFFICES ASSUME NEW a \in s.answers, NEW k \in DOMAIN a.out
                 PROVE  a.out[k] \in Shown
      BY DEF Shown
    <3>1. a \in Reply
      BY <2>1 DEF Stack
    <3>2. a.out \in Seq(Shown)
      BY <3>1 DEF Reply
    <3>3. QED
      BY <3>2
  <2>3. TypeOK
    BY <2>1, <2>2 DEF TypeOK, Types, Stack
  <2>4. ThreadsAgree
    <3>1. /\ s.pc = "free" => UnderWay <= count.wakeups + 0
          /\ s.pc \in {"find", "wait"} /\ count.wakeups = 0 => UnderWay = 1
          /\ s.pc = "wait" => (signal <=> results # <<>>)
      BY <2>1 DEF Threads, Waits
    <3>2. count.wakeups \in Nat
      BY StackFacts
    <3>3. QED
      BY <3>1, <3>2 DEF ThreadsAgree, UnderWay
  <2>5. QED
    BY <2>3, <2>4 DEF Consistent
<1>2. QED
  BY <1>1, InvAlways, PTL

\* An OPERATE reaches the application only for what the last SELECT selected, with its value and
\* under the sequence before, within the timeout and once (DNPCommandMaster::Operate), whatever was
\* lost, repeated or deferred between the two.
THEOREM OperatesSelectedCorrect == Spec => []OperatesSelected
<1>1. Inv => OperatesSelected
  BY DEF Inv, Selections, Operated, OperatesSelected
<1>2. QED
  BY <1>1, InvAlways, PTL

\* A repeated OPERATE is answered with the objects it was answered with before, and what is taken
\* for a repetition equals the OPERATE whose objects it gets (Slave::HandleOperate), so that a new
\* one gets another's only sixteen requests later. The status of a command is what the application
\* returned for that command, unless a wait of CommandResponseQueue ended without a signal. The bits
\* of a first answer tell which objects were refused; a repetition carries none (DoRequest).
THEOREM AnswersAreTrueCorrect == Spec => []AnswersAreTrue
<1>1. Inv /\ Written(s) => AnswersAreTrue
  <2> SUFFICES ASSUME Inv, Written(s) PROVE AnswersAreTrue
    OBVIOUS
  <2>1. Alike(s) /\ Truth(s, count.wakeups, told) /\ \A a \in s.answers : Entitled(s.answers, a)
    BY StackFacts DEF Ready, Written, Kept
  <2>2. RetryAnsweredAlike
    <3>1. \A a \in s.answers : a.again =>
            \E b \in s.answers : /\ ~b.again /\ b.request.id = a.author /\ b.out = a.out
                                 /\ SameAPDU(a.request, b.request) /\ a.request.fc = "OPERATE"
      BY <2>1 DEF Entitled, WrittenFor
    <3>2. \A a \in s.answers : ~a.again => a.author = a.request.id
      BY <2>1 DEF Entitled
    <3>3. QED
      BY <2>1, <3>1, <3>2 DEF Alike, RetryAnsweredAlike
  <2>3. StatusIsOutcome
    BY <2>1 DEF Truth, Truthful, StatusIsOutcome
  <2>4. ErrorsReported
    <3> SUFFICES ASSUME NEW a \in s.answers, NEW b \in Bit
                 PROVE  b \in a.iin <=> ~a.again /\ \E k \in DOMAIN a.out :
                          a.out[k].sequence = 0 /\ b \in Bits(a.out[k].status)
      BY DEF ErrorsReported
    <3>1. Entitled(s.answers, a) /\ a.again \in BOOLEAN
      BY <2>1, StackFacts DEF Stack, Reply
    <3>2. QED
      BY <3>1 DEF Entitled, Marks
  <2>5. QED
    BY <2>2, <2>3, <2>4 DEF AnswersAreTrue
<1>2. QED
  BY <1>1, InvAlways, WrittenAlways, PTL
=============================================================================
