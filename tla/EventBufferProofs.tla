------------------------- MODULE EventBufferProofs -------------------------
(***************************************************************************)
(* Proofs about EventBuffer, for every value of its constants: its types,  *)
(* that the class counters are exact, that the sequence follows the        *)
(* updates and that no update is lost or kept twice.                       *)
(*                                                                         *)
(* And about Updates, which fills it: what waits for the stack is          *)
(* announced, transactions reach the database once, in order and whole,    *)
(* and events follow the values.                                           *)
(***************************************************************************)
EXTENDS EventBuffer, Updates, FiniteSetTheorems, SequenceTheorems, WellFoundedInduction, TLAPS

---------------------------------------------------------------------------
(* Finite sets *)

\* A finite set with a transitive and irreflexive relation R has a maximal element: no
\* chain of ever fewer elements above goes on for ever.
LEMMA MaximalElement ==
  ASSUME NEW S, IsFiniteSet(S), S # {}, NEW R,
         \A x, y, z \in S : <<x, y>> \in R /\ <<y, z>> \in R => <<x, z>> \in R,
         \A x \in S : <<x, x>> \notin R
  PROVE  \E m \in S : \A x \in S : <<m, x>> \notin R
<1> DEFINE Above(x) == {y \in S : <<x, y>> \in R}
           F == {Above(x) : x \in S}
<1>1. F \subseteq FiniteSubsetsOf(S) /\ F # {}
  <2>1. ASSUME NEW x \in S
        PROVE  Above(x) \in FiniteSubsetsOf(S) /\ Above(x) \in F
    <3>1. Above(x) \in SUBSET S
      OBVIOUS
    <3>2. IsFiniteSet(Above(x))
      BY <3>1, FS_Subset
    <3>3. QED
      BY <3>1, <3>2 DEF FiniteSubsetsOf
  <2>2. \A A \in F : \E x \in S : A = Above(x)
    OBVIOUS
  <2>3. PICK y : y \in S
    OBVIOUS
  <2> HIDE DEF F, Above
  <2>4. QED
    BY <2>1, <2>2, <2>3
<1>2. PICK A \in F : \A B \in F : ~(<<B, A>> \in StrictSubsetOrdering(S))
  BY <1>1, FS_StrictSubsetOrderingWellFounded, WFMin
<1>3. PICK m \in S : A = Above(m)
  BY <1>2
<1>4. ASSUME NEW x \in S, <<m, x>> \in R
      PROVE  FALSE
  <2>1. Above(x) \subseteq Above(m) /\ x \in Above(m) /\ x \notin Above(x)
    BY <1>4
  <2>2. <<Above(x), Above(m)>> \in StrictSubsetOrdering(S)
    BY <2>1 DEF StrictSubsetOrdering
  <2>3. QED
    BY <1>2, <1>3, <2>2
<1>5. QED
  BY <1>4

\* A proper subset of a finite set is smaller.
LEMMA SmallerSubset ==
  ASSUME NEW B, IsFiniteSet(B), NEW A \in SUBSET B, NEW x \in B, x \notin A
  PROVE  /\ IsFiniteSet(A)
         /\ Cardinality(A) \in Nat /\ Cardinality(B) \in Nat /\ Cardinality(A) < Cardinality(B)
<1>1. IsFiniteSet(A) /\ Cardinality(A) <= Cardinality(B) /\ (Cardinality(B) = Cardinality(A) => B = A)
  BY FS_Subset
<1>2. Cardinality(A) \in Nat /\ Cardinality(B) \in Nat
  BY <1>1, FS_CardinalityType
<1>3. QED
  BY <1>1, <1>2

\* R is the image of the finite set S under f.
LEMMA Image ==
  ASSUME NEW S, IsFiniteSet(S), NEW R, NEW f \in [S -> R], \A r \in R : \E x \in S : r = f[x]
  PROVE  /\ IsFiniteSet(R)
         /\ Cardinality(R) <= Cardinality(S)
         /\ (\A x, y \in S : f[x] = f[y] => x = y) => Cardinality(R) = Cardinality(S)
<1>1. f \in Surjection(S, R)
  BY DEF Surjection
<1>2. (\A x, y \in S : f[x] = f[y] => x = y) => f \in Injection(S, R)
  BY <1>1 DEF Injection, Surjection, IsInjective
<1>3. QED
  BY <1>1, <1>2, FS_Surjection

\* The sizes of a finite set's parts.
LEMMA PartSizes ==
  ASSUME NEW A, NEW B, IsFiniteSet(A \cup B), A \cap B = {}
  PROVE  /\ IsFiniteSet(A) /\ IsFiniteSet(B)
         /\ Cardinality(A) \in Nat /\ Cardinality(B) \in Nat
         /\ Cardinality(A \cup B) = Cardinality(A) + Cardinality(B)
<1>1. IsFiniteSet(A) /\ IsFiniteSet(B)
  <2>1. A \in SUBSET (A \cup B) /\ B \in SUBSET (A \cup B)
    OBVIOUS
  <2>2. QED
    BY <2>1, FS_Subset
<1>2. Cardinality(A) \in Nat /\ Cardinality(B) \in Nat
  BY <1>1, FS_CardinalityType
<1>3. Cardinality(A \cup B) = Cardinality(A) + Cardinality(B) - Cardinality(A \cap B)
  BY <1>1, FS_Union
<1>4. Cardinality(A \cap B) = 0
  BY FS_EmptySet
<1>5. QED
  BY <1>1, <1>2, <1>3, <1>4

\* In a finite set with a strict total order (below[x] is what is below x) the numbers of
\* those below tell its elements apart.
LEMMA Ranks ==
  ASSUME NEW S, IsFiniteSet(S), NEW below,
         \A x \in S : below[x] \in SUBSET S /\ x \notin below[x],
         \A x, y \in S : x \in below[y] => below[x] \subseteq below[y],
         \A x, y \in S : x # y => x \in below[y] \/ y \in below[x]
  PROVE  /\ \A x \in S : Cardinality(below[x]) \in Nat /\ Cardinality(below[x]) < Cardinality(S)
         /\ \A x, y \in S : Cardinality(below[x]) = Cardinality(below[y]) => x = y
<1>1. ASSUME NEW x \in S
      PROVE  Cardinality(below[x]) \in Nat /\ Cardinality(below[x]) < Cardinality(S)
  <2>1. below[x] \in SUBSET S /\ x \notin below[x]
    OBVIOUS
  <2>2. Cardinality(below[x]) \in Nat
    BY <2>1, SmallerSubset
  <2>3. Cardinality(below[x]) < Cardinality(S)
    BY <2>1, SmallerSubset
  <2>4. QED
    BY <2>2, <2>3
<1>2. ASSUME NEW x \in S, NEW y \in S, x \in below[y]
      PROVE  Cardinality(below[x]) # Cardinality(below[y])
  <2>1. IsFiniteSet(below[y])
    BY FS_Subset
  <2>2. below[x] \in SUBSET below[y] /\ x \notin below[x]
    BY <1>2
  <2>3. Cardinality(below[x]) < Cardinality(below[y])
    BY <1>2, <2>1, <2>2, SmallerSubset
  <2>4. QED
    BY <1>1, <2>3
<1>3. QED
  BY <1>1, <1>2

---------------------------------------------------------------------------
(* Sets of events *)

Unique(S)      == \A e, f \in S : e.id = f.id => e = f
DistinctAt(S)  == \A e, f \in S : e.at = f.at => e = f
OnePerIndex(S) == \A e, f \in S : e.index = f.index => e = f

Events == {S \in SUBSET Event : IsFiniteSet(S)}

LEMMA EventFields ==
  ASSUME NEW e \in Event
  PROVE  /\ e.id \in Nat /\ e.index \in Points /\ e.index \in Nat /\ e.time \in Times
         /\ e.time \in Nat /\ e.seq \in Nat /\ e.at \in Nat /\ e.written \in BOOLEAN
         /\ ClassOf[e.index] \in Classes
BY BufferAssumption DEF Event

\* The ids of the parts of a set
LEMMA Parts ==
  ASSUME NEW A, NEW B, A \cap B = {}
  PROVE  /\ Ids(A \cup B) = Ids(A) \cup Ids(B)
         /\ Unique(A \cup B) => Ids(A) \cap Ids(B) = {} /\ Unique(A) /\ Unique(B)
<1>1. Ids(A \cup B) = Ids(A) \cup Ids(B)
  BY DEF Ids
<1>2. Unique(A \cup B) => Ids(A) \cap Ids(B) = {} /\ Unique(A) /\ Unique(B)
  BY DEF Unique, Ids
<1>3. QED
  BY <1>1, <1>2

LEMMA ClassSizes ==
  ASSUME NEW A, NEW B, A \cup B \in Events, A \cap B = {}, NEW c
  PROVE  /\ A \in Events /\ B \in Events
         /\ Cardinality(OfClass(A, c)) \in Nat /\ Cardinality(OfClass(B, c)) \in Nat
         /\ Cardinality(OfClass(A \cup B, c))
              = Cardinality(OfClass(A, c)) + Cardinality(OfClass(B, c))
<1> DEFINE S == A \cup B
           P == OfClass(S, c)
           Q == OfClass(A, c)
           R == OfClass(B, c)
<1>1. P = Q \cup R /\ Q \cap R = {} /\ P \in SUBSET S /\ A \in SUBSET S /\ B \in SUBSET S
  BY DEF OfClass
<1>2. A \in Events /\ B \in Events /\ IsFiniteSet(P)
  BY <1>1, FS_Subset DEF Events
<1> HIDE DEF P, Q, R
<1>3. IsFiniteSet(Q \cup R)
  BY <1>1, <1>2
<1>4. /\ Cardinality(Q) \in Nat /\ Cardinality(R) \in Nat
      /\ Cardinality(Q \cup R) = Cardinality(Q) + Cardinality(R)
  BY <1>1, <1>3, PartSizes
<1>5. QED
  BY <1>1, <1>2, <1>4 DEF P, Q, R

\* An event of each index: as many indices as events
LEMMA IndexSizes ==
  ASSUME NEW S, IsFiniteSet(S), OnePerIndex(S), NEW R, R = {e.index : e \in S}
  PROVE  IsFiniteSet(R) /\ Cardinality(R) = Cardinality(S)
<1> DEFINE f == [e \in S |-> e.index]
<1>1. f \in [S -> R] /\ \A r \in R : \E x \in S : r = f[x]
  OBVIOUS
<1>2. \A x, y \in S : f[x] = f[y] => x = y
  BY DEF OnePerIndex
<1> HIDE DEF f
<1>3. QED
  BY <1>1, <1>2, Image

\* R is a copy of S, element by element with f, in which only at and written may differ.
Copy(S, R, f) ==
  /\ f \in [S -> R]
  /\ \A r \in R : \E x \in S : r = f[x]
  /\ \A x \in S : /\ f[x] \in Event
                  /\ f[x].id = x.id /\ f[x].index = x.index
                  /\ f[x].time = x.time /\ f[x].seq = x.seq

LEMMA CopyFacts ==
  ASSUME NEW S \in Events, Unique(S), NEW R, NEW f, Copy(S, R, f)
  PROVE  /\ R \in Events /\ Cardinality(R) = Cardinality(S)
         /\ Unique(R) /\ Ids(R) = Ids(S)
         /\ \A r \in R : \E x \in S : r = f[x] /\ r.id = x.id /\ r.seq = x.seq
<1>1. \A x, y \in S : f[x] = f[y] => x = y
  BY DEF Copy, Unique
<1>2. IsFiniteSet(R) /\ Cardinality(R) = Cardinality(S)
  BY <1>1, Image DEF Copy, Events
<1>3. \A r \in R : r \in Event /\ \E x \in S : r = f[x] /\ r.id = x.id /\ r.seq = x.seq
  BY DEF Copy
<1>4. R \in Events
  BY <1>2, <1>3 DEF Events
<1>5. Unique(R)
  BY <1>3 DEF Unique
<1>6. Ids(R) = Ids(S)
  <2>1. \A x \in S : f[x] \in R /\ f[x].id = x.id
    BY DEF Copy
  <2>2. QED
    BY <1>3, <2>1 DEF Ids
<1>7. QED
  BY <1>2, <1>3, <1>4, <1>5, <1>6

---------------------------------------------------------------------------
(* Insertion *)

\* Events that enter the set: they are in neither the set nor in its past.
Fresh(N) ==
  /\ N \in Events
  /\ Unique(events \cup N) /\ DistinctAt(events \cup N) /\ events \cap N = {}
  /\ \A e \in N, f \in events : e.seq # f.seq

LEMMA InsertedSets ==
  ASSUME kind \in Kinds, events \in Events, NEW N, Fresh(N)
  PROVE  /\ events \cup N \in Events
         /\ events \cup N = Inserted(N) \cup Superseded(N)
         /\ Inserted(N) \cap Superseded(N) = {}
         /\ kind # "Index" => Inserted(N) = events \cup N
         /\ kind = "Index" => OnePerIndex(Inserted(N))
<1> DEFINE All == events \cup N
<1>1. All \in Events
  BY FS_Union DEF Fresh, Events
<1>2. CASE kind = "Index"
  <2>1. Inserted(N) \subseteq All /\ Superseded(N) = All \ Inserted(N)
    BY <1>2 DEF Inserted, Superseded
  <2>2. \A e \in Inserted(N) : \A f \in All :
           f.index = e.index => f.time < e.time \/ (f.time = e.time /\ f.at <= e.at)
    BY <1>2 DEF Inserted
  <2>3. \A e \in All : e.time \in Nat /\ e.at \in Nat
    BY <1>1, EventFields DEF Events
  <2>4. \A e, f \in Inserted(N) : e.index = f.index => e.at = f.at
    BY <2>1, <2>2, <2>3
  <2>5. OnePerIndex(Inserted(N))
    BY <2>1, <2>4 DEF OnePerIndex, DistinctAt, Fresh
  <2>6. QED
    BY <1>1, <1>2, <2>1, <2>5
<1>3. CASE kind # "Index"
  <2>1. Inserted(N) = All /\ Superseded(N) = {}
    BY <1>3 DEF Inserted, Superseded, Kinds, Fresh
  <2>2. QED
    BY <1>1, <1>3, <2>1
<1>4. QED
  BY <1>2, <1>3

\* SingleEventBuffer: the newest event of each index stays.
LEMMA Winner ==
  ASSUME kind = "Index", events \in Events, NEW N, Fresh(N), NEW e \in events \cup N
  PROVE  \E w \in Inserted(N) : w.index = e.index
<1> DEFINE All == events \cup N
           S == {x \in All : x.index = e.index}
           R == {r \in S \X S : r[1].time < r[2].time
                                \/ (r[1].time = r[2].time /\ r[1].at < r[2].at)}
<1>1. IsFiniteSet(S) /\ S # {}
  <2>1. IsFiniteSet(All) /\ S \in SUBSET All /\ e \in S
    BY FS_Union DEF Fresh, Events
  <2>2. QED
    BY <2>1, FS_Subset
<1>2. \A x \in S : x.time \in Nat /\ x.at \in Nat
  BY EventFields DEF Fresh, Events
<1>3. \A x, y \in S : <<x, y>> \in R <=> x.time < y.time \/ (x.time = y.time /\ x.at < y.at)
  OBVIOUS
<1>4. \A x, y, z \in S : <<x, y>> \in R /\ <<y, z>> \in R => <<x, z>> \in R
  BY <1>2, <1>3
<1>5. \A x \in S : <<x, x>> \notin R
  BY <1>2, <1>3
<1>6. PICK m \in S : \A x \in S : <<m, x>> \notin R
  <2> HIDE DEF S, R
  <2>1. QED
    BY <1>1, <1>4, <1>5, MaximalElement
<1>7. ASSUME NEW f \in All, f.index = m.index
      PROVE  f.time < m.time \/ (f.time = m.time /\ f.at <= m.at)
  <2>1. f \in S /\ m \in S
    BY <1>6, <1>7
  <2>2. ~(m.time < f.time \/ (m.time = f.time /\ m.at < f.at))
    BY <1>3, <1>6, <2>1
  <2>3. QED
    BY <1>2, <2>1, <2>2
<1>8. m \in Inserted(N) /\ m.index = e.index
  BY <1>6, <1>7 DEF Inserted
<1>9. QED
  BY <1>8

\* The counters grow by what the set gains.
LEMMA Growth ==
  ASSUME kind \in Kinds, events \in Events, NEW N, Fresh(N), NEW c,
         kind = "Index" => OnePerIndex(events)
  PROVE  /\ Grown(N, c) \in Nat /\ Cardinality(OfClass(events, c)) \in Nat
         /\ Cardinality(OfClass(Inserted(N), c)) = Cardinality(OfClass(events, c)) + Grown(N, c)
<1> DEFINE W == OfClass(Inserted(N), c)
           E == OfClass(events, c)
<1>1. CASE kind # "Index"
  <2>1. Inserted(N) = events \cup N /\ Grown(N, c) = Cardinality(OfClass(N, c))
    BY <1>1, InsertedSets DEF Grown
  <2>2. events \cup N \in Events /\ events \cap N = {}
    BY InsertedSets DEF Fresh
  <2>3. /\ Cardinality(OfClass(events, c)) \in Nat /\ Cardinality(OfClass(N, c)) \in Nat
        /\ Cardinality(OfClass(events \cup N, c))
             = Cardinality(OfClass(events, c)) + Cardinality(OfClass(N, c))
    <3>1. Cardinality(OfClass(events, c)) \in Nat
      BY <2>2, ClassSizes
    <3>2. Cardinality(OfClass(N, c)) \in Nat
      BY <2>2, ClassSizes
    <3>3. Cardinality(OfClass(events \cup N, c))
             = Cardinality(OfClass(events, c)) + Cardinality(OfClass(N, c))
      BY <2>2, ClassSizes
    <3>4. QED
      BY <3>1, <3>2, <3>3
  <2>4. QED
    BY <2>1, <2>3
<1>2. CASE kind = "Index"
  <2> DEFINE IW == {e.index : e \in W}
             IE == {e.index : e \in E}
             G  == {e.index : e \in OfClass(N, c)} \ {e.index : e \in events}
  <2>1. Inserted(N) \subseteq events \cup N /\ OnePerIndex(Inserted(N)) /\ events \cup N \in Events
    BY <1>2, InsertedSets
  <2>2. IsFiniteSet(W) /\ IsFiniteSet(E)
    <3>1. IsFiniteSet(events \cup N) /\ IsFiniteSet(events)
      BY <2>1 DEF Events
    <3>2. W \in SUBSET (events \cup N) /\ E \in SUBSET events
      BY <2>1 DEF OfClass
    <3>3. QED
      BY <3>1, <3>2, FS_Subset
  <2>3. OnePerIndex(W) /\ OnePerIndex(E)
    BY <1>2, <2>1 DEF OnePerIndex, OfClass
  <2>4. IW = IE \cup G
    <3>1. ASSUME NEW i \in IW PROVE i \in IE \cup G
      BY <2>1 DEF OfClass
    <3>2. ASSUME NEW i \in IE \cup G PROVE i \in IW
      <4>1. PICK e \in events \cup N : e.index = i /\ ClassOf[i] = c
        BY DEF OfClass
      <4>2. PICK w \in Inserted(N) : w.index = i
        BY <1>2, <4>1, Winner
      <4>3. QED
        BY <4>1, <4>2 DEF OfClass
    <3>3. QED
      BY <3>1, <3>2
  <2>5. IE \cap G = {}
    BY DEF OfClass
  <2>6. /\ IsFiniteSet(IW) /\ Cardinality(IW) = Cardinality(W)
        /\ IsFiniteSet(IE) /\ Cardinality(IE) = Cardinality(E)
    <3> HIDE DEF W, E
    <3>1. QED
      BY <2>2, <2>3, IndexSizes
  <2>7. Grown(N, c) = Cardinality(G)
    BY <1>2 DEF Grown
  <2> HIDE DEF W, E, IW, IE, G
  <2>8. /\ Cardinality(IE) \in Nat /\ Cardinality(G) \in Nat
        /\ Cardinality(IW) = Cardinality(IE) + Cardinality(G)
    <3>1. IsFiniteSet(IE \cup G)
      BY <2>4, <2>6
    <3>2. Cardinality(IE \cup G) = Cardinality(IE) + Cardinality(G)
      BY <2>5, <3>1, PartSizes
    <3>3. QED
      BY <2>4, <2>5, <3>1, <3>2, PartSizes
  <2>9. QED
    BY <2>6, <2>7, <2>8 DEF W, E
<1>3. QED
  BY <1>1, <1>2

---------------------------------------------------------------------------
(* Moves between the set and the selection *)

\* What the order of each kind of set relies on
Sorted(S) ==
  /\ DistinctAt(S)
  /\ kind = "Index" => OnePerIndex(S)
  /\ \A e, f \in S : e.seq = f.seq => e = f

LEMMA SetRanks ==
  ASSUME kind \in Kinds, NEW S \in Events, Sorted(S)
  PROVE  /\ \A e \in S : RankInSet(e, S) \in Nat /\ RankInSet(e, S) < Cardinality(S)
         /\ \A e, f \in S : RankInSet(e, S) = RankInSet(f, S) => e = f
<1> DEFINE below == [e \in S |-> {f \in S : Before(f, e)}]
<1>1. \A e, f \in S : f \in below[e] <=> Before(f, e)
  OBVIOUS
<1>2. \A e \in S : Cardinality(below[e]) = RankInSet(e, S)
  BY DEF RankInSet
<1>3. \A e \in S : e.index \in Nat /\ e.time \in Nat /\ e.at \in Nat /\ e.seq \in Nat
  BY EventFields DEF Events
<1>4. \A x, y, z \in S : Before(x, y) /\ Before(y, z) => Before(x, z)
  BY <1>3 DEF Before, Kinds
<1>5. \A x \in S : ~Before(x, x)
  BY <1>3 DEF Before, Kinds
<1>6. \A x, y \in S : x # y => Before(x, y) \/ Before(y, x)
  BY <1>3 DEF Before, Kinds, Sorted, DistinctAt, OnePerIndex
<1>7. IsFiniteSet(S)
  BY DEF Events
<1>8. \A x \in S : below[x] \in SUBSET S
  OBVIOUS
<1> HIDE DEF below
<1>9. /\ \A x \in S : below[x] \in SUBSET S /\ x \notin below[x]
      /\ \A x, y \in S : x \in below[y] => below[x] \subseteq below[y]
      /\ \A x, y \in S : x # y => x \in below[y] \/ y \in below[x]
  BY <1>1, <1>4, <1>5, <1>6, <1>8
<1>10. \A x \in S : Cardinality(below[x]) \in Nat /\ Cardinality(below[x]) < Cardinality(S)
  BY <1>7, <1>9, Ranks
<1>11. \A x, y \in S : Cardinality(below[x]) = Cardinality(below[y]) => x = y
  BY <1>7, <1>9, Ranks
<1>12. QED
  BY <1>2, <1>10, <1>11

LEMMA VectorRanks ==
  ASSUME NEW S \in Events, DistinctAt(S)
  PROVE  /\ \A e \in S : RankInVector(e, S) \in Nat /\ RankInVector(e, S) < Cardinality(S)
         /\ \A e, f \in S : RankInVector(e, S) = RankInVector(f, S) => e = f
<1> DEFINE below == [e \in S |-> {f \in S : f.at < e.at}]
<1>1. \A e, f \in S : f \in below[e] <=> f.at < e.at
  OBVIOUS
<1>2. \A e \in S : Cardinality(below[e]) = RankInVector(e, S)
  BY DEF RankInVector
<1>3. \A e \in S : e.at \in Nat
  BY EventFields DEF Events
<1>4. IsFiniteSet(S)
  BY DEF Events
<1>5. \A x \in S : below[x] \in SUBSET S
  OBVIOUS
<1> HIDE DEF below
<1>6. /\ \A x \in S : below[x] \in SUBSET S /\ x \notin below[x]
      /\ \A x, y \in S : x \in below[y] => below[x] \subseteq below[y]
      /\ \A x, y \in S : x # y => x \in below[y] \/ y \in below[x]
  BY <1>1, <1>3, <1>5 DEF DistinctAt
<1>7. \A x \in S : Cardinality(below[x]) \in Nat /\ Cardinality(below[x]) < Cardinality(S)
  BY <1>4, <1>6, Ranks
<1>8. \A x, y \in S : Cardinality(below[x]) = Cardinality(below[y]) => x = y
  BY <1>4, <1>6, Ranks
<1>9. QED
  BY <1>2, <1>7, <1>8

\* The events of S take the next moments, in the order of their ranks.
LEMMA Moved ==
  ASSUME clock \in Nat, NEW S \in Events, Unique(S), NEW rank,
         \A e \in S : rank[e] \in Nat /\ rank[e] < Cardinality(S),
         \A e, f \in S : rank[e] = rank[f] => e = f,
         NEW R, NEW g, Copy(S, R, g), \A e \in S : g[e].at = clock + rank[e]
  PROVE  /\ DistinctAt(R)
         /\ \A r \in R : r.at >= clock /\ r.at < clock + Cardinality(S)
<1>1. Cardinality(S) \in Nat
  BY FS_CardinalityType DEF Events
<1>2. \A r \in R : \E e \in S : r = g[e] /\ r.at = clock + rank[e]
  BY DEF Copy
<1>3. DistinctAt(R)
  BY <1>2 DEF DistinctAt
<1>4. \A r \in R : r.at >= clock /\ r.at < clock + Cardinality(S)
  BY <1>1, <1>2
<1>5. QED
  BY <1>3, <1>4

---------------------------------------------------------------------------
(* The inductive invariant *)

\* Events are told apart by their ids and places, none is newer than the counts.
Placed ==
  /\ Unique(events) /\ Unique(selected)
  /\ DistinctAt(events) /\ DistinctAt(selected)
  /\ kind = "Index" => OnePerIndex(events)
  /\ \A e \in events \cup selected : e.seq < sequence /\ e.at < clock

\* The sets divide 1..n.
Divided(n, A, B, C, D, E) ==
  /\ A \cup B \cup C \cup D \cup E = 1..n
  /\ A \cap B = {} /\ A \cap C = {} /\ A \cap D = {} /\ A \cap E = {}
  /\ B \cap C = {} /\ B \cap D = {} /\ B \cap E = {}
  /\ C \cap D = {} /\ C \cap E = {} /\ D \cap E = {}

Accounts == Divided(updates, Ids(events), Ids(selected), reported, dropped, superseded)

IInv ==
  /\ TypeOK
  /\ Placed
  /\ SequenceFollowsUpdates
  /\ Accounts
  /\ CounterMatches
  /\ VtoNeverDropped

LEMMA InitInv == Init => IInv
<1> SUFFICES ASSUME Init PROVE IInv
  OBVIOUS
<1>1. IsFiniteSet({}) /\ Cardinality({}) = 0
  BY FS_EmptySet
<1>2. TypeOK
  BY <1>1 DEF Init, TypeOK
<1>3. Placed
  BY DEF Init, Placed, Unique, DistinctAt, OnePerIndex
<1>4. SequenceFollowsUpdates
  BY DEF Init, SequenceFollowsUpdates
<1>5. Accounts
  <2>1. Ids({}) = {}
    BY DEF Ids
  <2>2. 1..0 = {}
    OBVIOUS
  <2>3. QED
    BY <2>1, <2>2 DEF Init, Accounts, Divided
<1>6. CounterMatches
  <2>1. \A c : OfClass({}, c) = {}
    BY DEF OfClass
  <2>2. QED
    BY <1>1, <2>1 DEF Init, CounterMatches
<1>7. VtoNeverDropped
  BY <1>1, BufferAssumption DEF Init, VtoNeverDropped, Size
<1>8. QED
  BY <1>2, <1>3, <1>4, <1>5, <1>6, <1>7 DEF IInv

\* What the invariant says of the sets
LEMMA SetFacts ==
  ASSUME IInv
  PROVE  /\ kind \in Kinds /\ clock \in Nat /\ sequence \in Nat /\ updates \in Nat
         /\ events \in Events /\ selected \in Events
         /\ Unique(events) /\ Unique(selected)
         /\ Sorted(events) /\ DistinctAt(selected)
         /\ kind = "Index" => OnePerIndex(events)
         /\ Ids(events) \cap Ids(selected) = {}
         /\ \A e \in events \cup selected :
              /\ e \in Event /\ e.id \in Nat /\ e.seq \in Nat /\ e.at \in Nat
              /\ e.seq < sequence /\ e.at < clock
         /\ \A e \in events, f \in selected : e.id # f.id /\ e.seq # f.seq
<1>1. /\ kind \in Kinds /\ clock \in Nat /\ sequence \in Nat /\ updates \in Nat
      /\ events \in Events /\ selected \in Events
  BY DEF IInv, TypeOK, Events
<1>2. Unique(events) /\ Unique(selected) /\ DistinctAt(events) /\ DistinctAt(selected)
      /\ (kind = "Index" => OnePerIndex(events))
  BY DEF IInv, Placed
<1>3. \A e \in events \cup selected :
              /\ e \in Event /\ e.id \in Nat /\ e.seq \in Nat /\ e.at \in Nat
              /\ e.seq < sequence /\ e.at < clock
  BY <1>1, EventFields DEF IInv, Placed, Events
<1>4. Ids(events) \cap Ids(selected) = {}
  BY DEF IInv, Accounts, Divided
<1>5. \A e \in events, f \in selected : e.id # f.id
  BY <1>4 DEF Ids
<1>6. \A e, f \in events \cup selected : e.id < f.id => e.seq < f.seq
  BY DEF IInv, SequenceFollowsUpdates
<1>7. \A e \in events, f \in selected : e.seq # f.seq
  BY <1>3, <1>5, <1>6
<1>8. \A e, f \in events : e.seq = f.seq => e = f
  BY <1>2, <1>3, <1>6 DEF Unique
<1>9. QED
  BY <1>1, <1>2, <1>3, <1>4, <1>5, <1>7, <1>8 DEF Sorted

\* Events that are only moved keep their sequence.
LEMMA SequenceKept ==
  ASSUME SequenceFollowsUpdates, NEW S,
         \A e \in S : \E x \in events \cup selected : e.id = x.id /\ e.seq = x.seq
  PROVE  \A e, f \in S : e.id < f.id => e.seq < f.seq
BY DEF SequenceFollowsUpdates

---------------------------------------------------------------------------
(* The actions *)

LEMMA IsOverflownInv == ASSUME IInv, IsOverflown PROVE IInv'
<1>1. TypeOK'
  BY DEF IInv, IsOverflown, TypeOK, history
<1>2. Placed' /\ SequenceFollowsUpdates' /\ Accounts' /\ CounterMatches' /\ VtoNeverDropped'
  BY DEF IInv, IsOverflown, Placed, SequenceFollowsUpdates, Accounts, CounterMatches, VtoNeverDropped,
         Size, history
<1>3. QED
  BY <1>1, <1>2 DEF IInv

LEMMA ClearInv == ASSUME IInv, ClearWrittenEvents PROVE IInv'
<1> DEFINE cleared == {e \in selected : \A f \in selected : f.at <= e.at => f.written}
           rest    == selected \ cleared
<1>1. /\ selected' = rest /\ reported' = reported \cup Ids(cleared)
      /\ UNCHANGED <<kind, events, sequence, counter, overflown, clock, updates, selections, dropped,
                     superseded>>
  BY DEF ClearWrittenEvents
<1>2. selected = rest \cup cleared /\ rest \cap cleared = {}
  OBVIOUS
<1> HIDE DEF rest, cleared
<1>3. /\ Ids(selected) = Ids(rest) \cup Ids(cleared)
      /\ Ids(rest) \cap Ids(cleared) = {}
  <2>1. Unique(rest \cup cleared)
    BY <1>2, SetFacts
  <2>2. Ids(rest \cup cleared) = Ids(rest) \cup Ids(cleared)
    BY <1>2, Parts
  <2>3. Ids(rest) \cap Ids(cleared) = {}
    BY <1>2, <2>1, Parts
  <2>4. QED
    BY <1>2, <2>2, <2>3
<1>4. rest \in Events /\ Cardinality(rest) <= Cardinality(selected) /\ Cardinality(rest) \in Nat
  <2>1. selected \in Events /\ IsFiniteSet(selected) /\ rest \in SUBSET selected
    BY <1>2, SetFacts DEF Events
  <2>2. IsFiniteSet(rest) /\ Cardinality(rest) <= Cardinality(selected)
    BY <2>1, FS_Subset
  <2>3. QED
    BY <2>1, <2>2, FS_CardinalityType DEF Events
<1>5. Ids(cleared) \in SUBSET Nat
  <2>1. Ids(cleared) \subseteq Ids(selected)
    BY <1>3
  <2>2. Ids(selected) \in SUBSET Nat
    BY SetFacts DEF Ids
  <2>3. QED
    BY <2>1, <2>2
<1>6. TypeOK'
  BY <1>1, <1>4, <1>5 DEF IInv, TypeOK, Events
<1>7. Placed'
  BY <1>1, <1>2 DEF IInv, Placed, Unique, DistinctAt
<1>8. SequenceFollowsUpdates'
  BY <1>1, <1>2 DEF IInv, SequenceFollowsUpdates
<1>9. Accounts'
  BY <1>1, <1>3 DEF IInv, Accounts, Divided
<1>10. CounterMatches'
  BY <1>1 DEF IInv, CounterMatches
<1>11. VtoNeverDropped'
  <2>1. Size' = Cardinality(events) + Cardinality(rest)
    BY <1>1 DEF Size
  <2>2. Cardinality(events) \in Nat /\ Cardinality(selected) \in Nat
    BY SetFacts, FS_CardinalityType DEF Events
  <2>3. Size' <= Size
    BY <1>4, <2>1, <2>2 DEF Size
  <2>4. QED
    BY <1>1, <1>4, <2>1, <2>2, <2>3, BufferAssumption DEF IInv, VtoNeverDropped, Size
<1>12. QED
  BY <1>6, <1>7, <1>8, <1>9, <1>10, <1>11 DEF IInv

LEMMA WriteInv == ASSUME IInv, Write PROVE IInv'
<1>1. PICK n \in 1..Cardinality(selected) :
        selected' = {IF RankInVector(e, selected) < n THEN [e EXCEPT !.written = TRUE] ELSE e :
                       e \in selected}
  BY DEF Write
<1> DEFINE g == [e \in selected |->
                   IF RankInVector(e, selected) < n THEN [e EXCEPT !.written = TRUE] ELSE e]
           R == {IF RankInVector(e, selected) < n THEN [e EXCEPT !.written = TRUE] ELSE e :
                   e \in selected}
<1>2. /\ selected' = R
      /\ UNCHANGED <<kind, events, sequence, counter, overflown, clock, updates, selections, history>>
  BY <1>1 DEF Write
<1>3. Copy(selected, R, g)
  <2>1. g \in [selected -> R] /\ \A r \in R : \E x \in selected : r = g[x]
    OBVIOUS
  <2>2. ASSUME NEW x \in selected
        PROVE  /\ g[x] \in Event /\ g[x].id = x.id /\ g[x].index = x.index
               /\ g[x].time = x.time /\ g[x].seq = x.seq
    <3>1. x \in Event /\ (g[x] = x \/ g[x] = [x EXCEPT !.written = TRUE])
      BY SetFacts
    <3>2. QED
      BY <3>1 DEF Event
  <2>3. QED
    BY <2>1, <2>2 DEF Copy
<1>4. \A x \in selected : g[x].at = x.at
  BY SetFacts DEF Event
<1> HIDE DEF g, R
<1>5. selected \in Events /\ Unique(selected) /\ DistinctAt(selected)
  BY SetFacts
<1>6. R \in Events /\ Unique(R)
  BY <1>3, <1>5, CopyFacts
<1>7. Cardinality(R) = Cardinality(selected)
  BY <1>3, <1>5, CopyFacts
<1>8. Ids(R) = Ids(selected)
  BY <1>3, <1>5, CopyFacts
<1>9. \A r \in R : \E x \in selected : r.id = x.id /\ r.seq = x.seq /\ r.at = x.at /\ r = g[x]
  BY <1>3, <1>4 DEF Copy
<1>10. TypeOK'
  BY <1>2, <1>6 DEF IInv, TypeOK, Events, history
<1>11. Placed'
  <2>1. DistinctAt(R)
    BY <1>5, <1>9 DEF DistinctAt
  <2>2. \A e \in events \cup R : e.seq < sequence /\ e.at < clock
    BY <1>9, SetFacts
  <2>3. QED
    BY <1>2, <1>6, <2>1, <2>2 DEF IInv, Placed, history
<1>12. SequenceFollowsUpdates'
  <2>1. SequenceFollowsUpdates /\ \A e \in events \cup R :
                                     \E x \in events \cup selected : e.id = x.id /\ e.seq = x.seq
    BY <1>9 DEF IInv
  <2>2. QED
    BY <1>2, <2>1, SequenceKept DEF SequenceFollowsUpdates
<1>13. Accounts'
  BY <1>2, <1>8 DEF IInv, Accounts, history
<1>14. CounterMatches'
  BY <1>2 DEF IInv, CounterMatches
<1>15. VtoNeverDropped'
  BY <1>2, <1>7 DEF IInv, VtoNeverDropped, Size, history
<1>16. QED
  BY <1>10, <1>11, <1>12, <1>13, <1>14, <1>15 DEF IInv

LEMMA SelectInv == ASSUME IInv, Select PROVE IInv'
<1>1. PICK M \in SUBSET Classes, n \in 1..Cardinality(events) :
        LET matching == {e \in events : ClassOf[e.index] \in M}
            chosen   == {e \in matching : RankInSet(e, matching) < n}
        IN  /\ events' = events \ chosen
            /\ counter' = [c \in Classes |-> counter[c] - Cardinality(OfClass(chosen, c))]
            /\ selected' = selected \cup
                 {[e EXCEPT !.at = clock + RankInSet(e, chosen), !.written = FALSE] : e \in chosen}
            /\ clock' = clock + Cardinality(chosen)
  BY DEF Select
<1> DEFINE matching == {e \in events : ClassOf[e.index] \in M}
           chosen   == {e \in matching : RankInSet(e, matching) < n}
           rest     == events \ chosen
           rank     == [e \in chosen |-> RankInSet(e, chosen)]
           g == [e \in chosen |-> [e EXCEPT !.at = clock + RankInSet(e, chosen), !.written = FALSE]]
           R == {[e EXCEPT !.at = clock + RankInSet(e, chosen), !.written = FALSE] : e \in chosen}
<1>2. /\ events' = rest
      /\ counter' = [c \in Classes |-> counter[c] - Cardinality(OfClass(chosen, c))]
      /\ selected' = selected \cup R
      /\ clock' = clock + Cardinality(chosen)
      /\ selections \in Nat => selections' \in Nat
      /\ UNCHANGED <<kind, sequence, overflown, updates, history>>
  <2>1. /\ events' = rest
        /\ selected' = selected \cup R
        /\ clock' = clock + Cardinality(chosen)
    BY <1>1, Zenon
  <2>2. counter' = [c \in Classes |-> counter[c] - Cardinality(OfClass(chosen, c))]
    BY <1>1, Zenon
  <2>3. selections' = selections + 1 /\ UNCHANGED <<kind, sequence, overflown, updates, history>>
    BY DEF Select
  <2>4. selections \in Nat => selections' \in Nat
    BY <2>3
  <2>5. QED
    BY <2>1, <2>2, <2>3, <2>4
<1>3. events = rest \cup chosen /\ rest \cap chosen = {}
  OBVIOUS
<1>4. \A e \in chosen : rank[e] = RankInSet(e, chosen)
  OBVIOUS
<1>5. /\ g \in [chosen -> R] /\ \A r \in R : \E x \in chosen : r = g[x]
      /\ \A x \in chosen : g[x] = [x EXCEPT !.at = clock + RankInSet(x, chosen), !.written = FALSE]
  OBVIOUS
<1> HIDE DEF rest, chosen, g, R, rank
<1>6. /\ rest \in Events /\ chosen \in Events /\ Cardinality(chosen) \in Nat
      /\ Unique(chosen) /\ Sorted(chosen)
  <2>1. events \in Events /\ chosen \in SUBSET events /\ rest \in SUBSET events
    BY <1>3, SetFacts
  <2>2. rest \in Events /\ chosen \in Events
    BY <2>1, FS_Subset DEF Events
  <2>3. Unique(chosen) /\ Sorted(chosen)
    BY <2>1, SetFacts DEF Unique, Sorted, DistinctAt, OnePerIndex
  <2>4. QED
    BY <2>2, <2>3, FS_CardinalityType DEF Events
<1>7. /\ \A e \in chosen : rank[e] \in Nat /\ rank[e] < Cardinality(chosen)
      /\ \A e, f \in chosen : rank[e] = rank[f] => e = f
  <2>1. kind \in Kinds
    BY SetFacts
  <2>2. \A e \in chosen : RankInSet(e, chosen) \in Nat /\ RankInSet(e, chosen) < Cardinality(chosen)
    BY <1>6, <2>1, SetRanks
  <2>3. \A e, f \in chosen : RankInSet(e, chosen) = RankInSet(f, chosen) => e = f
    BY <1>6, <2>1, SetRanks
  <2>4. QED
    BY <1>4, <2>2, <2>3
<1>8. \A x \in chosen : /\ g[x] \in Event /\ g[x].id = x.id /\ g[x].index = x.index
                        /\ g[x].time = x.time /\ g[x].seq = x.seq /\ g[x].at = clock + rank[x]
  <2>1. ASSUME NEW x \in chosen
        PROVE  /\ g[x] \in Event /\ g[x].id = x.id /\ g[x].index = x.index
               /\ g[x].time = x.time /\ g[x].seq = x.seq /\ g[x].at = clock + rank[x]
    <3>1. x \in Event /\ clock + rank[x] \in Nat
      BY <1>3, <1>7, SetFacts
    <3>2. g[x] = [x EXCEPT !.at = clock + rank[x], !.written = FALSE]
      BY <1>4, <1>5
    <3>3. QED
      BY <3>1, <3>2 DEF Event
  <2>2. QED
    BY <2>1
<1>9. Copy(chosen, R, g)
  BY <1>5, <1>8 DEF Copy
<1>10. R \in Events /\ Unique(R)
  BY <1>6, <1>9, CopyFacts
<1>11. Cardinality(R) = Cardinality(chosen)
  BY <1>6, <1>9, CopyFacts
<1>12. Ids(R) = Ids(chosen)
  BY <1>6, <1>9, CopyFacts
<1>13. DistinctAt(R) /\ \A r \in R : r.at >= clock /\ r.at < clock + Cardinality(chosen)
  <2>1. clock \in Nat
    BY SetFacts
  <2>2. DistinctAt(R)
    BY <1>6, <1>7, <1>8, <1>9, <2>1, Moved
  <2>3. \A r \in R : r.at >= clock /\ r.at < clock + Cardinality(chosen)
    BY <1>6, <1>7, <1>8, <1>9, <2>1, Moved
  <2>4. QED
    BY <2>2, <2>3
<1>14. \A r \in R : \E x \in events : r.id = x.id /\ r.seq = x.seq
  BY <1>3, <1>9 DEF Copy
<1>15. Ids(events) = Ids(rest) \cup Ids(R) /\ Ids(rest) \cap Ids(R) = {}
  <2>1. Unique(rest \cup chosen)
    BY <1>3, SetFacts
  <2>2. Ids(rest \cup chosen) = Ids(rest) \cup Ids(chosen)
    BY <1>3, Parts
  <2>3. Ids(rest) \cap Ids(chosen) = {}
    BY <1>3, <2>1, Parts
  <2>4. QED
    BY <1>3, <1>12, <2>2, <2>3
<1>16. Ids(selected \cup R) = Ids(selected) \cup Ids(R)
  BY DEF Ids
<1>17. \A e \in selected, r \in R : e.id # r.id /\ e.at # r.at
  <2>1. \A e \in selected, r \in R : e.id # r.id
    BY <1>14, SetFacts
  <2>2. \A e \in selected, r \in R : e.at \in Nat /\ e.at < clock /\ r.at \in Nat /\ r.at >= clock
    BY <1>10, <1>13, SetFacts, EventFields DEF Events
  <2>3. QED
    BY <2>1, <2>2, SetFacts
<1>18. selected \cup R \in Events
  BY <1>10, SetFacts, FS_Union DEF Events
<1>19. \A c \in Classes : /\ Cardinality(OfClass(rest, c)) \in Nat
                          /\ counter'[c] = Cardinality(OfClass(rest, c))
  <2>1. ASSUME NEW c \in Classes
        PROVE  /\ Cardinality(OfClass(rest, c)) \in Nat
               /\ counter'[c] = Cardinality(OfClass(rest, c))
    <3>1. rest \cup chosen \in Events
      BY <1>3, SetFacts
    <3>2. Cardinality(OfClass(rest, c)) \in Nat
      BY <1>3, <3>1, ClassSizes
    <3>3. Cardinality(OfClass(chosen, c)) \in Nat
      BY <1>3, <3>1, ClassSizes
    <3>4. Cardinality(OfClass(rest \cup chosen, c))
            = Cardinality(OfClass(rest, c)) + Cardinality(OfClass(chosen, c))
      BY <1>3, <3>1, ClassSizes
    <3>5. counter[c] = Cardinality(OfClass(rest \cup chosen, c))
      BY <1>3 DEF IInv, CounterMatches
    <3>6. counter'[c] = counter[c] - Cardinality(OfClass(chosen, c))
      BY <1>2
    <3>7. QED
      BY <3>2, <3>3, <3>4, <3>5, <3>6
  <2>2. QED
    BY <2>1
<1>20. TypeOK'
  <2>1. counter' \in [Classes -> Nat]
    BY <1>2, <1>19
  <2>2. events' \in Events /\ selected' \in Events
    BY <1>2, <1>6, <1>18
  <2>3. clock' \in Nat
    BY <1>2, <1>6, SetFacts
  <2>4. QED
    BY <1>2, <2>1, <2>2, <2>3 DEF IInv, TypeOK, Events, history
<1>21. Placed'
  <2>1. Unique(rest) /\ DistinctAt(rest) /\ (kind = "Index" => OnePerIndex(rest))
    BY <1>3 DEF IInv, Placed, Unique, DistinctAt, OnePerIndex
  <2>2. Unique(selected \cup R)
    BY <1>10, <1>17 DEF IInv, Placed, Unique
  <2>3. DistinctAt(selected \cup R)
    BY <1>13, <1>17 DEF IInv, Placed, DistinctAt
  <2>4. \A e \in rest \cup (selected \cup R) : e.seq < sequence
    BY <1>3, <1>14, SetFacts
  <2>5. \A e \in rest \cup (selected \cup R) : e.at < clock + Cardinality(chosen)
    BY <1>3, <1>6, <1>13, SetFacts
  <2>6. QED
    BY <1>2, <2>1, <2>2, <2>3, <2>4, <2>5 DEF Placed
<1>22. SequenceFollowsUpdates'
  <2>1. SequenceFollowsUpdates /\ \A e \in rest \cup (selected \cup R) :
                                     \E x \in events \cup selected : e.id = x.id /\ e.seq = x.seq
    BY <1>3, <1>14 DEF IInv
  <2>2. QED
    BY <1>2, <2>1, SequenceKept DEF SequenceFollowsUpdates
<1>23. Accounts'
  BY <1>2, <1>15, <1>16 DEF IInv, Accounts, Divided, history
<1>24. CounterMatches'
  BY <1>2, <1>19 DEF CounterMatches
<1>25. VtoNeverDropped'
  <2>1. /\ IsFiniteSet(rest) /\ IsFiniteSet(chosen) /\ IsFiniteSet(selected) /\ IsFiniteSet(R)
        /\ IsFiniteSet(rest \cup chosen)
    BY <1>3, <1>6, <1>10, SetFacts DEF Events
  <2>2. Cardinality(rest \cup chosen) = Cardinality(rest) + Cardinality(chosen)
    BY <1>3, <2>1, PartSizes
  <2>3. Cardinality(selected \cup R)
          = Cardinality(selected) + Cardinality(R) - Cardinality(selected \cap R)
    BY <2>1, FS_Union
  <2>4. /\ Cardinality(rest) \in Nat /\ Cardinality(chosen) \in Nat /\ Cardinality(R) \in Nat
        /\ Cardinality(selected) \in Nat /\ Cardinality(selected \cap R) \in Nat
    BY <2>1, FS_CardinalityType, FS_Intersection
  <2>5. Cardinality(rest) + Cardinality(selected \cup R) <= Size
    BY <1>3, <1>11, <2>2, <2>3, <2>4 DEF Size
  <2>6. Size' = Cardinality(rest) + Cardinality(selected \cup R)
    BY <1>2 DEF Size
  <2>7. Size \in Nat /\ Size' \in Nat
    <3>1. Cardinality(events) \in Nat
      BY <1>3, <2>2, <2>4
    <3>2. Cardinality(selected \cup R) \in Nat
      BY <1>18, FS_CardinalityType DEF Events
    <3>3. QED
      BY <2>4, <2>6, <3>1, <3>2 DEF Size
  <2>8. QED
    BY <1>2, <2>5, <2>6, <2>7, BufferAssumption DEF IInv, VtoNeverDropped, history
<1>26. QED
  BY <1>20, <1>21, <1>22, <1>23, <1>24, <1>25 DEF IInv

\* What Inserted and Superseded do to ids and places
LEMMA Insertion ==
  ASSUME IInv, NEW N, Fresh(N)
  PROVE  /\ Inserted(N) \in Events /\ Inserted(N) \subseteq events \cup N
         /\ Unique(Inserted(N)) /\ DistinctAt(Inserted(N))
         /\ kind = "Index" => OnePerIndex(Inserted(N))
         /\ kind # "Index" => Inserted(N) = events \cup N
         /\ Ids(Inserted(N)) \cup Ids(Superseded(N)) = Ids(events) \cup Ids(N)
         /\ Ids(Inserted(N)) \cap Ids(Superseded(N)) = {}
<1> DEFINE S == Inserted(N)
           X == Superseded(N)
<1>1. kind \in Kinds /\ events \in Events
  BY SetFacts
<1>2. events \cup N \in Events /\ events \cup N = S \cup X /\ S \cap X = {}
  BY <1>1, InsertedSets
<1>3. (kind # "Index" => S = events \cup N) /\ (kind = "Index" => OnePerIndex(S))
  BY <1>1, InsertedSets
<1> HIDE DEF S, X
<1>4. S \in Events /\ S \subseteq events \cup N
  <2>1. S \in SUBSET (events \cup N)
    BY <1>2
  <2>2. QED
    BY <1>2, <2>1, FS_Subset DEF Events
<1>5. Unique(S) /\ DistinctAt(S)
  BY <1>4 DEF Fresh, Unique, DistinctAt
<1>6. Ids(S) \cup Ids(X) = Ids(events) \cup Ids(N) /\ Ids(S) \cap Ids(X) = {}
  <2>1. Unique(S \cup X)
    BY <1>2 DEF Fresh
  <2>2. Ids(S \cup X) = Ids(S) \cup Ids(X)
    BY <1>2, Parts
  <2>3. Ids(S) \cap Ids(X) = {}
    BY <1>2, <2>1, Parts
  <2>4. Ids(events \cup N) = Ids(events) \cup Ids(N)
    BY DEF Ids
  <2>5. QED
    BY <1>2, <2>2, <2>3, <2>4
<1>7. QED
  BY <1>3, <1>4, <1>5, <1>6 DEF S, X

LEMMA DeselectInv == ASSUME IInv, Deselect PROVE IInv'
<1> DEFINE rank == [e \in selected |-> RankInVector(e, selected)]
           g == [e \in selected |-> [e EXCEPT !.at = clock + RankInVector(e, selected)]]
           N == {[e EXCEPT !.at = clock + RankInVector(e, selected)] : e \in selected}
           S == Inserted(N)
           X == Superseded(N)
<1>1. /\ events' = S
      /\ counter' = [c \in Classes |-> counter[c] + Grown(N, c)]
      /\ superseded' = superseded \cup Ids(X)
      /\ selected' = {}
      /\ clock' = clock + Cardinality(selected)
      /\ UNCHANGED <<kind, sequence, overflown, updates, selections, reported, dropped>>
  BY Zenon DEF Deselect
<1>2. \A e \in selected : rank[e] = RankInVector(e, selected)
  OBVIOUS
<1>3. /\ g \in [selected -> N] /\ \A r \in N : \E x \in selected : r = g[x]
      /\ \A x \in selected : g[x] = [x EXCEPT !.at = clock + RankInVector(x, selected)]
  OBVIOUS
<1> HIDE DEF g, N, rank
<1>4. /\ kind \in Kinds /\ clock \in Nat /\ events \in Events
      /\ selected \in Events /\ Cardinality(selected) \in Nat
      /\ Unique(selected) /\ DistinctAt(selected) /\ Unique(events) /\ DistinctAt(events)
  BY SetFacts, FS_CardinalityType DEF Events, Sorted
<1>5. /\ \A e \in selected : rank[e] \in Nat /\ rank[e] < Cardinality(selected)
      /\ \A e, f \in selected : rank[e] = rank[f] => e = f
  <2>1. \A e \in selected : RankInVector(e, selected) \in Nat
                            /\ RankInVector(e, selected) < Cardinality(selected)
    BY <1>4, VectorRanks
  <2>2. \A e, f \in selected : RankInVector(e, selected) = RankInVector(f, selected) => e = f
    BY <1>4, VectorRanks
  <2>3. QED
    BY <1>2, <2>1, <2>2
<1>6. ASSUME NEW x \in selected
      PROVE  /\ g[x] \in Event /\ g[x].id = x.id /\ g[x].index = x.index
             /\ g[x].time = x.time /\ g[x].seq = x.seq /\ g[x].at = clock + rank[x]
  <2>1. x \in Event /\ clock + rank[x] \in Nat
    BY <1>5, SetFacts
  <2>2. g[x] = [x EXCEPT !.at = clock + rank[x]]
    BY <1>2, <1>3
  <2>3. QED
    BY <2>1, <2>2 DEF Event
<1>7. Copy(selected, N, g) /\ \A x \in selected : g[x].at = clock + rank[x]
  BY <1>3, <1>6 DEF Copy
<1>8. N \in Events /\ Unique(N)
  BY <1>4, <1>7, CopyFacts
<1>9. Cardinality(N) = Cardinality(selected)
  BY <1>4, <1>7, CopyFacts
<1>10. Ids(N) = Ids(selected)
  BY <1>4, <1>7, CopyFacts
<1>11. DistinctAt(N)
  BY <1>4, <1>5, <1>7, Moved
<1>12. \A r \in N : r.at >= clock /\ r.at < clock + Cardinality(selected)
  BY <1>4, <1>5, <1>7, Moved
<1>13. \A r \in N : \E x \in selected : r.id = x.id /\ r.seq = x.seq
  BY <1>3, <1>6
<1>14. \A e \in events, r \in N : e.id # r.id /\ e.seq # r.seq /\ e.at # r.at
  <2>1. \A e \in events, r \in N : e.id # r.id /\ e.seq # r.seq
    BY <1>13, SetFacts
  <2>2. \A e \in events, r \in N : e.at \in Nat /\ e.at < clock /\ r.at \in Nat /\ r.at >= clock
    BY <1>8, <1>12, SetFacts, EventFields DEF Events
  <2>3. QED
    BY <1>4, <2>1, <2>2
<1>15. Fresh(N)
  <2>1. Unique(events \cup N)
    BY <1>4, <1>8, <1>14 DEF Unique
  <2>2. DistinctAt(events \cup N)
    BY <1>4, <1>11, <1>14 DEF DistinctAt
  <2>3. events \cap N = {}
    BY <1>14
  <2>4. QED
    BY <1>8, <1>14, <2>1, <2>2, <2>3 DEF Fresh
<1>16. S \in Events /\ S \subseteq events \cup N /\ Unique(S) /\ DistinctAt(S)
       /\ (kind = "Index" => OnePerIndex(S))
  BY <1>15, Insertion
<1>17. kind # "Index" => S = events \cup N
  BY <1>15, Insertion
<1>18. Ids(S) \cup Ids(X) = Ids(events) \cup Ids(selected) /\ Ids(S) \cap Ids(X) = {}
  BY <1>10, <1>15, Insertion
<1>19. ASSUME NEW c \in Classes
       PROVE  /\ Cardinality(OfClass(S, c)) \in Nat
              /\ counter'[c] = Cardinality(OfClass(S, c))
  <2>1. kind = "Index" => OnePerIndex(events)
    BY SetFacts
  <2>2. Grown(N, c) \in Nat /\ Cardinality(OfClass(events, c)) \in Nat
    BY <1>4, <1>15, <2>1, Growth
  <2>3. Cardinality(OfClass(S, c)) = Cardinality(OfClass(events, c)) + Grown(N, c)
    BY <1>4, <1>15, <2>1, Growth
  <2>4. counter[c] = Cardinality(OfClass(events, c))
    BY DEF IInv, CounterMatches
  <2>5. counter'[c] = counter[c] + Grown(N, c)
    BY <1>1
  <2>6. QED
    BY <2>2, <2>3, <2>4, <2>5
<1> HIDE DEF S, X
<1>20. Ids({}) = {} /\ IsFiniteSet({}) /\ Cardinality({}) = 0 /\ {} \in Events
  BY FS_EmptySet DEF Ids, Events
<1>21. Ids(X) \in SUBSET Nat
  <2>1. Ids(events) \cup Ids(selected) \in SUBSET Nat
    BY SetFacts DEF Ids
  <2>2. QED
    BY <1>18, <2>1
<1>22. TypeOK'
  <2>1. counter' \in [Classes -> Nat]
    BY <1>1, <1>19
  <2>2. events' \in Events /\ selected' \in Events
    BY <1>1, <1>16, <1>20
  <2>3. clock' \in Nat /\ superseded' \in SUBSET Nat
    <3>1. clock' \in Nat
      BY <1>1, <1>4
    <3>2. superseded \in SUBSET Nat
      BY DEF IInv, TypeOK
    <3>3. QED
      BY <1>1, <1>21, <3>1, <3>2
  <2>4. QED
    BY <1>1, <2>1, <2>2, <2>3 DEF IInv, TypeOK, Events
<1>23. Placed'
  <2>1. \A e \in S : e.seq < sequence
    BY <1>13, <1>16, SetFacts
  <2>2. \A e \in S : e.at < clock + Cardinality(selected)
    BY <1>4, <1>12, <1>16, SetFacts
  <2>3. Unique({}) /\ DistinctAt({})
    BY DEF Unique, DistinctAt
  <2>4. QED
    BY <1>1, <1>16, <2>1, <2>2, <2>3 DEF Placed
<1>24. SequenceFollowsUpdates'
  <2>1. SequenceFollowsUpdates /\ \A e \in S :
                                     \E x \in events \cup selected : e.id = x.id /\ e.seq = x.seq
    BY <1>13, <1>16 DEF IInv
  <2>2. QED
    BY <1>1, <2>1, SequenceKept DEF SequenceFollowsUpdates
<1>25. Accounts'
  BY <1>1, <1>18, <1>20 DEF IInv, Accounts, Divided
<1>26. CounterMatches'
  BY <1>1, <1>19 DEF CounterMatches
<1>27. VtoNeverDropped'
  <2>1. CASE kind = "Insertion"
    <3>1. IsFiniteSet(events \cup N) /\ events \cap N = {}
      BY <1>4, <1>8, <1>15, FS_Union DEF Events, Fresh
    <3>2. Cardinality(events \cup N) = Cardinality(events) + Cardinality(N)
      BY <3>1, PartSizes
    <3>3. Cardinality(events) \in Nat
      BY <1>4, FS_CardinalityType DEF Events
    <3>4. Size' = Size
      <4>1. Size' = Cardinality(S) + Cardinality({})
        BY <1>1 DEF Size
      <4>2. Cardinality(S) = Cardinality(events) + Cardinality(selected)
        BY <1>9, <1>17, <2>1, <3>2
      <4>3. QED
        BY <1>4, <1>20, <3>3, <4>1, <4>2 DEF Size
    <3>5. QED
      BY <1>1, <3>4 DEF IInv, VtoNeverDropped
  <2>2. CASE kind # "Insertion"
    BY <1>1, <2>2 DEF VtoNeverDropped
  <2>3. QED
    BY <2>1, <2>2
<1>28. QED
  BY <1>22, <1>23, <1>24, <1>25, <1>26, <1>27 DEF IInv

\* Update leaves one more, unless NumAvailable says that the buffer is full.
LEMMA RoomLeft ==
  ASSUME Size \in Nat, Size <= MaxEvents, NumAvailable > 0
  PROVE  Size < MaxEvents
<1>1. SizeT \in Nat /\ SizeT > 0 /\ MaxEvents \in Nat
  BY BufferAssumption
<1>2. 0 % SizeT = 0
  BY <1>1
<1>3. Size # MaxEvents
  <2>1. ASSUME Size = MaxEvents PROVE FALSE
    <3>1. MaxEvents - Size = 0
      BY <1>1, <2>1
    <3>2. QED
      BY <1>2, <3>1 DEF NumAvailable
  <2>2. QED
    BY <2>1
<1>4. QED
  BY <1>1, <1>3

LEMMA UpdateInv == ASSUME IInv, Update PROVE IInv'
<1>1. PICK i \in Points, t \in Times :
        LET new  == [id |-> updates + 1, index |-> i, time |-> t, seq |-> NextSequence,
                     at |-> clock, written |-> FALSE]
            S    == Inserted({new})
            lost == IF Cardinality(S) > MaxEvents THEN {e \in S : RankInSet(e, S) = 0} ELSE {}
        IN  /\ events' = S \ lost
            /\ counter' = [c \in Classes |->
                             counter[c] + Grown({new}, c) - Cardinality(OfClass(lost, c))]
            /\ overflown' = (overflown \/ lost # {})
            /\ dropped' = dropped \cup Ids(lost)
            /\ superseded' = superseded \cup Ids(Superseded({new}))
  BY DEF Update
<1> DEFINE new == [id |-> updates + 1, index |-> i, time |-> t, seq |-> NextSequence,
                   at |-> clock, written |-> FALSE]
           N == {new}
           S == Inserted(N)
           X == Superseded(N)
           lost == IF Cardinality(S) > MaxEvents THEN {e \in S : RankInSet(e, S) = 0} ELSE {}
           kept == S \ lost
<1>2. /\ events' = kept
      /\ counter' = [c \in Classes |-> counter[c] + Grown(N, c) - Cardinality(OfClass(lost, c))]
      /\ overflown' \in BOOLEAN
      /\ dropped' = dropped \cup Ids(lost)
      /\ superseded' = superseded \cup Ids(X)
  BY <1>1, Zenon
<1>3. /\ sequence' = NextSequence + 1
      /\ clock' = clock + 1
      /\ updates' = updates + 1
      /\ UNCHANGED <<kind, selected, selections, reported>>
      /\ kind = "Insertion" => NumAvailable > 0
  BY DEF Update
<1>4. S = kept \cup lost /\ kept \cap lost = {}
      /\ (~(Cardinality(S) > MaxEvents) => lost = {})
  OBVIOUS
<1> HIDE DEF S, X, lost, kept
<1>5. /\ kind \in Kinds /\ clock \in Nat /\ updates \in Nat /\ events \in Events
      /\ Unique(events) /\ DistinctAt(events)
  BY SetFacts DEF Sorted
<1>6. /\ NextSequence \in Nat
      /\ \A e \in events \cup selected : e.seq < NextSequence
      /\ Size \in Nat /\ Cardinality(events) \in Nat /\ Cardinality(selected) \in Nat
  <2>1. IsFiniteSet(events) /\ IsFiniteSet(selected)
    BY SetFacts DEF Events
  <2>2. Cardinality(events) \in Nat /\ Cardinality(selected) \in Nat
    BY <2>1, FS_CardinalityType
  <2>3. Size = 0 => events = {} /\ selected = {}
    BY <2>1, <2>2, FS_EmptySet DEF Size
  <2>4. Size \in Nat
    BY <2>2 DEF Size
  <2>5. CASE Size = 0
    BY <2>2, <2>3, <2>4, <2>5 DEF NextSequence
  <2>6. CASE Size # 0
    BY <2>2, <2>4, <2>6, SetFacts DEF NextSequence
  <2>7. QED
    BY <2>5, <2>6
<1>7. new \in Event
  BY <1>5, <1>6 DEF Event
<1>8. /\ new.id = updates + 1 /\ new.seq = NextSequence /\ new.at = clock
      /\ Ids(N) = {updates + 1}
  BY DEF Ids
<1> HIDE DEF new
<1>9. Divided(updates, Ids(events), Ids(selected), reported, dropped, superseded)
  BY DEF IInv, Accounts
<1>10. \A e \in events \cup selected : e.id \in Nat /\ e.id <= updates
  <2>1. \A e \in events \cup selected : e.id \in Ids(events) \cup Ids(selected)
    BY DEF Ids
  <2>2. Ids(events) \cup Ids(selected) \subseteq 1..updates
    BY <1>9 DEF Divided
  <2>3. QED
    BY <1>5, <2>1, <2>2
<1>11. Fresh(N)
  <2>1. N \in Events
    BY <1>7, FS_Singleton DEF Events
  <2>2. Unique(events \cup N)
    BY <1>5, <1>8, <1>10 DEF Unique
  <2>3. \A e \in events : e.at \in Nat /\ e.at < clock
    BY SetFacts
  <2>4. DistinctAt(events \cup N)
    BY <1>5, <1>8, <2>3 DEF DistinctAt
  <2>5. events \cap N = {}
    BY <1>5, <1>8, <2>3
  <2>6. \A e \in N, f \in events : e.seq # f.seq
    BY <1>6, <1>8, SetFacts
  <2>7. QED
    BY <2>1, <2>2, <2>4, <2>5, <2>6 DEF Fresh
<1> HIDE DEF N
<1>12. S \in Events /\ S \subseteq events \cup N /\ Unique(S) /\ DistinctAt(S)
       /\ (kind = "Index" => OnePerIndex(S))
  BY <1>11, Insertion DEF S
<1>13. kind # "Index" => S = events \cup N
  BY <1>11, Insertion DEF S
<1>14. Ids(S) \cup Ids(X) = Ids(events) \cup {updates + 1} /\ Ids(S) \cap Ids(X) = {}
  BY <1>8, <1>11, Insertion DEF S, X
<1>15. Ids(S) = Ids(kept) \cup Ids(lost) /\ Ids(kept) \cap Ids(lost) = {}
  <2>1. Unique(kept \cup lost)
    BY <1>4, <1>12
  <2>2. Ids(kept \cup lost) = Ids(kept) \cup Ids(lost)
    BY <1>4, Parts
  <2>3. Ids(kept) \cap Ids(lost) = {}
    BY <1>4, <2>1, Parts
  <2>4. QED
    BY <1>4, <2>2, <2>3
<1>16. kept \in Events /\ kept \subseteq S
  <2>1. kept \in SUBSET S
    BY <1>4
  <2>2. QED
    BY <1>12, <2>1, FS_Subset DEF Events
<1>17. ASSUME NEW c \in Classes
       PROVE  /\ Cardinality(OfClass(kept, c)) \in Nat
              /\ counter'[c] = Cardinality(OfClass(kept, c))
  <2>1. kind = "Index" => OnePerIndex(events)
    BY SetFacts
  <2>2. Grown(N, c) \in Nat /\ Cardinality(OfClass(events, c)) \in Nat
    BY <1>5, <1>11, <2>1, Growth
  <2>3. Cardinality(OfClass(S, c)) = Cardinality(OfClass(events, c)) + Grown(N, c)
    BY <1>5, <1>11, <2>1, Growth DEF S
  <2>4. counter[c] = Cardinality(OfClass(events, c))
    BY DEF IInv, CounterMatches
  <2>5. counter'[c] = counter[c] + Grown(N, c) - Cardinality(OfClass(lost, c))
    BY <1>2
  <2>6. kept \cup lost \in Events
    BY <1>4, <1>12
  <2>7. Cardinality(OfClass(kept, c)) \in Nat
    BY <1>4, <2>6, ClassSizes
  <2>8. Cardinality(OfClass(lost, c)) \in Nat
    BY <1>4, <2>6, ClassSizes
  <2>9. Cardinality(OfClass(kept \cup lost, c))
          = Cardinality(OfClass(kept, c)) + Cardinality(OfClass(lost, c))
    BY <1>4, <2>6, ClassSizes
  <2>10. Cardinality(OfClass(S, c))
           = Cardinality(OfClass(kept, c)) + Cardinality(OfClass(lost, c))
    BY <1>4, <2>9
  <2>11. QED
    BY <2>2, <2>3, <2>4, <2>5, <2>7, <2>8, <2>10
<1>18. TypeOK'
  <2>1. counter' \in [Classes -> Nat]
    BY <1>2, <1>17
  <2>2. events' \in Events
    BY <1>2, <1>16
  <2>3. Ids(lost) \in SUBSET Nat /\ Ids(X) \in SUBSET Nat
    <3>1. Ids(events) \cup {updates + 1} \in SUBSET Nat
      BY <1>5, <1>10 DEF Ids
    <3>2. QED
      BY <1>14, <1>15, <3>1
  <2>4. dropped' \in SUBSET Nat /\ superseded' \in SUBSET Nat
    <3>1. dropped \in SUBSET Nat /\ superseded \in SUBSET Nat
      BY DEF IInv, TypeOK
    <3>2. QED
      BY <1>2, <2>3, <3>1
  <2>5. sequence' \in Nat /\ clock' \in Nat /\ updates' \in Nat
    BY <1>3, <1>5, <1>6
  <2>6. overflown' \in BOOLEAN
    BY <1>2
  <2>7. QED
    BY <1>3, <2>1, <2>2, <2>4, <2>5, <2>6 DEF IInv, TypeOK, Events
<1>19. N = {new}
  BY DEF N
<1>20. Placed'
  <2>1. Unique(kept) /\ DistinctAt(kept) /\ (kind = "Index" => OnePerIndex(kept))
    BY <1>12, <1>16 DEF Unique, DistinctAt, OnePerIndex
  <2>2. \A e \in kept \cup selected : e.seq < NextSequence + 1
    <3>1. \A e \in events \cup selected : e.seq \in Nat /\ e.seq < NextSequence
      BY <1>6, SetFacts
    <3>2. \A e \in kept \cup selected : e \in events \cup selected \/ e = new
      BY <1>12, <1>16, <1>19
    <3>3. QED
      BY <1>6, <1>8, <3>1, <3>2
  <2>3. \A e \in kept \cup selected : e.at < clock + 1
    <3>1. \A e \in events \cup selected : e.at \in Nat /\ e.at < clock
      BY SetFacts
    <3>2. \A e \in kept \cup selected : e \in events \cup selected \/ e = new
      BY <1>12, <1>16, <1>19
    <3>3. QED
      BY <1>5, <1>8, <3>1, <3>2
  <2>4. Unique(selected) /\ DistinctAt(selected)
    BY SetFacts
  <2>5. QED
    BY <1>2, <1>3, <2>1, <2>2, <2>3, <2>4 DEF Placed
<1>21. SequenceFollowsUpdates'
  <2>1. \A e \in kept \cup selected : e \in events \cup selected \/ e = new
    BY <1>12, <1>16, <1>19
  <2>2. \A e, f \in events \cup selected : e.id < f.id => e.seq < f.seq
    BY DEF IInv, SequenceFollowsUpdates
  <2>3. \A e \in events \cup selected : e.id \in Nat /\ e.id < new.id /\ e.seq < new.seq
    BY <1>5, <1>6, <1>8, <1>10
  <2>4. new.id \in Nat
    BY <1>5, <1>8
  <2>5. \A e, f \in kept \cup selected : e.id < f.id => e.seq < f.seq
    BY <2>1, <2>2, <2>3, <2>4
  <2>6. QED
    BY <1>2, <1>3, <2>5 DEF SequenceFollowsUpdates
<1>22. Accounts'
  <2>1. 1..(updates + 1) = (1..updates) \cup {updates + 1} /\ updates + 1 \notin 1..updates
    BY <1>5
  <2> DEFINE E == Ids(events)
             K == Ids(kept)
             L == Ids(lost)
             Y == Ids(X)
             T == Ids(selected)
             u == updates + 1
  <2> HIDE DEF E, K, L, Y, T, u
  <2>2. Divided(updates, E, T, reported, dropped, superseded)
    BY <1>9 DEF E, T
  <2>3. K \cup L \cup Y = E \cup {u} /\ K \cap L = {} /\ K \cap Y = {} /\ L \cap Y = {}
    BY <1>14, <1>15 DEF E, K, L, Y, u
  <2>4. u \notin E /\ u \notin T /\ u \notin reported /\ u \notin dropped /\ u \notin superseded
    BY <2>1, <2>2 DEF Divided, u
  <2>5. K \cup T \cup reported \cup (dropped \cup L) \cup (superseded \cup Y) = 1..(updates + 1)
    BY <2>1, <2>2, <2>3 DEF Divided, u
  <2>6. Divided(updates + 1, K, T, reported, dropped \cup L, superseded \cup Y)
    BY <2>2, <2>3, <2>4, <2>5 DEF Divided
  <2>7. QED
    BY <1>2, <1>3, <2>6 DEF Accounts, K, L, Y, T
<1>23. CounterMatches'
  BY <1>2, <1>17 DEF CounterMatches
<1>24. VtoNeverDropped'
  <2>1. CASE kind = "Insertion"
    <3>1. Size < MaxEvents
      BY <1>3, <1>6, <2>1, RoomLeft DEF IInv, VtoNeverDropped
    <3>2. S = events \cup {new} /\ IsFiniteSet(events) /\ new \notin events
      BY <1>5, <1>11, <1>13, <1>19, <2>1 DEF Events, Fresh
    <3>3. Cardinality(S) = Cardinality(events) + 1
      BY <3>2, FS_AddElement
    <3>4. lost = {} /\ kept = S
      BY <1>4, <1>6, <3>1, <3>3, BufferAssumption DEF Size
    <3>5. Ids(lost) = {}
      BY <3>4 DEF Ids
    <3>6. dropped = {}
      BY <2>1 DEF IInv, VtoNeverDropped
    <3>7. Size' = Cardinality(S) + Cardinality(selected)
      BY <1>2, <1>3, <3>4 DEF Size
    <3>8. Size' <= MaxEvents
      BY <1>6, <3>1, <3>3, <3>7, BufferAssumption DEF Size
    <3>9. QED
      BY <1>2, <3>5, <3>6, <3>8 DEF VtoNeverDropped
  <2>2. CASE kind # "Insertion"
    BY <1>3, <2>2 DEF VtoNeverDropped
  <2>3. QED
    BY <2>1, <2>2
<1>25. QED
  BY <1>18, <1>20, <1>21, <1>22, <1>23, <1>24 DEF IInv

---------------------------------------------------------------------------
(* The theorems *)

LEMMA NextInv == IInv /\ [Next]_vars => IInv'
<1> SUFFICES ASSUME IInv, [Next]_vars PROVE IInv'
  OBVIOUS
<1>1. CASE Update
  BY <1>1, UpdateInv
<1>2. CASE Select
  BY <1>2, SelectInv
<1>3. CASE Write
  BY <1>3, WriteInv
<1>4. CASE ClearWrittenEvents
  BY <1>4, ClearInv
<1>5. CASE Deselect
  BY <1>5, DeselectInv
<1>6. CASE IsOverflown
  BY <1>6, IsOverflownInv
<1>7. CASE UNCHANGED vars
  <2>1. TypeOK'
    BY <1>7 DEF IInv, TypeOK, vars, history
  <2>2. Placed' /\ SequenceFollowsUpdates' /\ Accounts' /\ CounterMatches' /\ VtoNeverDropped'
    BY <1>7 DEF IInv, Placed, SequenceFollowsUpdates, Accounts, CounterMatches, VtoNeverDropped, Size,
           vars, history
  <2>3. QED
    BY <2>1, <2>2 DEF IInv
<1>8. QED
  BY <1>1, <1>2, <1>3, <1>4, <1>5, <1>6, <1>7 DEF Next

LEMMA InvariantHolds == Spec => []IInv
BY InitInv, NextInv, PTL DEF Spec

\* Every reachable state is well typed; that a counter is never decreased below zero
\* rests on CounterMatches.
THEOREM TypeCorrect == Spec => []TypeOK
<1>1. IInv => TypeOK
  BY DEF IInv
<1>2. QED
  BY <1>1, InvariantHolds, PTL

\* The counter of each class is exact in each of the three buffers: the assertion of
\* DecrCount holds and HasClassData is right.
THEOREM CounterCorrect == Spec => []CounterMatches
<1>1. IInv => CounterMatches
  BY DEF IInv
<1>2. QED
  BY <1>1, InvariantHolds, PTL

\* mSequence starts again only when no event could be mistaken for an older one: an
\* event that is returned to the set of a VTO buffer is always inserted.
THEOREM SequenceCorrect == Spec => []SequenceFollowsUpdates
<1>1. IInv => SequenceFollowsUpdates
  BY DEF IInv
<1>2. QED
  BY <1>1, InvariantHolds, PTL

\* VTO data is not dropped: NumAvailable counts what is selected.
THEOREM VtoCorrect == Spec => []VtoNeverDropped
<1>1. IInv => VtoNeverDropped
  BY DEF IInv
<1>2. QED
  BY <1>1, InvariantHolds, PTL

\* There are as many ids as events.
LEMMA IdSizes ==
  ASSUME NEW S \in Events, Unique(S)
  PROVE  Cardinality(Ids(S)) = Cardinality(S)
<1> DEFINE f == [e \in S |-> e.id]
           R == Ids(S)
<1>1. f \in [S -> R] /\ \A r \in R : \E x \in S : r = f[x]
  BY DEF Ids
<1>2. \A x, y \in S : f[x] = f[y] => x = y
  BY DEF Unique
<1>3. IsFiniteSet(S)
  BY DEF Events
<1> HIDE DEF f, R
<1>4. Cardinality(R) = Cardinality(S)
  BY <1>1, <1>2, <1>3, Image
<1>5. QED
  BY <1>4 DEF R

\* Each update is in exactly one place after any sequence of updates, selections,
\* confirmations and returns.
THEOREM UpdatesCorrect == Spec => []EveryUpdateAccounted
<1>1. IInv => EveryUpdateAccounted
  <2> SUFFICES ASSUME IInv PROVE EveryUpdateAccounted
    OBVIOUS
  <2> DEFINE places == <<Ids(events), Ids(selected), reported, dropped, superseded>>
  <2>1. Divided(updates, Ids(events), Ids(selected), reported, dropped, superseded)
    BY DEF IInv, Accounts
  <2>2. \A n \in 1..updates : \E i \in DOMAIN places : n \in places[i]
    BY <2>1 DEF Divided
  <2>3. \A i, j \in DOMAIN places : i # j => places[i] \cap places[j] = {}
    BY <2>1 DEF Divided
  <2>4. Cardinality(Ids(events)) = Cardinality(events)
    BY SetFacts, IdSizes
  <2>5. Cardinality(Ids(selected)) = Cardinality(selected)
    BY SetFacts, IdSizes
  <2>6. QED
    BY <2>2, <2>3, <2>4, <2>5 DEF EveryUpdateAccounted
<1>2. QED
  BY <1>1, InvariantHolds, PTL

---------------------------------------------------------------------------
(* What fills the buffer: the updates of the user's threads *)

\* The counters and the history are typed.
LogTypeOK ==
  /\ count \in [commits : Nat, writes : Nat, incidents : Nat]
  /\ log.committed \in [Type -> Seq(Item)] /\ log.applied \in [Type -> Seq(Item)]
  /\ log.events \in [EventPoints -> [value : Value, quality : Quality]]
  /\ log.thrown \in Nat
  /\ log = [committed |-> log.committed, applied |-> log.applied, events |-> log.events,
             thrown |-> log.thrown]

\* The handler knows all VTO data there is unless more is announced; it catches what was thrown.
HandlerKnows ==
  /\ io.pc = "vto" =>
       calls.notifying > 0 \/ calls.posted > 0 \/ io.deferred \/ vto <= io.available
  /\ io.pc = "caught" => log.thrown > 0

\* The changes s are in the order in which they were committed.
InOrder(s) == \A i, j \in 1 .. Len(s) : i < j => Precedes(s[i], s[j])

\* Changes a were applied and q wait from place p + 1 on; transactions up to the n-th have
\* been committed.
Line(a, q, p, n) ==
  /\ InOrder(a) /\ InOrder(q)
  /\ \A i \in 1 .. Len(a), j \in 1 .. Len(q) : p < j => Precedes(a[i], q[j])
  /\ \A i \in 1 .. Len(a) : a[i].tx <= n

\* The changes c are a and then those of q from place p + 1 on.
Joined(c, a, q, p) ==
  /\ Len(c) + p = Len(a) + Len(q)
  /\ \A i \in 1 .. Len(a) : c[i] = a[i]
  /\ \A j \in 1 .. Len(q) : p < j => c[Len(a) - p + j] = q[j]

Ordered == \A t \in Type : Line(log.applied[t], queue[t], io.pos[t], count.commits)

Accounted ==
  log.thrown = 0 => \A t \in Type : Joined(log.committed[t], log.applied[t], queue[t], io.pos[t])

\* Of the changes applied before this flush, none belongs to a transaction that still waits.
Separated ==
  \A t, u \in Type :
    /\ io.pos[t] <= Len(log.applied[t])
    /\ \A i \in 1 .. Len(log.applied[t]) - io.pos[t], j \in 1 .. Len(queue[u]) :
       log.applied[t][i].tx < queue[u][j].tx

\* The last event of a point and its mLastEventValue agree, and its value is within the
\* deadband of them.
EventsKnown ==
  \A p \in EventPoints :
    /\ db[p].quality = log.events[p].quality
    /\ IF p[1] \in Booleans THEN db[p].value = log.events[p].value
       ELSE db[p].lastEvent = log.events[p].value /\ ~ExceedsDeadband(db[p].value, db[p].lastEvent)

\* The inductive invariant of Updates.
AnnouncedInv ==
  /\ BuffersAnnounced /\ LogTypeOK /\ HandlerKnows
  /\ Ordered /\ Accounted /\ Separated /\ EventsKnown

\* What a transaction adds to the queues: items of its number in their order.
Entries(changes, n) ==
  /\ changes \in [Type -> Seq(Item)]
  /\ \A t \in Type : \A i \in 1 .. Len(changes[t]) : changes[t][i].tx = n
  /\ \A t \in Type : InOrder(changes[t])

\* A committed transaction adds such entries.
LEMMA NumberedEntries ==
  ASSUME NEW t \in Transactions, NEW n \in Nat
  PROVE  Entries(Numbered(t, n), n)
<1> DEFINE s == Numbered(t, n)
<1>1. t \in [Type -> Seq(Change)]
  BY UpdatesAssumption
<1>2. ASSUME NEW k \in Type
      PROVE  /\ s[k] \in Seq(Item)
             /\ Len(s[k]) = Len(t[k])
             /\ \A i \in 1 .. Len(t[k]) : s[k][i] = [tx |-> n, place |-> i, change |-> t[k][i]]
  <2> DEFINE e == [i \in 1 .. Len(t[k]) |-> [tx |-> n, place |-> i, change |-> t[k][i]]]
  <2>1. s[k] = e
    BY DEF Numbered
  <2>2. t[k] \in Seq(Change) /\ Len(t[k]) \in Nat
    BY <1>1
  <2>3. \A i \in 1 .. Len(t[k]) : t[k][i] \in Change
    BY <2>2
  <2>4. e \in [1 .. Len(t[k]) -> Item]
    BY <2>2, <2>3 DEF Item
  <2>5. e \in Seq(Item) /\ Len(e) = Len(t[k])
    BY <2>2, <2>4
  <2>6. QED
    BY <2>1, <2>5
<1>3. s \in [Type -> Seq(Item)]
  <2>1. s = [k \in Type |-> s[k]]
    BY DEF Numbered
  <2> HIDE DEF s
  <2>2. QED
    BY <1>2, <2>1
<1> HIDE DEF s
<1>4. \A k \in Type : \A i \in 1 .. Len(s[k]) : s[k][i].tx = n /\ s[k][i].place = i
  <2> SUFFICES ASSUME NEW k \in Type, NEW i \in 1 .. Len(s[k])
               PROVE  s[k][i].tx = n /\ s[k][i].place = i
    OBVIOUS
  <2>1. s[k][i] = [tx |-> n, place |-> i, change |-> t[k][i]]
    BY <1>2
  <2>2. QED
    BY <2>1
<1>5. \A k \in Type : \A i, j \in 1 .. Len(s[k]) : i < j => Precedes(s[k][i], s[k][j])
  BY <1>4 DEF Precedes
<1>6. Entries(s, n)
  BY <1>3, <1>4, <1>5 DEF Entries, InOrder
<1>7. QED
  BY <1>6 DEF s

\* The sequence q grows by e: what the places hold.
LEMMA Grows ==
  ASSUME NEW q \in Seq(Item), NEW e \in Seq(Item)
  PROVE  /\ q \o e \in Seq(Item) /\ Len(q \o e) = Len(q) + Len(e)
         /\ \A i \in 1 .. Len(q) : (q \o e)[i] = q[i]
         /\ \A i \in 1 .. Len(q \o e) :
              Len(q) < i => i - Len(q) \in 1 .. Len(e) /\ (q \o e)[i] = e[i - Len(q)]
OBVIOUS

\* A commit: e has changes of a new transaction.
LEMMA LineGrows ==
  ASSUME NEW a \in Seq(Item), NEW q \in Seq(Item), NEW e \in Seq(Item), NEW n \in Nat,
         Line(a, q, 0, n), InOrder(e),
         \A i \in 1 .. Len(q) : q[i].tx <= n,
         \A i \in 1 .. Len(e) : e[i].tx = n + 1
  PROVE  /\ Line(a, q \o e, 0, n + 1)
         /\ \A i \in 1 .. Len(q \o e) : (q \o e)[i].tx <= n + 1
<1> DEFINE r == q \o e
<1>1. /\ r \in Seq(Item) /\ Len(r) = Len(q) + Len(e)
      /\ \A i \in 1 .. Len(q) : r[i] = q[i]
      /\ \A i \in 1 .. Len(r) : Len(q) < i => i - Len(q) \in 1 .. Len(e) /\ r[i] = e[i - Len(q)]
  BY Grows
<1>a. Len(a) \in Nat /\ Len(q) \in Nat /\ Len(r) \in Nat
  BY <1>1
<1>b. \A i \in 1 .. Len(a) : a[i] \in Item
  OBVIOUS
<1>c. \A i \in 1 .. Len(q) : q[i] \in Item
  OBVIOUS
<1>2. /\ Len(a) \in Nat /\ Len(q) \in Nat /\ Len(r) \in Nat
      /\ \A i \in 1 .. Len(a) : a[i].tx \in Nat
      /\ \A i \in 1 .. Len(q) : q[i].tx \in Nat
  BY <1>a, <1>b, <1>c DEF Item
<1> HIDE DEF r
<1>3. ASSUME NEW i \in 1 .. Len(r)
      PROVE  /\ i <= Len(q) => i \in 1 .. Len(q) /\ r[i] = q[i] /\ r[i].tx <= n /\ r[i].tx \in Nat
             /\ Len(q) < i => r[i].tx = n + 1
             /\ r[i].tx <= n + 1
  <2>1. CASE i <= Len(q)
    <3>1. i \in 1 .. Len(q) /\ r[i] = q[i]
      BY <2>1, <1>1, <1>2
    <3>2. r[i].tx <= n /\ r[i].tx \in Nat
      BY <3>1, <1>2
    <3>3. QED
      BY <2>1, <3>1, <3>2, <1>2
  <2>2. CASE Len(q) < i
    <3>1. i - Len(q) \in 1 .. Len(e) /\ r[i] = e[i - Len(q)]
      BY <2>2, <1>1
    <3>2. r[i].tx = n + 1
      BY <3>1
    <3>3. QED
      BY <2>2, <3>2, <1>2
  <2>3. QED
    BY <2>1, <2>2, <1>2
<1>4. InOrder(r)
  <2> SUFFICES ASSUME NEW i \in 1 .. Len(r), NEW j \in 1 .. Len(r), i < j
               PROVE  Precedes(r[i], r[j])
    BY DEF InOrder
  <2>1. CASE j <= Len(q)
    <3>1. i <= Len(q)
      BY <2>1, <1>2
    <3>2. i \in 1 .. Len(q) /\ j \in 1 .. Len(q) /\ r[i] = q[i] /\ r[j] = q[j]
      BY <2>1, <3>1, <1>3
    <3>3. QED
      BY <3>2 DEF Line, InOrder
  <2>2. CASE i <= Len(q) /\ Len(q) < j
    <3>1. r[i].tx <= n /\ r[i].tx \in Nat /\ r[j].tx = n + 1
      BY <2>2, <1>3
    <3>2. r[i].tx < r[j].tx
      BY <3>1
    <3>3. QED
      BY <3>2 DEF Precedes
  <2>3. CASE Len(q) < i
    <3> DEFINE k == i - Len(q)
               l == j - Len(q)
    <3>1. k \in 1 .. Len(e) /\ l \in 1 .. Len(e) /\ k < l /\ r[i] = e[k] /\ r[j] = e[l]
      BY <2>3, <1>1, <1>2
    <3> HIDE DEF k, l
    <3>2. QED
      BY <3>1 DEF InOrder
  <2>4. QED
    BY <2>1, <2>2, <2>3, <1>2
<1>5. ASSUME NEW i \in 1 .. Len(a), NEW j \in 1 .. Len(r)
      PROVE  Precedes(a[i], r[j])
  <2>1. CASE j <= Len(q)
    <3>1. j \in 1 .. Len(q) /\ r[j] = q[j] /\ 0 < j
      BY <2>1, <1>3
    <3>2. QED
      BY <3>1 DEF Line
  <2>2. CASE Len(q) < j
    <3>1. r[j].tx = n + 1
      BY <2>2, <1>3
    <3>2. a[i].tx <= n /\ a[i].tx \in Nat
      BY <1>2 DEF Line
    <3>3. a[i].tx < r[j].tx
      BY <3>1, <3>2
    <3>4. QED
      BY <3>3 DEF Precedes
  <2>3. QED
    BY <2>1, <2>2, <1>2
<1>6. \A i \in 1 .. Len(a) : a[i].tx <= n + 1
  <2> SUFFICES ASSUME NEW i \in 1 .. Len(a) PROVE a[i].tx <= n + 1
    OBVIOUS
  <2>1. a[i].tx <= n /\ a[i].tx \in Nat
    BY <1>2 DEF Line
  <2>2. QED
    BY <2>1
<1>7. InOrder(a)
  BY DEF Line
<1>8. Line(a, r, 0, n + 1)
  BY <1>4, <1>5, <1>6, <1>7 DEF Line
<1>9. \A i \in 1 .. Len(r) : r[i].tx <= n + 1
  BY <1>3
<1>10. QED
  BY <1>8, <1>9 DEF r

\* A commit appends to what was committed and to what waits alike.
LEMMA JoinedGrows ==
  ASSUME NEW a \in Seq(Item), NEW q \in Seq(Item), NEW e \in Seq(Item), NEW c \in Seq(Item),
         Joined(c, a, q, 0)
  PROVE  Joined(c \o e, a, q \o e, 0)
<1> DEFINE r == q \o e
           d == c \o e
<1>1. /\ Len(r) = Len(q) + Len(e)
      /\ \A i \in 1 .. Len(q) : r[i] = q[i]
      /\ \A i \in 1 .. Len(r) : Len(q) < i => i - Len(q) \in 1 .. Len(e) /\ r[i] = e[i - Len(q)]
  BY Grows
<1>2. /\ Len(d) = Len(c) + Len(e)
      /\ \A i \in 1 .. Len(c) : d[i] = c[i]
      /\ \A i \in 1 .. Len(d) : Len(c) < i => i - Len(c) \in 1 .. Len(e) /\ d[i] = e[i - Len(c)]
  BY Grows
<1>3. Len(a) \in Nat /\ Len(q) \in Nat /\ Len(c) \in Nat /\ Len(e) \in Nat
  OBVIOUS
<1> HIDE DEF r, d
<1>4. /\ Len(c) = Len(a) + Len(q)
      /\ \A i \in 1 .. Len(a) : c[i] = a[i]
      /\ \A j \in 1 .. Len(q) : c[Len(a) + j] = q[j]
  BY <1>3 DEF Joined
<1>5. \A i \in 1 .. Len(a) : d[i] = a[i]
  BY <1>2, <1>3, <1>4
<1>6. ASSUME NEW j \in 1 .. Len(r)
      PROVE  d[Len(a) + j] = r[j]
  <2>1. CASE j <= Len(q)
    <3>1. j \in 1 .. Len(q) /\ Len(a) + j \in 1 .. Len(c)
      BY <2>1, <1>3, <1>4
    <3>2. QED
      BY <3>1, <1>1, <1>2, <1>4
  <2>2. CASE Len(q) < j
    <3>1. /\ Len(a) + j \in 1 .. Len(d) /\ Len(c) < Len(a) + j
          /\ (Len(a) + j) - Len(c) = j - Len(q)
      BY <2>2, <1>1, <1>2, <1>3, <1>4
    <3>2. d[Len(a) + j] = e[(Len(a) + j) - Len(c)]
      BY <3>1, <1>2
    <3>3. r[j] = e[j - Len(q)]
      BY <2>2, <1>1
    <3>4. QED
      BY <3>1, <3>2, <3>3
  <2>3. QED
    BY <2>1, <2>2, <1>3
<1>7. Len(d) + 0 = Len(a) + Len(r)
  BY <1>1, <1>2, <1>3, <1>4
<1>8. \A j \in 1 .. Len(r) : 0 < j => d[(Len(a) - 0) + j] = r[j]
  BY <1>3, <1>6
<1>9. Joined(d, a, r, 0)
  BY <1>5, <1>7, <1>8 DEF Joined
<1>10. QED
  BY <1>9 DEF d, r

\* The next change is applied.
LEMMA LineAdvances ==
  ASSUME NEW a \in Seq(Item), NEW q \in Seq(Item), NEW p \in Nat, NEW n \in Nat, p < Len(q),
         Line(a, q, p, n), q[p + 1].tx <= n
  PROVE  Line(Append(a, q[p + 1]), q, p + 1, n)
<1> DEFINE b == Append(a, q[p + 1])
<1>1. /\ Len(a) \in Nat /\ Len(q) \in Nat /\ Len(b) = Len(a) + 1
      /\ \A i \in 1 .. Len(a) : b[i] = a[i]
      /\ b[Len(a) + 1] = q[p + 1] /\ p + 1 \in 1 .. Len(q)
  OBVIOUS
<1> HIDE DEF b
<1>2. \A i \in 1 .. Len(b) : i \in 1 .. Len(a) \/ i = Len(a) + 1
  BY <1>1
<1>3. InOrder(b)
  <2> SUFFICES ASSUME NEW i \in 1 .. Len(b), NEW j \in 1 .. Len(b), i < j
               PROVE  Precedes(b[i], b[j])
    BY DEF InOrder
  <2>1. i \in 1 .. Len(a) /\ b[i] = a[i]
    BY <1>1, <1>2
  <2>2. CASE j \in 1 .. Len(a)
    BY <1>1, <2>1, <2>2 DEF Line, InOrder
  <2>3. CASE j = Len(a) + 1
    <3>1. p < p + 1
      OBVIOUS
    <3>2. Precedes(a[i], q[p + 1])
      BY <1>1, <2>1, <3>1 DEF Line
    <3>3. QED
      BY <1>1, <2>1, <2>3, <3>2
  <2>4. QED
    BY <1>2, <2>2, <2>3
<1>4. ASSUME NEW i \in 1 .. Len(b), NEW j \in 1 .. Len(q), p + 1 < j
      PROVE  Precedes(b[i], q[j])
  <2>1. CASE i \in 1 .. Len(a)
    <3>1. p < j
      BY <1>4
    <3>2. QED
      BY <1>1, <2>1, <3>1 DEF Line
  <2>2. CASE i = Len(a) + 1
    BY <1>1, <1>4, <2>2 DEF Line, InOrder
  <2>3. QED
    BY <1>2, <2>1, <2>2
<1>5. \A i \in 1 .. Len(b) : b[i].tx <= n
  BY <1>1, <1>2 DEF Line
<1>6. InOrder(q)
  BY DEF Line
<1>7. Line(b, q, p + 1, n)
  BY <1>3, <1>4, <1>5, <1>6 DEF Line
<1>8. QED
  BY <1>7 DEF b

\* The next change goes from what waits to what was applied.
LEMMA JoinedAdvances ==
  ASSUME NEW a \in Seq(Item), NEW q \in Seq(Item), NEW c \in Seq(Item), NEW p \in Nat,
         p < Len(q), Joined(c, a, q, p), p <= Len(a)
  PROVE  Joined(c, Append(a, q[p + 1]), q, p + 1)
<1> DEFINE b == Append(a, q[p + 1])
<1>1. /\ Len(a) \in Nat /\ Len(q) \in Nat /\ Len(c) \in Nat /\ Len(b) = Len(a) + 1
      /\ \A i \in 1 .. Len(a) : b[i] = a[i]
      /\ b[Len(a) + 1] = q[p + 1] /\ p + 1 \in 1 .. Len(q)
  OBVIOUS
<1> HIDE DEF b
<1>2. /\ Len(c) + p = Len(a) + Len(q)
      /\ \A i \in 1 .. Len(a) : c[i] = a[i]
      /\ \A j \in 1 .. Len(q) : p < j => c[(Len(a) - p) + j] = q[j]
  BY DEF Joined
<1>3. Len(c) + (p + 1) = Len(b) + Len(q)
  <2>1. Len(c) \in Nat /\ Len(a) \in Nat /\ Len(q) \in Nat /\ Len(b) = Len(a) + 1
    BY <1>1
  <2>2. Len(c) + p = Len(a) + Len(q)
    BY <1>2
  <2> DEFINE k == Len(c)
             l == Len(a)
             m == Len(q)
  <2> HIDE DEF k, l, m
  <2>3. k \in Nat /\ l \in Nat /\ m \in Nat /\ k + p = l + m
    BY <2>1, <2>2 DEF k, l, m
  <2>4. k + (p + 1) = (l + 1) + m
    BY <2>3
  <2>5. QED
    BY <2>1, <2>4 DEF k, l, m
<1>4. c[Len(a) + 1] = q[p + 1]
  <2>1. p < p + 1 /\ (Len(a) - p) + (p + 1) = Len(a) + 1
    BY <1>1
  <2>2. c[(Len(a) - p) + (p + 1)] = q[p + 1]
    BY <1>1, <1>2, <2>1
  <2>3. QED
    BY <2>1, <2>2
<1>5. \A i \in 1 .. Len(b) : i \in 1 .. Len(a) \/ i = Len(a) + 1
  BY <1>1
<1>6. \A i \in 1 .. Len(b) : c[i] = b[i]
  BY <1>1, <1>2, <1>4, <1>5
<1>7. ASSUME NEW j \in 1 .. Len(q), p + 1 < j
      PROVE  c[(Len(b) - (p + 1)) + j] = q[j]
  <2>1. p < j /\ (Len(b) - (p + 1)) + j = (Len(a) - p) + j
    BY <1>1, <1>7
  <2>2. c[(Len(a) - p) + j] = q[j]
    BY <1>2, <2>1
  <2>3. QED
    BY <2>1, <2>2
<1>8. Joined(c, b, q, p + 1)
  BY <1>3, <1>6, <1>7 DEF Joined
<1>9. QED
  BY <1>8 DEF b

\* Only these steps touch the queues, the database and what is recorded of them.
Aside ==
  /\ queue' = queue /\ db' = db /\ log' = log
  /\ io'.pos = io.pos /\ count'.commits = count.commits


\* What the thread of the stack can be
Thread == [state : States, deferred : BOOLEAN, pc : Places, again : BOOLEAN,
           pos : [Type -> Nat], available : Nat]

\* FlushDeferredEvents forgets a deferred update only to start it.
LEMMA FlushDeferredFacts ==
  ASSUME NEW x \in Thread
  PROVE  LET y == FlushDeferredEvents(x) IN
         /\ y \in Thread /\ y.pos = x.pos /\ y.pc \in {"start", "free"}
         /\ y.deferred \/ ~x.deferred \/ y.pc = "start"
BY DEF FlushDeferredEvents, AcceptsDeferredUpdates, Places, Thread

\* The types that most steps need.
LEMMA InvFacts ==
  AnnouncedInv =>
    /\ queue \in [Type -> Seq(Item)] /\ io \in Thread
    /\ log.committed \in [Type -> Seq(Item)] /\ log.applied \in [Type -> Seq(Item)]
    /\ count.commits \in Nat
    /\ \A t \in Type : io.pos[t] \in Nat
    /\ \A t \in Type : Len(queue[t]) \in Nat /\ Len(log.applied[t]) \in Nat
                       /\ Len(log.committed[t]) \in Nat
    /\ \A t \in Type : \A i \in 1 .. Len(queue[t]) : queue[t][i] \in Item
    /\ \A t \in Type : \A i \in 1 .. Len(log.applied[t]) : log.applied[t][i] \in Item
<1>1. AnnouncedInv =>
        /\ queue \in [Type -> Seq(Item)] /\ io \in Thread /\ count.commits \in Nat
        /\ log.committed \in [Type -> Seq(Item)] /\ log.applied \in [Type -> Seq(Item)]
  BY DEF AnnouncedInv, BuffersAnnounced, BuffersTypeOK, LogTypeOK, Thread
<1>2. ASSUME NEW q \in [Type -> Seq(Item)], NEW t \in Type
      PROVE  Len(q[t]) \in Nat /\ \A i \in 1 .. Len(q[t]) : q[t][i] \in Item
  <2>1. q[t] \in Seq(Item)
    OBVIOUS
  <2>2. QED
    BY <2>1
<1>3. io \in Thread => \A t \in Type : io.pos[t] \in Nat
  BY DEF Thread
<1>4. QED
  BY <1>1, <1>2, <1>3

\* What the invariant says about changes and events
Contents == Ordered /\ Accounted /\ Separated /\ EventsKnown

\* The steps that do not touch them keep that.
LEMMA AsideKeeps ==
  ASSUME AnnouncedInv, Aside
  PROVE  Contents'
<1>1. Ordered'
  BY DEF AnnouncedInv, Aside, Ordered
<1>2. Accounted'
  BY DEF AnnouncedInv, Aside, Accounted
<1>3. Separated'
  BY DEF AnnouncedInv, Aside, Separated
<1>4. EventsKnown'
  BY DEF AnnouncedInv, Aside, EventsKnown
<1>5. QED
  BY <1>1, <1>2, <1>3, <1>4 DEF Contents

\* The buffer is emptied, after all of its changes unless a flush has thrown.
Empties ==
  /\ queue' = NoChanges /\ io'.pos = NonePassed /\ count' = count /\ db' = db
  /\ log'.applied = log.applied /\ log'.committed = log.committed /\ log'.events = log.events
  /\ log'.thrown = 0 => log.thrown = 0 /\ \A t \in Type : io.pos[t] = Len(queue[t])

\* An emptied buffer has nothing out of order.
LEMMA EmptiesKeeps ==
  ASSUME AnnouncedInv, Empties
  PROVE  Contents'
<1>1. \A t \in Type : Len(queue'[t]) = 0 /\ io'.pos[t] = 0
  BY DEF Empties, NoChanges, NonePassed
<1>2. Ordered'
  <2> SUFFICES ASSUME NEW t \in Type
               PROVE  Line(log.applied[t], queue'[t], 0, count.commits)
    BY <1>1 DEF Empties, Ordered
  <2>1. \A i \in 1 .. Len(queue'[t]) : FALSE
    BY <1>1
  <2>2. Line(log.applied[t], queue[t], io.pos[t], count.commits)
    BY DEF AnnouncedInv, Ordered
  <2>3. QED
    BY <2>1, <2>2 DEF Line, InOrder
<1>3. Accounted'
  <2> SUFFICES ASSUME log.thrown = 0, NEW t \in Type, io.pos[t] = Len(queue[t])
               PROVE  Joined(log.committed[t], log.applied[t], queue'[t], 0)
    BY <1>1 DEF Empties, Accounted
  <2>1. Joined(log.committed[t], log.applied[t], queue[t], io.pos[t])
    BY DEF AnnouncedInv, Accounted
  <2>2. /\ Len(queue'[t]) = 0 /\ Len(queue[t]) \in Nat /\ Len(log.committed[t]) \in Nat
        /\ Len(log.applied[t]) \in Nat
    BY <1>1, InvFacts
  <2>3. /\ Len(log.committed[t]) + io.pos[t] = Len(log.applied[t]) + Len(queue[t])
        /\ \A i \in 1 .. Len(log.applied[t]) : log.committed[t][i] = log.applied[t][i]
    BY <2>1 DEF Joined
  <2>4. Len(log.committed[t]) + 0 = Len(log.applied[t]) + Len(queue'[t])
    <3> DEFINE m == Len(log.committed[t])
               k == Len(log.applied[t])
               l == Len(queue[t])
    <3>1. m + l = k + l
      BY <2>3
    <3> HIDE DEF m, k, l
    <3>2. m \in Nat /\ k \in Nat /\ l \in Nat
      BY <2>2 DEF m, k, l
    <3>3. m = k
      BY <3>1, <3>2
    <3>4. QED
      BY <2>2, <3>3 DEF m, k
  <2>5. \A j \in 1 .. Len(queue'[t]) : FALSE
    BY <2>2
  <2>6. QED
    BY <2>3, <2>4, <2>5 DEF Joined
<1>4. Separated'
  BY <1>1, InvFacts DEF AnnouncedInv, Empties, Separated
<1>5. EventsKnown'
  BY DEF AnnouncedInv, Empties, EventsKnown
<1>6. QED
  BY <1>2, <1>3, <1>4, <1>5 DEF Contents

\* A commit appends the newest transaction to the queues.
LEMMA CommitKeeps ==
  ASSUME AnnouncedInv, Commit
  PROVE  /\ Contents' /\ queue' \in [Type -> Seq(Item)]
         /\ \A t \in Type : \A i \in 1 .. Len(queue'[t]) : queue'[t][i].tx <= count'.commits
         /\ LogTypeOK'
<1> DEFINE n == count.commits + 1
<1>1. PICK u \in Transactions :
        /\ queue' = [k \in Type |-> queue[k] \o Numbered(u, n)[k]]
        /\ log' = [log EXCEPT !.committed = [k \in Type |-> @[k] \o Numbered(u, n)[k]]]
  BY DEF Commit
<1> DEFINE e == Numbered(u, n)
           c1 == [k \in Type |-> log.committed[k] \o e[k]]
<1>a. queue' = [k \in Type |-> queue[k] \o e[k]] /\ log' = [log EXCEPT !.committed = c1]
  BY <1>1
<1>2. Entries(e, n)
  BY NumberedEntries, InvFacts
<1> HIDE DEF e, c1
<1>3. /\ count'.commits = n /\ io' = io /\ db' = db
      /\ count' \in [commits : Nat, writes : Nat, incidents : Nat]
  BY InvFacts DEF Commit, AnnouncedInv, LogTypeOK
<1>4. \A t \in Type : io.pos[t] = 0
  BY DEF Commit, Unlocked, AnnouncedInv, BuffersAnnounced, BuffersTypeOK, NonePassed
<1>5. /\ log'.applied = log.applied /\ log'.events = log.events /\ log'.thrown = log.thrown
      /\ log'.committed = c1
      /\ log' = [committed |-> c1, applied |-> log.applied,
                 events |-> log.events, thrown |-> log.thrown]
  BY <1>a DEF AnnouncedInv, LogTypeOK
<1>b. \A t \in Type : queue'[t] = queue[t] \o e[t] /\ c1[t] = log.committed[t] \o e[t]
  BY <1>a DEF c1
<1>6. ASSUME NEW t \in Type
      PROVE  /\ queue[t] \in Seq(Item) /\ e[t] \in Seq(Item) /\ InOrder(e[t])
             /\ log.applied[t] \in Seq(Item) /\ log.committed[t] \in Seq(Item)
             /\ \A i \in 1 .. Len(queue[t]) : queue[t][i].tx <= count.commits
             /\ \A i \in 1 .. Len(e[t]) : e[t][i].tx = count.commits + 1
             /\ Line(log.applied[t], queue[t], 0, count.commits)
             /\ log.thrown = 0 => Joined(log.committed[t], log.applied[t], queue[t], 0)
  <2>1. e[t] \in Seq(Item) /\ InOrder(e[t]) /\ \A i \in 1 .. Len(e[t]) : e[t][i].tx = n
    BY <1>2 DEF Entries, InOrder
  <2>2. Line(log.applied[t], queue[t], 0, count.commits)
    BY <1>4 DEF AnnouncedInv, Ordered
  <2>3. log.thrown = 0 => Joined(log.committed[t], log.applied[t], queue[t], 0)
    BY <1>4 DEF AnnouncedInv, Accounted
  <2>4. \A i \in 1 .. Len(queue[t]) : queue[t][i].tx <= count.commits
    BY DEF AnnouncedInv, BuffersAnnounced, BuffersTypeOK
  <2>5. QED
    BY <2>1, <2>2, <2>3, <2>4, InvFacts
<1>7. ASSUME NEW t \in Type
      PROVE  /\ Line(log.applied[t], queue'[t], 0, n)
             /\ \A i \in 1 .. Len(queue'[t]) : queue'[t][i].tx <= n
             /\ queue'[t] \in Seq(Item) /\ c1[t] \in Seq(Item)
             /\ log.thrown = 0 => Joined(c1[t], log.applied[t], queue'[t], 0)
  <2>1. count.commits \in Nat
    BY InvFacts
  <2>2. /\ Line(log.applied[t], queue[t] \o e[t], 0, n)
        /\ \A i \in 1 .. Len(queue[t] \o e[t]) : (queue[t] \o e[t])[i].tx <= n
    BY <1>6, <2>1, LineGrows
  <2>3. log.thrown = 0 => Joined(log.committed[t] \o e[t], log.applied[t], queue[t] \o e[t], 0)
    BY <1>6, JoinedGrows
  <2>4. queue[t] \o e[t] \in Seq(Item) /\ log.committed[t] \o e[t] \in Seq(Item)
    BY <1>6, Grows
  <2>5. QED
    BY <1>b, <2>2, <2>3, <2>4
<1>8. queue' \in [Type -> Seq(Item)]
  <2>1. queue' = [k \in Type |-> queue'[k]]
    BY <1>a
  <2>2. QED
    BY <2>1, <1>7
<1>9. \A t \in Type : \A i \in 1 .. Len(queue'[t]) : queue'[t][i].tx <= count'.commits
  BY <1>3, <1>7
<1>10. Ordered'
  BY <1>3, <1>4, <1>5, <1>7 DEF Ordered
<1>11. Accounted'
  BY <1>3, <1>4, <1>5, <1>7 DEF Accounted
<1>12. Separated'
  <2> SUFFICES ASSUME NEW t \in Type, NEW u1 \in Type
      PROVE  /\ 0 <= Len(log.applied[t])
             /\ \A i \in 1 .. Len(log.applied[t]), j \in 1 .. Len(queue'[u1]) :
                  log.applied[t][i].tx < queue'[u1][j].tx
    BY <1>3, <1>4, <1>5, InvFacts DEF Separated
  <2>1. /\ queue'[u1] = queue[u1] \o e[u1] /\ Len(queue[u1]) \in Nat
        /\ queue[u1] \in Seq(Item) /\ e[u1] \in Seq(Item)
    BY <1>b, <1>6, InvFacts
  <2>2. /\ \A j \in 1 .. Len(queue[u1]) : queue'[u1][j] = queue[u1][j]
        /\ \A j \in 1 .. Len(queue'[u1]) :
             Len(queue[u1]) < j => /\ j - Len(queue[u1]) \in 1 .. Len(e[u1])
                                   /\ queue'[u1][j] = e[u1][j - Len(queue[u1])]
    <3>1. LET r == queue[u1] \o e[u1] IN
          /\ \A j \in 1 .. Len(queue[u1]) : r[j] = queue[u1][j]
          /\ \A j \in 1 .. Len(r) :
               Len(queue[u1]) < j => /\ j - Len(queue[u1]) \in 1 .. Len(e[u1])
                                     /\ r[j] = e[u1][j - Len(queue[u1])]
      <4> DEFINE q == queue[u1]
                 f == e[u1]
      <4>1. q \in Seq(Item) /\ f \in Seq(Item)
        BY <2>1
      <4> HIDE DEF q, f
      <4>2. LET r == q \o f IN
            /\ \A j \in 1 .. Len(q) : r[j] = q[j]
            /\ \A j \in 1 .. Len(r) : Len(q) < j => j - Len(q) \in 1 .. Len(f) /\ r[j] = f[j - Len(q)]
        BY <4>1, Grows
      <4>3. QED
        BY <4>2 DEF q, f
    <3>2. QED
      BY <2>1, <3>1
  <2>3. ASSUME NEW i \in 1 .. Len(log.applied[t]), NEW j \in 1 .. Len(queue'[u1])
        PROVE  log.applied[t][i].tx < queue'[u1][j].tx
    <3>1. CASE j \in 1 .. Len(queue[u1])
      <4>1. queue'[u1][j] = queue[u1][j]
        BY <3>1, <2>2
      <4>2. i \in 1 .. Len(log.applied[t]) - io.pos[t]
        BY <1>4, InvFacts
      <4>3. QED
        BY <4>1, <4>2, <3>1 DEF AnnouncedInv, Separated
    <3>2. CASE j \notin 1 .. Len(queue[u1])
      <4>1. Len(queue[u1]) < j
        BY <3>2, <2>1
      <4>2. queue'[u1][j].tx = n
        <5>1. j - Len(queue[u1]) \in 1 .. Len(e[u1]) /\ queue'[u1][j] = e[u1][j - Len(queue[u1])]
          BY <4>1, <2>2
        <5>2. e[u1][j - Len(queue[u1])].tx = n
          BY <5>1, <1>6
        <5>3. QED
          BY <5>1, <5>2
      <4>3. log.applied[t][i].tx <= count.commits /\ log.applied[t][i].tx \in Nat
        BY InvFacts DEF AnnouncedInv, Ordered, Line, Item
      <4>4. QED
        BY <4>2, <4>3, InvFacts
    <3>3. QED
      BY <3>1, <3>2
  <2>4. QED
    BY <2>3, InvFacts
<1>13. EventsKnown'
  BY <1>3, <1>5 DEF AnnouncedInv, EventsKnown
<1>14. LogTypeOK'
  <2>1. log'.committed \in [Type -> Seq(Item)]
    BY <1>5, <1>7 DEF c1
  <2>2. QED
    BY <2>1, <1>3, <1>5 DEF AnnouncedInv, LogTypeOK
<1>15. QED
  BY <1>8, <1>9, <1>10, <1>11, <1>12, <1>13, <1>14 DEF Contents

\* What an event records is what the database then has.
LEMMA ChangeKnown ==
  ASSUME NEW t \in Type, ApplyChange(t), AnnouncedInv
  PROVE  /\ EventsKnown'
         /\ db' \in [DatabasePoints -> [value : Value, quality : Quality, lastEvent : Value]]
         /\ log'.events \in [EventPoints -> [value : Value, quality : Quality]]
<1> DEFINE p == At(t)
           c == Upcoming(t).change
           event == p \in EventPoints /\ ShouldGenerateEvent(t, c, db[p])
           point == [value |-> c.value, quality |-> c.quality,
                     lastEvent |-> IF event /\ t \notin Booleans THEN c.value
                                                                 ELSE db[p].lastEvent]
           known == [value |-> c.value, quality |-> c.quality]
           PointSet == [value : Value, quality : Quality, lastEvent : Value]
           EventSet == [value : Value, quality : Quality]
<1>1. /\ p \in DatabasePoints /\ p[1] = t
      /\ db' = [db EXCEPT ![p] = point]
      /\ log'.events = IF event THEN [log.events EXCEPT ![p] = known] ELSE log.events
  BY DEF ApplyChange, At, AnnouncedInv, LogTypeOK
<1>2. c \in Change
  <2>1. io.pos[t] + 1 \in 1 .. Len(queue[t])
    BY InvFacts DEF ApplyChange, Applying, Passed, AnnouncedInv, BuffersAnnounced, BuffersTypeOK
  <2>2. Upcoming(t) \in Item
    BY <2>1, InvFacts DEF Upcoming
  <2>3. QED
    BY <2>2 DEF Item
<1>3. db \in [DatabasePoints -> PointSet] /\ log.events \in [EventPoints -> EventSet]
  BY DEF AnnouncedInv, BuffersAnnounced, BuffersTypeOK, LogTypeOK
<1>4. EventPoints \subseteq DatabasePoints
  BY UpdatesAssumption
<1>5. EventsKnown
  BY DEF AnnouncedInv
<1>a. event <=> p \in EventPoints /\ ShouldGenerateEvent(t, c, db[p])
  OBVIOUS
<1>b. /\ point.value = c.value /\ point.quality = c.quality
      /\ event /\ t \notin Booleans => point.lastEvent = c.value
      /\ ~(event /\ t \notin Booleans) => point.lastEvent = db[p].lastEvent
      /\ known.value = c.value /\ known.quality = c.quality
  OBVIOUS
<1>c. point \in PointSet /\ known \in EventSet
  BY <1>1, <1>2, <1>3 DEF Change
<1> HIDE DEF p, c, event, point, known, PointSet, EventSet
<1>6. db' \in [DatabasePoints -> PointSet] /\ log'.events \in [EventPoints -> EventSet]
  BY <1>1, <1>3, <1>c
<1>7. ASSUME NEW q \in EventPoints, q # p
      PROVE  db'[q] = db[q] /\ log'.events[q] = log.events[q]
  BY <1>1, <1>3, <1>4, <1>7
<1>8. CASE p \notin EventPoints
  <2>1. \A q \in EventPoints : q # p
    BY <1>8
  <2>2. QED
    BY <1>5, <1>6, <1>7, <2>1 DEF EventsKnown, PointSet, EventSet
<1>9. CASE p \in EventPoints
  <2>1. db'[p] = point
    BY <1>1, <1>3
  <2>2. /\ db[p].quality = log.events[p].quality
        /\ t \in Booleans => db[p].value = log.events[p].value
        /\ t \notin Booleans => db[p].lastEvent = log.events[p].value
    BY <1>1, <1>5, <1>9 DEF EventsKnown
  <2>3. /\ db'[p].quality = log'.events[p].quality
        /\ t \in Booleans => db'[p].value = log'.events[p].value
        /\ t \notin Booleans => /\ db'[p].lastEvent = log'.events[p].value
                                /\ ~ExceedsDeadband(db'[p].value, db'[p].lastEvent)
    <3>1. CASE event
      <4>1. log'.events[p] = known
        BY <1>1, <1>3, <1>9, <3>1
      <4>2. ~ExceedsDeadband(c.value, c.value)
        BY <1>2, UpdatesAssumption DEF Change, Value, ExceedsDeadband
      <4>3. QED
        BY <1>b, <2>1, <3>1, <4>1, <4>2
    <3>2. CASE ~event
      <4>1. log'.events[p] = log.events[p]
        BY <1>1, <3>2
      <4>2. ~ShouldGenerateEvent(t, c, db[p])
        BY <1>a, <1>9, <3>2
      <4>3. /\ c.quality = db[p].quality
            /\ t \in Booleans => c.value = db[p].value
            /\ t \notin Booleans => ~ExceedsDeadband(c.value, db[p].lastEvent)
        BY <4>2 DEF ShouldGenerateEvent
      <4>4. QED
        BY <1>b, <2>1, <2>2, <3>2, <4>1, <4>3
    <3>3. QED
      BY <3>1, <3>2
  <2>4. ASSUME NEW q \in EventPoints
        PROVE  /\ db'[q].quality = log'.events[q].quality
               /\ IF q[1] \in Booleans THEN db'[q].value = log'.events[q].value
                  ELSE /\ db'[q].lastEvent = log'.events[q].value
                       /\ ~ExceedsDeadband(db'[q].value, db'[q].lastEvent)
    <3>1. CASE q = p
      BY <1>1, <2>3, <3>1
    <3>2. CASE q # p
      BY <1>5, <1>7, <3>2 DEF EventsKnown
    <3>3. QED
      BY <3>1, <3>2
  <2>5. EventsKnown'
    BY <2>4 DEF EventsKnown
  <2>6. QED
    BY <1>6, <2>5 DEF PointSet, EventSet
<1>10. QED
  BY <1>8, <1>9

\* A change that is applied moves from the queue to the changes applied.
LEMMA ChangeKeeps ==
  ASSUME NEW t \in Type, ApplyChange(t), AnnouncedInv
  PROVE  Contents' /\ LogTypeOK' /\ \A k \in Type : io'.pos[k] <= Len(queue[k])
<1> DEFINE x == queue[t][io.pos[t] + 1]
<1>1. /\ queue' = queue /\ count' = count
      /\ io' = [io EXCEPT !.pos[t] = @ + 1]
      /\ log'.applied = [log.applied EXCEPT ![t] = Append(@, x)]
      /\ log'.committed = log.committed /\ log'.thrown = log.thrown
      /\ log' = [committed |-> log'.committed, applied |-> log'.applied,
                 events |-> log'.events, thrown |-> log'.thrown]
  BY DEF ApplyChange, AnnouncedInv, LogTypeOK, Upcoming
<1>2. io'.pos = [io.pos EXCEPT ![t] = @ + 1]
  BY <1>1, InvFacts DEF Thread
<1>3. io.pos \in [Type -> Nat]
  BY InvFacts DEF Thread
<1>4. io.pos[t] < Len(queue[t]) /\ io.pos[t] + 1 \in 1 .. Len(queue[t]) /\ x \in Item
  BY InvFacts DEF ApplyChange, Applying, Passed, AnnouncedInv, BuffersAnnounced, BuffersTypeOK
<1>5. ASSUME NEW k \in Type, k # t
      PROVE  log'.applied[k] = log.applied[k] /\ io'.pos[k] = io.pos[k]
  BY <1>1, <1>2, <1>3, <1>5, InvFacts
<1>6. log'.applied[t] = Append(log.applied[t], x) /\ io'.pos[t] = io.pos[t] + 1
  BY <1>1, <1>2, <1>3, InvFacts
<1>a. /\ log.applied[t] \in Seq(Item) /\ queue[t] \in Seq(Item) /\ log.committed[t] \in Seq(Item)
      /\ io.pos[t] \in Nat /\ count.commits \in Nat /\ io.pos[t] <= Len(log.applied[t])
  BY InvFacts DEF AnnouncedInv, Separated
<1>7. log'.applied \in [Type -> Seq(Item)]
  BY <1>1, <1>4, <1>a, InvFacts
<1>8. Ordered'
  <2> SUFFICES ASSUME NEW k \in Type
               PROVE  Line(log'.applied[k], queue[k], io'.pos[k], count.commits)
    BY <1>1 DEF Ordered
  <2>1. CASE k = t
    <3>1. Line(log.applied[t], queue[t], io.pos[t], count.commits)
      BY DEF AnnouncedInv, Ordered
    <3>2. x.tx <= count.commits
      BY <1>4 DEF AnnouncedInv, BuffersAnnounced, BuffersTypeOK
    <3>3. Line(Append(log.applied[t], x), queue[t], io.pos[t] + 1, count.commits)
      BY <1>4, <1>a, <3>1, <3>2, LineAdvances
    <3>4. QED
      BY <1>6, <2>1, <3>3
  <2>2. CASE k # t
    BY <1>5, <2>2 DEF AnnouncedInv, Ordered
  <2>3. QED
    BY <2>1, <2>2
<1>9. Accounted'
  <2> SUFFICES ASSUME log.thrown = 0, NEW k \in Type
               PROVE  Joined(log.committed[k], log'.applied[k], queue[k], io'.pos[k])
    BY <1>1 DEF Accounted
  <2>1. CASE k = t
    <3>1. Joined(log.committed[t], log.applied[t], queue[t], io.pos[t])
      BY DEF AnnouncedInv, Accounted
    <3>2. Joined(log.committed[t], Append(log.applied[t], x), queue[t], io.pos[t] + 1)
      BY <1>4, <1>a, <3>1, JoinedAdvances
    <3>3. QED
      BY <1>6, <2>1, <3>2
  <2>2. CASE k # t
    BY <1>5, <2>2 DEF AnnouncedInv, Accounted
  <2>3. QED
    BY <2>1, <2>2
<1>10. ASSUME NEW k \in Type
       PROVE  /\ io'.pos[k] <= Len(log'.applied[k])
              /\ Len(log'.applied[k]) - io'.pos[k] = Len(log.applied[k]) - io.pos[k]
              /\ \A i \in 1 .. Len(log.applied[k]) : log'.applied[k][i] = log.applied[k][i]
  <2>1. CASE k = t
    <3>1. /\ Len(log'.applied[t]) = Len(log.applied[t]) + 1 /\ Len(log.applied[t]) \in Nat
          /\ \A i \in 1 .. Len(log.applied[t]) : log'.applied[t][i] = log.applied[t][i]
      BY <1>4, <1>6, <1>a
    <3>2. /\ io'.pos[t] <= Len(log'.applied[t])
          /\ Len(log'.applied[t]) - io'.pos[t] = Len(log.applied[t]) - io.pos[t]
      <4> DEFINE m == Len(log.applied[t])
                 m1 == Len(log'.applied[t])
                 v == io.pos[t]
                 v1 == io'.pos[t]
      <4>1. m \in Nat /\ v \in Nat /\ m1 = m + 1 /\ v1 = v + 1 /\ v <= m
        BY <1>6, <1>a, <3>1
      <4> HIDE DEF m, m1, v, v1
      <4>2. v1 <= m1 /\ m1 - v1 = m - v
        BY <4>1
      <4>3. QED
        BY <4>2 DEF m, m1, v, v1
    <3>3. QED
      BY <2>1, <3>1, <3>2
  <2>2. CASE k # t
    BY <1>5, <2>2 DEF AnnouncedInv, Separated
  <2>3. QED
    BY <2>1, <2>2
<1>11. Separated'
  <2> SUFFICES ASSUME NEW k \in Type, NEW u \in Type
               PROVE  /\ io'.pos[k] <= Len(log'.applied[k])
                      /\ \A i \in 1 .. Len(log'.applied[k]) - io'.pos[k], j \in 1 .. Len(queue[u]) :
                           log'.applied[k][i].tx < queue[u][j].tx
    BY <1>1 DEF Separated
  <2>1. ASSUME NEW i \in 1 .. Len(log'.applied[k]) - io'.pos[k], NEW j \in 1 .. Len(queue[u])
        PROVE  log'.applied[k][i].tx < queue[u][j].tx
    <3>1. i \in 1 .. Len(log.applied[k]) - io.pos[k]
      BY <1>10
    <3>2. i \in 1 .. Len(log.applied[k])
      <4>1. Len(log.applied[k]) \in Nat /\ io.pos[k] \in Nat
        BY InvFacts
      <4>2. QED
        BY <3>1, <4>1
    <3>3. log.applied[k][i].tx < queue[u][j].tx
      BY <3>1 DEF AnnouncedInv, Separated
    <3>4. QED
      BY <1>10, <3>2, <3>3
  <2>2. QED
    BY <1>10, <2>1
<1>12. \A k \in Type : io'.pos[k] <= Len(queue[k])
  <2> SUFFICES ASSUME NEW k \in Type PROVE io'.pos[k] <= Len(queue[k])
    OBVIOUS
  <2>1. CASE k = t
    BY <1>4, <1>6, <1>a, <2>1, InvFacts
  <2>2. CASE k # t
    BY <1>5, <2>2 DEF AnnouncedInv, BuffersAnnounced, BuffersTypeOK
  <2>3. QED
    BY <2>1, <2>2
<1>13. LogTypeOK'
  <2>1. log'.events \in [EventPoints -> [value : Value, quality : Quality]]
    BY ChangeKnown
  <2>2. QED
    BY <1>1, <1>7, <2>1 DEF AnnouncedInv, LogTypeOK
<1>14. QED
  BY <1>8, <1>9, <1>11, <1>12, <1>13, ChangeKnown DEF Contents

\* At first nothing is committed and every point is unknown.
LEMMA AnnouncedInit == UpdatesInit => AnnouncedInv
<1> SUFFICES ASSUME UpdatesInit PROVE AnnouncedInv
  OBVIOUS
<1>1. \A t \in Type : queue[t] = <<>> /\ io.pos[t] = 0 /\ log.applied[t] = <<>>
                      /\ log.committed[t] = <<>>
  BY DEF UpdatesInit, NoChanges, NonePassed
<1>2. 0 \in Value
  BY DEF Value
<1>3. BuffersAnnounced
  <2>1. BuffersTypeOK
    <3>1. queue \in [Type -> Seq(Item)]
      BY DEF UpdatesInit, NoChanges
    <3>2. db \in [DatabasePoints -> [value : Value, quality : Quality, lastEvent : Value]]
      <4>1. Unknown \in [value : Value, quality : Quality, lastEvent : Value]
        <5>1. "restart" \in Quality
          BY UpdatesAssumption
        <5>2. QED
          BY <1>2, <5>1, Zenon DEF Unknown
      <4>2. QED
        BY <4>1 DEF UpdatesInit
    <3>3. io \in Thread /\ io.pc = "free" /\ io.pos = NonePassed /\ NonePassed \in [Type -> Nat]
      BY DEF UpdatesInit, NonePassed, Thread, States, Places
    <3>4. /\ vto \in 0 .. MaxVtoChunks /\ vtoEvents \in 0 .. VtoRoom
          /\ calls \in [notifying : Nat, posted : Nat] /\ lock = "none"
      BY UpdatesAssumption DEF UpdatesInit
    <3>5. \A t \in Type : io.pos[t] <= Len(queue[t]) /\ \A i \in 1 .. Len(queue[t]) : FALSE
      BY <1>1
    <3>6. QED
      BY <3>1, <3>2, <3>3, <3>4, <3>5 DEF BuffersTypeOK, Thread
  <2>2. NothingStranded
    BY DEF UpdatesInit, NothingStranded
  <2>3. QED
    BY <2>1, <2>2 DEF BuffersAnnounced
<1>4. LogTypeOK /\ HandlerKnows
  <2>1. log.committed \in [Type -> Seq(Item)] /\ log.applied \in [Type -> Seq(Item)]
    BY DEF UpdatesInit, NoChanges
  <2>2. log.events \in [EventPoints -> [value : Value, quality : Quality]]
    <3>1. NoEvent \in [value : Value, quality : Quality]
      <4>1. "restart" \in Quality
        BY UpdatesAssumption
      <4>2. QED
        BY <1>2, <4>1, Zenon DEF NoEvent
    <3>2. QED
      BY <3>1 DEF UpdatesInit
  <2>3. count \in [commits : Nat, writes : Nat, incidents : Nat] /\ log.thrown \in Nat
    BY DEF UpdatesInit
  <2>4. log = [committed |-> log.committed, applied |-> log.applied, events |-> log.events,
               thrown |-> log.thrown]
    BY DEF UpdatesInit
  <2>5. HandlerKnows
    BY DEF UpdatesInit, HandlerKnows
  <2>6. QED
    BY <2>1, <2>2, <2>3, <2>4, <2>5 DEF LogTypeOK
<1>5. Ordered /\ Accounted /\ Separated
  BY <1>1 DEF UpdatesInit, Ordered, Accounted, Separated, Line, Joined, InOrder
<1>6. EventsKnown
  <2>1. \A p \in EventPoints : p \in DatabasePoints
    BY UpdatesAssumption
  <2>2. ~ExceedsDeadband(0, 0)
    BY UpdatesAssumption DEF ExceedsDeadband
  <2>3. QED
    BY <2>1, <2>2 DEF UpdatesInit, EventsKnown, Unknown, NoEvent
<1>7. QED
  BY <1>3, <1>4, <1>5, <1>6 DEF AnnouncedInv

\* The types, for a step that leaves changes and events alone.
LEMMA AsideTypes ==
  ASSUME AnnouncedInv, Aside,
         count' \in [commits : Nat, writes : Nat, incidents : Nat],
         vto' \in 0 .. MaxVtoChunks, vtoEvents' \in 0 .. VtoRoom,
         calls' \in [notifying : Nat, posted : Nat], io' \in Thread,
         io'.pc # "apply" => io.pos = NonePassed,
         lock' = IF io'.pc = "apply" THEN "stack" ELSE "none"
  PROVE  BuffersTypeOK' /\ LogTypeOK'
<1>1. BuffersTypeOK'
  BY DEF AnnouncedInv, Aside, BuffersAnnounced, BuffersTypeOK, Thread
<1>2. LogTypeOK'
  BY DEF AnnouncedInv, Aside, LogTypeOK
<1>3. QED
  BY <1>1, <1>2

\* A thread that writes VTO data or notifies.
LEMMA UsersKeep ==
  ASSUME AnnouncedInv, WriteVto \/ Notify
  PROVE  AnnouncedInv'
<1>1. /\ Aside /\ count' \in [commits : Nat, writes : Nat, incidents : Nat]
      /\ calls' \in [notifying : Nat, posted : Nat] /\ vto' \in 0 .. MaxVtoChunks
      /\ lock' = lock /\ io' = io /\ vtoEvents' = vtoEvents
  <2>1. /\ calls \in [notifying : Nat, posted : Nat] /\ vto \in 0 .. MaxVtoChunks
        /\ count \in [commits : Nat, writes : Nat, incidents : Nat] /\ MaxVtoChunks \in Nat
    BY UpdatesAssumption DEF AnnouncedInv, BuffersAnnounced, BuffersTypeOK, LogTypeOK
  <2>2. CASE WriteVto
    BY <2>1, <2>2 DEF WriteVto, Aside
  <2>3. CASE Notify
    <3>1. calls' \in [notifying : Nat, posted : Nat]
      <4>1. /\ calls.notifying \in Nat /\ calls.notifying > 0 /\ calls.posted \in Nat
            /\ calls' = [calls EXCEPT !.notifying = @ - 1, !.posted = @ + 1]
        BY <2>1, <2>3 DEF Notify
      <4>2. calls' = [notifying |-> calls.notifying - 1, posted |-> calls.posted + 1]
        BY <2>1, <4>1
      <4>3. QED
        BY <4>1, <4>2
    <3>2. /\ queue' = queue /\ lock' = lock /\ vto' = vto /\ io' = io /\ db' = db
          /\ vtoEvents' = vtoEvents /\ count' = count /\ log' = log
      BY <2>3 DEF Notify
    <3>3. QED
      BY <2>1, <3>1, <3>2 DEF Aside
  <2>4. QED
    BY <2>2, <2>3
<1>2. BuffersTypeOK' /\ LogTypeOK'
  BY <1>1, AsideTypes, InvFacts DEF AnnouncedInv, BuffersAnnounced, BuffersTypeOK
<1>3. NothingStranded' /\ HandlerKnows'
  <2>1. /\ calls \in [notifying : Nat, posted : Nat] /\ NothingStranded /\ HandlerKnows
        /\ queue' = queue /\ log' = log
    BY <1>1 DEF AnnouncedInv, BuffersAnnounced, BuffersTypeOK, Aside
  <2>2. calls'.notifying > 0 \/ calls'.posted > 0
    <3>1. CASE WriteVto
      BY <2>1, <3>1 DEF WriteVto
    <3>2. CASE Notify
      BY <2>1, <3>2 DEF Notify
    <3>3. QED
      BY <3>1, <3>2
  <2>3. QED
    BY <1>1, <2>1, <2>2 DEF NothingStranded, HandlerKnows
<1>4. QED
  BY <1>1, <1>2, <1>3, AsideKeeps DEF AnnouncedInv, BuffersAnnounced, Contents

\* The steps of Slave that do not look into the buffers.
Turns ==
  OnDataUpdate \/ OnLowerLayerUp \/ OnLowerLayerDown \/ StartResponse \/ ResponseEnds
  \/ FinishDataUpdate

\* They defer an update rather than forget it.
LEMMA TurnsKeep ==
  ASSUME AnnouncedInv, Turns
  PROVE  AnnouncedInv'
<1>1. /\ io \in Thread /\ count \in [commits : Nat, writes : Nat, incidents : Nat]
      /\ calls \in [notifying : Nat, posted : Nat]
  BY InvFacts DEF AnnouncedInv, LogTypeOK, BuffersAnnounced, BuffersTypeOK
<1>2. /\ io.pc \in {"free", "flushed"} /\ io' \in Thread /\ io'.pos = io.pos
      /\ io'.pc \in {"start", "free"}
      /\ io'.deferred \/ ~io.deferred \/ io'.pc = "start"
  <2>1. CASE OnDataUpdate
    <3>1. Defer(io) \in Thread /\ Defer(io).pos = io.pos /\ Defer(io).deferred
      BY <1>1 DEF Defer, Thread
    <3>2. [io EXCEPT !.pc = "start"] \in Thread /\ [io EXCEPT !.pc = "start"].pos = io.pos
          /\ [io EXCEPT !.pc = "start"].pc = "start"
      BY <1>1 DEF Thread, Places
    <3>3. QED
      BY <2>1, <3>1, <3>2, FlushDeferredFacts DEF OnDataUpdate, Free
  <2>2. CASE OnLowerLayerUp \/ OnLowerLayerDown \/ ResponseEnds
    <3>1. ASSUME NEW state \in States
          PROVE  LET x == [io EXCEPT !.state = state] IN
                 x \in Thread /\ x.pos = io.pos /\ x.deferred = io.deferred
      BY <1>1 DEF Thread
    <3>2. PICK state \in States :
            io' = FlushDeferredEvents([io EXCEPT !.state = state]) /\ io.pc = "free"
      BY <2>2 DEF OnLowerLayerUp, OnLowerLayerDown, ResponseEnds, States, Free
    <3> DEFINE x == [io EXCEPT !.state = state]
    <3>3. x \in Thread /\ x.pos = io.pos /\ x.deferred = io.deferred
      BY <3>1
    <3>4. io' = FlushDeferredEvents(x)
      BY <3>2
    <3> HIDE DEF x
    <3>5. QED
      BY <3>2, <3>3, <3>4, FlushDeferredFacts
  <2>3. CASE StartResponse
    BY <1>1, <2>3 DEF StartResponse, Thread, Free, States
  <2>4. CASE FinishDataUpdate
    <3>1. PICK state \in States :
            io' = IF io.again THEN [[io EXCEPT !.state = state] EXCEPT !.pc = "free", !.again = FALSE]
                              ELSE FlushDeferredEvents([io EXCEPT !.state = state])
      BY <1>1, <2>4 DEF FinishDataUpdate, States, Thread
    <3> DEFINE x == [io EXCEPT !.state = state]
    <3>2. x \in Thread /\ x.pos = io.pos /\ x.deferred = io.deferred
      BY <1>1 DEF Thread
    <3>3. CASE io.again
      BY <1>1, <2>4, <3>1, <3>3 DEF FinishDataUpdate, Thread, Places
    <3>4. CASE ~io.again
      BY <2>4, <3>1, <3>2, <3>4, FlushDeferredFacts DEF FinishDataUpdate
    <3>5. QED
      BY <3>3, <3>4
  <2>5. QED
    BY <2>1, <2>2, <2>3, <2>4 DEF Turns
<1>3. /\ queue' = queue /\ db' = db /\ log' = log /\ vto' = vto /\ lock' = lock
      /\ vtoEvents' \in {vtoEvents, 0}
      /\ count' \in [commits : Nat, writes : Nat, incidents : Nat]
      /\ count'.commits = count.commits
      /\ calls' \in [notifying : Nat, posted : Nat]
      /\ calls' # calls => io'.deferred \/ io'.pc = "start"
      /\ calls' # calls => OnDataUpdate
  <2>1. CASE OnDataUpdate
    <3>1. calls' \in [notifying : Nat, posted : Nat]
      BY <1>1, <2>1 DEF OnDataUpdate
    <3>2. io'.deferred \/ io'.pc = "start"
      <4>1. CASE io.state = "Waiting"
        BY <1>1, <2>1, <4>1
           DEF OnDataUpdate, Defer, FlushDeferredEvents, AcceptsDeferredUpdates, Thread
      <4>2. CASE io.state # "Waiting"
        BY <1>1, <2>1, <4>2 DEF OnDataUpdate, Thread
      <4>3. QED
        BY <4>1, <4>2
    <3>3. QED
      BY <1>1, <2>1, <3>1, <3>2 DEF OnDataUpdate
  <2>2. CASE OnLowerLayerUp \/ ResponseEnds \/ FinishDataUpdate
    BY <1>1, <2>2 DEF OnLowerLayerUp, ResponseEnds, FinishDataUpdate, Buffers
  <2>3. CASE OnLowerLayerDown \/ StartResponse
    BY <1>1, <2>3 DEF OnLowerLayerDown, StartResponse, Buffers, Incident
  <2>4. QED
    BY <2>1, <2>2, <2>3 DEF Turns
<1>4. Aside
  BY <1>2, <1>3 DEF Aside
<1>5. BuffersTypeOK' /\ LogTypeOK'
  BY <1>2, <1>3, <1>4, AsideTypes, UpdatesAssumption
     DEF AnnouncedInv, BuffersAnnounced, BuffersTypeOK
<1>6. NothingStranded' /\ HandlerKnows'
  BY <1>2, <1>3
     DEF AnnouncedInv, BuffersAnnounced, BuffersTypeOK, NothingStranded, HandlerKnows
<1>7. QED
  BY <1>4, <1>5, <1>6, AsideKeeps DEF AnnouncedInv, BuffersAnnounced, Contents

\* A thread that commits will notify.
LEMMA CommitsKeep ==
  ASSUME AnnouncedInv, Commit
  PROVE  AnnouncedInv'
<1>1. /\ io' = io /\ lock' = lock /\ vto' = vto /\ db' = db /\ vtoEvents' = vtoEvents
      /\ calls' = [calls EXCEPT !.notifying = IF queue' # NoChanges THEN @ + 1 ELSE @]
      /\ log'.thrown = log.thrown
  BY DEF Commit, AnnouncedInv, LogTypeOK
<1>2. calls \in [notifying : Nat, posted : Nat]
  BY DEF AnnouncedInv, BuffersAnnounced, BuffersTypeOK
<1>3. \A t \in Type : io.pos[t] = 0
  BY DEF Commit, Unlocked, AnnouncedInv, BuffersAnnounced, BuffersTypeOK, NonePassed
<1>4. \A t \in Type : io.pos[t] <= Len(queue'[t])
  <2>1. \A t \in Type : queue'[t] \in Seq(Item)
    BY CommitKeeps
  <2>2. \A t \in Type : Len(queue'[t]) \in Nat
    BY <2>1
  <2>3. QED
    BY <1>3, <2>2
<1>5. BuffersTypeOK'
  <2>1. /\ queue' \in [Type -> Seq(Item)]
        /\ \A t \in Type : \A i \in 1 .. Len(queue'[t]) : queue'[t][i].tx <= count'.commits
    BY CommitKeeps
  <2>2. calls' \in [notifying : Nat, posted : Nat]
    BY <1>1, <1>2
  <2>3. QED
    BY <1>1, <1>4, <2>1, <2>2 DEF AnnouncedInv, BuffersAnnounced, BuffersTypeOK
<1>6. NothingStranded' /\ HandlerKnows'
  BY <1>1, <1>2 DEF AnnouncedInv, BuffersAnnounced, NothingStranded, HandlerKnows
<1>7. QED
  <2>1. Contents' /\ LogTypeOK'
    BY CommitKeeps
  <2>2. QED
    BY <1>5, <1>6, <2>1 DEF AnnouncedInv, BuffersAnnounced, Contents

\* FlushVtoUpdates may take a size that is no longer right, but then there is a notification.
LEMMA LooksKeep ==
  ASSUME AnnouncedInv, StartFlush \/ LookForVto \/ FlushVtoUpdates
  PROVE  AnnouncedInv'
<1>1. /\ io \in Thread /\ vto \in 0 .. MaxVtoChunks /\ vtoEvents \in 0 .. VtoRoom
      /\ count \in [commits : Nat, writes : Nat, incidents : Nat]
      /\ calls \in [notifying : Nat, posted : Nat]
      /\ MaxVtoChunks \in Nat /\ VtoRoom \in Nat
  BY InvFacts, UpdatesAssumption DEF AnnouncedInv, LogTypeOK, BuffersAnnounced, BuffersTypeOK
<1>2. /\ Aside /\ count' = count /\ calls' = calls /\ queue' = queue /\ log' = log
      /\ vto' \in 0 .. MaxVtoChunks /\ vtoEvents' \in 0 .. VtoRoom /\ io' \in Thread
      /\ lock' = IF io'.pc = "apply" THEN "stack" ELSE "none"
      /\ io.pos = NonePassed
  <2>1. CASE StartFlush
    <3>1. io' \in Thread /\ io'.pos = io.pos
          /\ lock' = IF io'.pc = "apply" THEN "stack" ELSE "none"
      BY <1>1, <2>1 DEF StartFlush, Unlocked, Thread, Places
    <3>2. io.pos = NonePassed
      BY <2>1 DEF StartFlush, AnnouncedInv, BuffersAnnounced, BuffersTypeOK
    <3>3. QED
      BY <1>1, <2>1, <3>1, <3>2 DEF StartFlush, Aside
  <2>2. CASE LookForVto
    <3>1. io' \in Thread /\ io'.pos = io.pos /\ io'.pc = "vto"
      <4>1. vto \in Nat /\ io' = [io EXCEPT !.pc = "vto", !.available = vto]
        BY <1>1, <2>2 DEF LookForVto
      <4>2. QED
        BY <1>1, <4>1 DEF Thread, Places
    <3>2. io.pos = NonePassed /\ lock = "none"
      BY <2>2 DEF LookForVto, AnnouncedInv, BuffersAnnounced, BuffersTypeOK
    <3>3. QED
      BY <1>1, <2>2, <3>1, <3>2 DEF LookForVto, Aside, Buffers
  <2>3. CASE FlushVtoUpdates
    <3>1. io' \in Thread /\ io'.pos = io.pos /\ io'.pc = "flushed"
      BY <1>1, <2>3 DEF FlushVtoUpdates, Thread, Places
    <3>2. vto' \in 0 .. MaxVtoChunks /\ vtoEvents' \in 0 .. VtoRoom
      BY <1>1, <2>3 DEF FlushVtoUpdates
    <3>3. QED
      BY <2>3, <3>1, <3>2
         DEF FlushVtoUpdates, Aside, AnnouncedInv, BuffersAnnounced, BuffersTypeOK
  <2>4. QED
    BY <2>1, <2>2, <2>3
<1>3. BuffersTypeOK' /\ LogTypeOK'
  BY <1>1, <1>2, AsideTypes
<1>4. NothingStranded' /\ HandlerKnows'
  <2>1. CASE StartFlush
    BY <1>1, <1>2, <2>1
       DEF StartFlush, Thread, AnnouncedInv, BuffersAnnounced, NothingStranded, HandlerKnows
  <2>2. CASE LookForVto
    BY <1>1, <1>2, <2>2
       DEF LookForVto, Thread, AnnouncedInv, BuffersAnnounced, NothingStranded, HandlerKnows, Buffers
  <2>3. CASE FlushVtoUpdates
    <3> DEFINE space == VtoRoom - vtoEvents
    <3>1. /\ io.pc = "vto" /\ io'.pc = "flushed" /\ space \in Nat
          /\ io'.deferred = (io.deferred \/ io.available > space)
          /\ vto' = vto - (IF vto < space THEN vto ELSE space)
      BY <1>1, <2>3 DEF FlushVtoUpdates, Thread
    <3> HIDE DEF space
    <3>2. io.available \in Nat
      BY <1>1 DEF Thread
    <3>3. vto' > 0 => vto > space
      BY <1>1, <3>1
    <3>4. vto' > 0 => calls.notifying > 0 \/ calls.posted > 0 \/ io.deferred \/ io.available > space
      BY <1>1, <3>1, <3>2, <3>3 DEF AnnouncedInv, HandlerKnows
    <3>5. QED
      BY <1>2, <3>1, <3>4 DEF AnnouncedInv, BuffersAnnounced, NothingStranded, HandlerKnows
  <2>4. QED
    BY <2>1, <2>2, <2>3
<1>5. QED
  BY <1>2, <1>3, <1>4, AsideKeeps DEF AnnouncedInv, BuffersAnnounced, Contents

\* The ends of a flush, by an exception or not.
LEMMA FlushesKeep ==
  ASSUME AnnouncedInv, Catch \/ FinishFlush \/ \E t \in Type : Throw(t)
  PROVE  AnnouncedInv'
<1>1. io \in Thread /\ log.thrown \in Nat
  BY InvFacts DEF AnnouncedInv, LogTypeOK
<1>2. /\ Empties /\ io' \in Thread /\ io'.pc # "apply" /\ io'.pc # "vto" /\ lock' = "none"
      /\ vto' = vto /\ calls' = calls /\ vtoEvents' = vtoEvents
      /\ io'.deferred = io.deferred
      /\ LogTypeOK'
  <2> DEFINE logged == /\ log'.applied = log.applied /\ log'.committed = log.committed
                       /\ log'.events = log.events /\ log'.thrown \in Nat
                       /\ log' = [committed |-> log'.committed, applied |-> log'.applied,
                                  events |-> log'.events, thrown |-> log'.thrown]
  <2>1. /\ logged /\ count' = count /\ db' = db
        /\ vto' = vto /\ calls' = calls /\ vtoEvents' = vtoEvents
    <3>1. CASE Catch
      BY <3>1 DEF Catch, AnnouncedInv, LogTypeOK
    <3>2. CASE FinishFlush
      BY <3>2 DEF FinishFlush, AnnouncedInv, LogTypeOK
    <3>3. ASSUME NEW t \in Type, Throw(t)
          PROVE  /\ logged /\ count' = count /\ db' = db
                 /\ vto' = vto /\ calls' = calls /\ vtoEvents' = vtoEvents
      <4>1. log' = [log EXCEPT !.thrown = @ + 1]
        BY <3>3 DEF Throw
      <4>2. log = [committed |-> log.committed, applied |-> log.applied, events |-> log.events,
                   thrown |-> log.thrown]
        BY DEF AnnouncedInv, LogTypeOK
      <4>3. logged
        BY <1>1, <4>1, <4>2
      <4>4. QED
        BY <3>3, <4>3 DEF Throw
    <3>4. QED
      BY <3>1, <3>2, <3>3
  <2>2. /\ io' \in Thread /\ io'.pos = NonePassed /\ io'.pc # "apply" /\ io'.pc # "vto"
        /\ io'.deferred = io.deferred /\ queue' = NoChanges /\ lock' = "none"
    <3>1. NonePassed \in [Type -> Nat]
      BY DEF NonePassed
    <3>2. CASE Catch
      <4>1. io.pos = NonePassed /\ lock = "none"
        BY <3>2 DEF Catch, Unlocked, AnnouncedInv, BuffersAnnounced, BuffersTypeOK
      <4>2. QED
        BY <1>1, <3>2, <4>1 DEF Catch, Thread, Places
    <3>3. CASE FinishFlush
      BY <1>1, <3>1, <3>3 DEF FinishFlush, Cleared, Thread, Places
    <3>4. CASE \E t \in Type : Throw(t)
      BY <1>1, <3>1, <3>4 DEF Throw, Thread, Places
    <3>5. QED
      BY <3>2, <3>3, <3>4
  <2>3. log'.thrown = 0 => log.thrown = 0 /\ \A t \in Type : io.pos[t] = Len(queue[t])
    <3>1. CASE Catch
      <4>1. log' = log /\ io.pc = "caught"
        BY <3>1 DEF Catch
      <4>2. QED
        BY <1>1, <4>1 DEF AnnouncedInv, HandlerKnows
    <3>2. CASE FinishFlush
      BY <3>2 DEF FinishFlush, Passed
    <3>3. CASE \E t \in Type : Throw(t)
      BY <1>1, <3>3 DEF Throw, AnnouncedInv, LogTypeOK
    <3>4. QED
      BY <3>1, <3>2, <3>3
  <2>4. QED
    BY <2>1, <2>2, <2>3 DEF Empties, AnnouncedInv, LogTypeOK
<1>3. \A t \in Type : Len(queue'[t]) = 0 /\ io'.pos[t] = 0 /\ queue'[t] = <<>>
  BY <1>2 DEF Empties, NoChanges, NonePassed
<1>4. BuffersTypeOK'
  <2>1. queue' \in [Type -> Seq(Item)]
    BY <1>2 DEF Empties, NoChanges
  <2>2. QED
    BY <1>2, <1>3, <2>1
       DEF Empties, AnnouncedInv, BuffersAnnounced, BuffersTypeOK, Thread
<1>5. NothingStranded' /\ HandlerKnows'
  <2>1. queue' = NoChanges /\ HandlerKnows'
    <3>1. io'.pc = "caught" => \E t \in Type : Throw(t)
      BY <1>1 DEF Catch, FinishFlush, Thread
    <3>2. io'.pc = "caught" => log'.thrown > 0
      BY <1>1, <3>1 DEF Throw, AnnouncedInv, LogTypeOK
    <3>3. QED
      BY <1>2, <3>2 DEF Empties, HandlerKnows
  <2>2. vto' > 0 /\ log'.thrown = 0 =>
          calls'.notifying > 0 \/ calls'.posted > 0 \/ io'.deferred
          \/ io'.pc \in {"start", "apply", "size", "vto"}
    <3>1. CASE Catch
      BY <1>1, <1>2, <3>1 DEF Catch, AnnouncedInv, BuffersAnnounced, NothingStranded
    <3>2. CASE FinishFlush
      BY <1>1, <3>2 DEF FinishFlush, Thread
    <3>3. CASE \E t \in Type : Throw(t)
      BY <1>1, <3>3 DEF Throw, AnnouncedInv, LogTypeOK
    <3>4. QED
      BY <3>1, <3>2, <3>3
  <2>3. QED
    BY <2>1, <2>2 DEF NothingStranded
<1>6. QED
  BY <1>2, <1>4, <1>5, EmptiesKeeps DEF AnnouncedInv, BuffersAnnounced, Contents

\* Database::_Update
LEMMA ChangesKeep ==
  ASSUME NEW t \in Type, AnnouncedInv, ApplyChange(t)
  PROVE  AnnouncedInv'
<1>1. /\ io.pc = "apply" /\ io' = [io EXCEPT !.pos[t] = @ + 1] /\ io \in Thread
      /\ queue' = queue /\ lock' = lock /\ vto' = vto /\ calls' = calls
      /\ vtoEvents' = vtoEvents /\ count' = count /\ log'.thrown = log.thrown
  BY InvFacts DEF ApplyChange, Applying, AnnouncedInv, LogTypeOK
<1>2. io' \in Thread /\ io'.pc = "apply" /\ io'.deferred = io.deferred
  BY <1>1 DEF Thread
<1>3. BuffersTypeOK'
  BY <1>1, <1>2, ChangeKeeps, ChangeKnown
     DEF AnnouncedInv, BuffersAnnounced, BuffersTypeOK, Thread
<1>4. NothingStranded' /\ HandlerKnows'
  BY <1>1, <1>2 DEF AnnouncedInv, BuffersAnnounced, NothingStranded, HandlerKnows
<1>5. QED
  BY <1>3, <1>4, ChangeKeeps DEF AnnouncedInv, BuffersAnnounced, Contents

\* Every step keeps the invariant.
LEMMA AnnouncedStep == AnnouncedInv /\ [UpdatesNext]_updateVars => AnnouncedInv'
<1> SUFFICES ASSUME AnnouncedInv, [UpdatesNext]_updateVars PROVE AnnouncedInv'
  OBVIOUS
<1>1. CASE Commit
  BY <1>1, CommitsKeep
<1>2. CASE WriteVto \/ Notify
  BY <1>2, UsersKeep
<1>3. CASE Turns
  BY <1>3, TurnsKeep
<1>4. CASE StartFlush \/ LookForVto \/ FlushVtoUpdates
  BY <1>4, LooksKeep
<1>5. CASE Catch \/ FinishFlush \/ \E t \in Type : Throw(t)
  BY <1>5, FlushesKeep
<1>6. CASE \E t \in Type : ApplyChange(t)
  BY <1>6, ChangesKeep
<1>7. CASE UNCHANGED updateVars
  BY <1>7 DEF updateVars, AnnouncedInv, BuffersAnnounced, BuffersTypeOK, NothingStranded, LogTypeOK,
     HandlerKnows, Ordered, Accounted, Separated, EventsKnown
<1>8. QED
  BY <1>1, <1>2, <1>3, <1>4, <1>5, <1>6, <1>7 DEF UpdatesNext, Handler, Turns

\* The invariant always holds.
LEMMA AnnouncedHolds == UpdatesSpec => []AnnouncedInv
BY AnnouncedInit, AnnouncedStep, PTL DEF UpdatesSpec

\* The buffers, the lock and the calls that announce them agree (ChangeBuffer, VtoWriter,
\* Slave::FlushDeferredEvents).
THEOREM AnnouncedCorrect == UpdatesSpec => []BuffersAnnounced
<1>1. AnnouncedInv => BuffersAnnounced
  BY DEF AnnouncedInv
<1>2. QED
  BY <1>1, AnnouncedHolds, PTL

\* What the master knows from events is within the deadband of what the database has, a
\* boolean and a quality are the same (ShouldGenerateEvent).
THEOREM DriftCorrect == UpdatesSpec => []DriftIsReported
<1>1. AnnouncedInv => DriftIsReported
  BY DEF AnnouncedInv, EventsKnown, DriftIsReported
<1>2. QED
  BY <1>1, AnnouncedHolds, PTL

\* What was committed is what was applied and then what remains.
LEMMA JoinedIs ==
  ASSUME NEW a \in Seq(Item), NEW q \in Seq(Item), NEW c \in Seq(Item), NEW p \in Nat,
         p <= Len(q), Joined(c, a, q, p)
  PROVE  c = a \o SubSeq(q, p + 1, Len(q))
<1> DEFINE r == SubSeq(q, p + 1, Len(q))
           d == a \o r
<1>1. /\ Len(a) \in Nat /\ Len(q) \in Nat /\ Len(c) \in Nat
  OBVIOUS
<1>2. /\ r \in Seq(Item) /\ Len(r) = Len(q) - p
      /\ \A i \in 1 .. Len(q) - p : r[i] = q[p + i]
  BY <1>1
<1> HIDE DEF r
<1>3. /\ d \in Seq(Item) /\ Len(d) = Len(a) + Len(r)
      /\ \A i \in 1 .. Len(a) : d[i] = a[i]
      /\ \A i \in 1 .. Len(d) : Len(a) < i => i - Len(a) \in 1 .. Len(r) /\ d[i] = r[i - Len(a)]
  BY <1>2, Grows
<1> HIDE DEF d
<1>4. /\ Len(c) + p = Len(a) + Len(q)
      /\ \A i \in 1 .. Len(a) : c[i] = a[i]
      /\ \A j \in 1 .. Len(q) : p < j => c[(Len(a) - p) + j] = q[j]
  BY DEF Joined
<1>5. Len(c) = Len(d)
  BY <1>1, <1>2, <1>3, <1>4
<1>6. ASSUME NEW i \in 1 .. Len(c)
      PROVE  c[i] = d[i]
  <2>1. CASE i <= Len(a)
    BY <1>1, <1>3, <1>4, <2>1
  <2>2. CASE Len(a) < i
    <3> DEFINE j == i - Len(a)
    <3>1. j \in 1 .. Len(q) - p /\ d[i] = r[j]
      BY <1>2, <1>3, <1>5, <2>2
    <3>2. p + j \in 1 .. Len(q) /\ p < p + j /\ (Len(a) - p) + (p + j) = i
      BY <1>1, <3>1
    <3> HIDE DEF j
    <3>3. c[(Len(a) - p) + (p + j)] = q[p + j]
      BY <1>4, <3>2
    <3>4. r[j] = q[p + j]
      BY <1>2, <3>1
    <3>5. QED
      BY <3>1, <3>2, <3>3, <3>4
  <2>3. QED
    BY <1>1, <2>1, <2>2
<1>7. c = d
  BY <1>3, <1>5, <1>6, SeqEqual
<1>8. QED
  BY <1>7 DEF d, r

\* A transaction of which nothing waits has all its changes applied.
LEMMA JoinedWhole ==
  ASSUME NEW a \in Seq(Item), NEW q \in Seq(Item), NEW c \in Seq(Item), NEW tx,
         Joined(c, a, q, 0), \A j \in 1 .. Len(q) : q[j].tx # tx
  PROVE  OfTransaction(a, tx) = OfTransaction(c, tx)
<1>1. Len(a) \in Nat /\ Len(q) \in Nat /\ Len(c) \in Nat
  OBVIOUS
<1>2. /\ Len(c) = Len(a) + Len(q)
      /\ \A i \in 1 .. Len(a) : c[i] = a[i]
      /\ \A j \in 1 .. Len(q) : c[Len(a) + j] = q[j]
  <2>1. /\ Len(c) + 0 = Len(a) + Len(q)
        /\ \A i \in 1 .. Len(a) : c[i] = a[i]
        /\ \A j \in 1 .. Len(q) : 0 < j => c[(Len(a) - 0) + j] = q[j]
    BY DEF Joined
  <2>2. Len(c) = Len(a) + Len(q) /\ Len(a) - 0 = Len(a)
    BY <1>1, <2>1
  <2>3. \A j \in 1 .. Len(q) : 0 < j
    BY <1>1
  <2>4. QED
    BY <2>1, <2>2, <2>3
<1>3. ASSUME NEW i \in 1 .. Len(c), c[i].tx = tx
      PROVE  i \in 1 .. Len(a)
  <2>1. SUFFICES ASSUME Len(a) < i PROVE FALSE
    BY <1>1, <1>2
  <2>2. i - Len(a) \in 1 .. Len(q) /\ Len(a) + (i - Len(a)) = i
    BY <1>1, <1>2, <2>1
  <2>3. c[i] = q[i - Len(a)]
    BY <1>2, <2>2
  <2>4. QED
    BY <1>3, <2>2, <2>3
<1>4. \A i \in 1 .. Len(a) : i \in 1 .. Len(c)
  BY <1>1, <1>2
<1>5. QED
  BY <1>2, <1>3, <1>4 DEF OfTransaction

\* Between two flushes a transaction is in the database as a whole or waits as a whole.
LEMMA WholeIsApplied ==
  ASSUME AnnouncedInv, Free, log.thrown = 0, NEW tx
  PROVE  IsApplied(tx)
<1>1. \A t \in Type : io.pos[t] = 0
  BY DEF Free, AnnouncedInv, BuffersAnnounced, BuffersTypeOK, NonePassed
<1>2. CASE \A t \in Type : \A i \in 1 .. Len(log.applied[t]) : log.applied[t][i].tx # tx
  BY <1>2 DEF IsApplied, OfTransaction
<1>3. ASSUME NEW u \in Type, NEW k \in 1 .. Len(log.applied[u]), log.applied[u][k].tx = tx
      PROVE  IsApplied(tx)
  <2>1. ASSUME NEW t \in Type
        PROVE  OfTransaction(log.applied[t], tx) = OfTransaction(log.committed[t], tx)
    <3>1. /\ Joined(log.committed[t], log.applied[t], queue[t], 0)
          /\ log.applied[t] \in Seq(Item) /\ queue[t] \in Seq(Item) /\ log.committed[t] \in Seq(Item)
      BY <1>1, InvFacts DEF AnnouncedInv, Accounted
    <3>2. \A j \in 1 .. Len(queue[t]) : queue[t][j].tx # tx
      <4>1. k \in 1 .. Len(log.applied[u]) - io.pos[u]
        BY <1>1, InvFacts
      <4>2. \A j \in 1 .. Len(queue[t]) : log.applied[u][k].tx < queue[t][j].tx
        BY <4>1 DEF AnnouncedInv, Separated
      <4>3. log.applied[u][k].tx \in Nat
        BY InvFacts DEF Item
      <4>4. QED
        BY <1>3, <4>2, <4>3
    <3>3. QED
      BY <3>1, <3>2, JoinedWhole
  <2>2. QED
    BY <2>1 DEF IsApplied
<1>4. QED
  BY <1>2, <1>3

\* Transactions reach the database once, in order and whole (ChangeBuffer).
THEOREM TransactionsCorrect == UpdatesSpec => []TransactionsApplied
<1>1. ASSUME AnnouncedInv PROVE ChangesAccounted
  <2> SUFFICES ASSUME NEW t \in Type
      PROVE /\ \A i, j \in 1 .. Len(log.applied[t]) :
                 i < j => Precedes(log.applied[t][i], log.applied[t][j])
            /\ log.thrown = 0 => log.committed[t] = log.applied[t] \o Remaining(t)
    BY DEF ChangesAccounted
  <2>1. Line(log.applied[t], queue[t], io.pos[t], count.commits)
    BY <1>1 DEF AnnouncedInv, Ordered
  <2>2. log.thrown = 0 => Joined(log.committed[t], log.applied[t], queue[t], io.pos[t])
    BY <1>1 DEF AnnouncedInv, Accounted
  <2>3. /\ log.applied[t] \in Seq(Item) /\ queue[t] \in Seq(Item) /\ log.committed[t] \in Seq(Item)
        /\ io.pos[t] \in Nat /\ io.pos[t] <= Len(queue[t])
    BY <1>1, InvFacts DEF AnnouncedInv, BuffersAnnounced, BuffersTypeOK
  <2>4. log.thrown = 0 => log.committed[t] = log.applied[t] \o Remaining(t)
    BY <2>2, <2>3, JoinedIs DEF Remaining
  <2>5. QED
    BY <2>1, <2>4 DEF Line, InOrder
<1>2. AnnouncedInv => WholeUnlessThrown
  BY WholeIsApplied DEF WholeUnlessThrown
<1>3. AnnouncedInv => TransactionsApplied
  BY <1>1, <1>2 DEF TransactionsApplied
<1>4. QED
  BY <1>3, AnnouncedHolds, PTL
=============================================================================
