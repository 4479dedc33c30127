---------------------------- MODULE TracesProofs ----------------------------
(***************************************************************************)
(* The readers of Chrome traces, for every document, and the ingest of a    *)
(* directory, for every directory.                                          *)
(*                                                                         *)
(* A loop over a sequence is a fold; its history is the function that gives *)
(* the accumulator after each turn.  The first part shows that the folds of *)
(* the readers have histories, by induction over sets of numbers, and that  *)
(* the two kinds of readers have the same.  The second shows that sums over *)
(* finite sets are cardinalities, so that what event_count adds up are      *)
(* events.                                                                  *)
(***************************************************************************)
EXTENDS TraceDir, SequenceTheorems, FiniteSetTheorems, WellFoundedInduction, TLAPS

-----------------------------------------------------------------------------
(* Induction, for predicates given as sets.                                 *)

\* A set of numbers that is not empty has a least one.
LEMMA LeastNumber ==
  ASSUME NEW S \in SUBSET Nat, S # {}
  PROVE  \E m \in S : \A k \in S : m <= k
<1>1. PICK m \in S : \A k \in S : ~ (<<k, m>> \in OpToRel(<, Nat))
  BY NatLessThanWellFounded, WFMin
<1>2. \A k \in S : ~(k < m)
  BY <1>1 DEF OpToRel
<1> QED
  BY <1>2

\* The induction principle of the natural numbers, for a predicate given as a set.
LEMMA Induction ==
  ASSUME NEW S, 0 \in S, \A n \in Nat : n \in S => n + 1 \in S
  PROVE  Nat \subseteq S
<1> DEFINE Rest == Nat \ S
<1> SUFFICES ASSUME Rest # {} PROVE FALSE
  OBVIOUS
<1>1. PICK m \in Rest : \A k \in Rest : m <= k
  BY LeastNumber
<1>2. m # 0 /\ m - 1 \in Nat /\ m - 1 \notin Rest
  BY <1>1
<1> QED
  BY <1>2

\* Induction up to a bound.
LEMMA BoundedInduction ==
  ASSUME NEW n \in Nat, NEW S, 0 \in S, \A k \in 0..n : k \in S /\ k < n => k + 1 \in S
  PROVE  0..n \subseteq S
<1> DEFINE P == {k \in Nat : k <= n => k \in S}
<1>1. 0 \in P
  OBVIOUS
<1>2. \A k \in Nat : k \in P => k + 1 \in P
  OBVIOUS
<1>3. Nat \subseteq P
  <2> HIDE DEF P
  <2> QED
    BY <1>1, <1>2, Induction
<1> QED
  BY <1>3

\* Max of a finite set of positions is one of them and no less than any.
LEMMA GreatestExists ==
  ASSUME NEW n \in Nat, NEW T \in SUBSET (1..n), T # {}
  PROVE  Max(T) \in T /\ \A y \in T : Max(T) >= y
<1> DEFINE S == {k \in 0..n : n - k \in T}
<1>1. PICK t \in T : t \in 1..n
  OBVIOUS
<1>2. n - t \in S
  <2>1. n - (n - t) = t /\ n - t \in 0..n
    BY <1>1
  <2> QED
    BY <1>1, <2>1
<1>3. PICK m \in S : \A k \in S : m <= k
  <2>1. S \in SUBSET Nat
    OBVIOUS
  <2> HIDE DEF S
  <2> QED
    BY <1>2, <2>1, LeastNumber
<1>4. ASSUME NEW y \in T PROVE n - m >= y
  <2>1. y \in 1..n /\ n - (n - y) = y /\ n - y \in 0..n
    OBVIOUS
  <2>2. m <= n - y
    BY <1>3, <2>1
  <2> QED
    BY <2>1, <2>2
<1>5. n - m \in T
  OBVIOUS
<1> QED
  BY <1>4, <1>5 DEF Max

\* The last of n positions is n.
LEMMA GreatestOfRange ==
  ASSUME NEW n \in Nat \ {0}
  PROVE  Max(1..n) = n
<1>1. 1..n \in SUBSET (1..n) /\ 1..n # {} /\ n \in 1..n
  OBVIOUS
<1>2. Max(1..n) \in 1..n /\ Max(1..n) >= n
  BY <1>1, GreatestExists
<1> QED
  BY <1>2

\* g folds step over the positions up to n, taken from the greatest down.
IsFold(g, n, base, step) ==
  \A T \in SUBSET (1..n) :
    g[T] = IF T = {} THEN base ELSE step[<<Max(T), g[T \ {Max(T)}]>>]

\* Such a fold is well defined.
LEMMA FoldExists ==
  ASSUME NEW n \in Nat, NEW V, NEW base \in V, NEW step \in [(1..n) \X V -> V]
  PROVE  \E g \in [SUBSET (1..n) -> V] : IsFold(g, n, base, step)
<1> DEFINE Fold(g, m) ==
             \A T \in SUBSET (1..m) :
               g[T] = IF T = {} THEN base ELSE step[<<Max(T), g[T \ {Max(T)}]>>]
           S == {m \in 0..n : \E g \in [SUBSET (1..m) -> V] : Fold(g, m)}
<1>1. 0 \in S
  <2> DEFINE g == [T \in SUBSET (1..0) |-> base]
  <2>1. \A T \in SUBSET (1..0) : T = {}
    OBVIOUS
  <2>2. g \in [SUBSET (1..0) -> V] /\ Fold(g, 0)
    BY <2>1
  <2>3. 0 \in 0..n
    OBVIOUS
  <2> QED
    BY <2>2, <2>3
<1>2. ASSUME NEW m \in 0..n, m \in S, m < n
      PROVE  m + 1 \in S
  <2>1. PICK g \in [SUBSET (1..m) -> V] : Fold(g, m)
    BY <1>2
  <2> DEFINE h == [T \in SUBSET (1..(m + 1)) |->
                     IF m + 1 \in T THEN step[<<m + 1, g[T \ {m + 1}]>>] ELSE g[T]]
  <2>2. \A T \in SUBSET (1..(m + 1)) : T \ {m + 1} \in SUBSET (1..m)
    OBVIOUS
  <2>3. \A T \in SUBSET (1..(m + 1)) : m + 1 \notin T => T \in SUBSET (1..m)
    BY <2>2
  <2>4. m + 1 \in 1..n
    BY <1>2
  <2>5. h \in [SUBSET (1..(m + 1)) -> V]
    BY <2>2, <2>3, <2>4
  <2>6. ASSUME NEW T \in SUBSET (1..(m + 1))
        PROVE  h[T] = IF T = {} THEN base ELSE step[<<Max(T), h[T \ {Max(T)}]>>]
    <3>1. CASE m + 1 \in T
      <4>1. Max(T) = m + 1
        <5>1. m + 1 \in Nat /\ T # {}
          BY <3>1
        <5>2. Max(T) \in T /\ Max(T) >= m + 1
          BY <3>1, <5>1, GreatestExists
        <5>3. Max(T) \in 1..(m + 1)
          BY <5>2
        <5> QED
          BY <5>2, <5>3
      <4>2. T \ {m + 1} \in SUBSET (1..(m + 1)) /\ m + 1 \notin T \ {m + 1}
        OBVIOUS
      <4>3. h[T \ {m + 1}] = g[T \ {m + 1}]
        BY <4>2
      <4>4. h[T] = step[<<m + 1, g[T \ {m + 1}]>>]
        BY <3>1
      <4> QED
        BY <3>1, <4>1, <4>3, <4>4
    <3>2. CASE m + 1 \notin T
      <4>1. T \in SUBSET (1..m) /\ h[T] = g[T]
        BY <2>3, <3>2
      <4>2. CASE T = {}
        BY <2>1, <4>1, <4>2
      <4>3. CASE T # {}
        <5>1. g[T] = step[<<Max(T), g[T \ {Max(T)}]>>]
          BY <2>1, <4>1, <4>3
        <5>2. h[T \ {Max(T)}] = g[T \ {Max(T)}]
          <6>1. T \ {Max(T)} \in SUBSET (1..(m + 1)) /\ m + 1 \notin T \ {Max(T)}
            BY <3>2
          <6> QED
            BY <6>1
        <5> HIDE DEF h
        <5> QED
          BY <4>1, <4>3, <5>1, <5>2
      <4> QED
        BY <4>2, <4>3
    <3> QED
      BY <3>1, <3>2
  <2>7. m + 1 \in 0..n
    BY <1>2
  <2> HIDE DEF h
  <2> QED
    BY <2>5, <2>6, <2>7
<1>3. n \in S
  <2>1. \A k \in 0..n : k \in S /\ k < n => k + 1 \in S
    BY <1>2
  <2> HIDE DEF S
  <2>2. 0..n \subseteq S
    BY <1>1, <2>1, BoundedInduction
  <2> QED
    BY <2>2
<1> QED
  BY <1>3 DEF IsFold

\* The positions the turns of such a fold take.
LEMMA Turn ==
  ASSUME NEW n \in Nat, NEW k \in 1..n
  PROVE  /\ 1..k \in SUBSET (1..n) /\ 1..k # {}
         /\ Max(1..k) = k /\ (1..k) \ {Max(1..k)} = 1..(k - 1)
<1>1. Max(1..k) = k
  BY GreatestOfRange
<1> QED
  BY <1>1

-----------------------------------------------------------------------------
(* The folds of the full-tree readers.                                      *)

Objects(arr) == {i \in DOMAIN arr : IsObject(arr[i])}
EventSet(reader, arr) == {Event(reader, arr[i].obj) : i \in Objects(arr)}
StageSet(reader, arr) ==
  [staging  : Seq(EventSet(reader, arr)),
   metadata : Seq({MetadataEvent(reader, arr[i].obj) : i \in Objects(arr)})]

\* h is the history of the staging pass.
StageHistory(h, reader, arr) ==
  /\ h \in [0..Len(arr) -> StageSet(reader, arr)]
  /\ h[0] = StageStart
  /\ \A k \in 1..Len(arr) : h[k] = Stage(reader, h[k - 1], arr[k])

\* One turn of the staging loop keeps the types of what was staged.
LEMMA StageTurn ==
  ASSUME NEW reader, NEW arr, NEW i \in DOMAIN arr, NEW st \in StageSet(reader, arr)
  PROVE  Stage(reader, st, arr[i]) \in StageSet(reader, arr)
<1> DEFINE E == EventSet(reader, arr)
           M == {MetadataEvent(reader, arr[j].obj) : j \in Objects(arr)}
<1>1. IsObject(arr[i]) => Event(reader, arr[i].obj) \in E /\ MetadataEvent(reader, arr[i].obj) \in M
  BY DEF EventSet, Objects
<1>2. st \in [staging : Seq(E), metadata : Seq(M)]
  BY DEF StageSet
<1> HIDE DEF E, M
<1>3. Stage(reader, st, arr[i]) \in [staging : Seq(E), metadata : Seq(M)]
  <2>1. \A e \in E : [st EXCEPT !.staging = Append(@, e)] \in [staging : Seq(E), metadata : Seq(M)]
    BY <1>2
  <2>2. \A m \in M : [st EXCEPT !.metadata = Append(@, m)] \in [staging : Seq(E), metadata : Seq(M)]
    BY <1>2
  <2> QED
    BY <1>1, <1>2, <2>1, <2>2 DEF Stage
<1> QED
  BY <1>3 DEF StageSet, E, M

\* The staging loop of the full-tree readers has a history.
LEMMA StagedHistory ==
  ASSUME NEW reader, NEW arr, arr \in Seq(ToSet(arr))
  PROVE  \E h : StageHistory(h, reader, arr) /\ Staged(reader, arr) = h[Len(arr)]
<1> DEFINE n == Len(arr)
           V == StageSet(reader, arr)
           step == [p \in (1..n) \X V |-> Stage(reader, p[2], arr[p[1]])]
           Eqn(g) == g = [T \in SUBSET DOMAIN arr |->
                            IF T = {} THEN StageStart
                            ELSE Stage(reader, g[T \ {Max(T)}], arr[Max(T)])]
           iter == CHOOSE g : Eqn(g)
           h == [k \in 0..n |-> iter[1..k]]
<1>1. n \in Nat /\ DOMAIN arr = 1..n
  OBVIOUS
<1>2. StageStart \in V
  BY DEF StageStart, StageSet
<1>3. step \in [(1..n) \X V -> V]
  BY <1>1, StageTurn
<1>4. Staged(reader, arr) = iter[DOMAIN arr]
  BY DEF Staged, FoldLeft, MapThenFoldSet
<1>5. \A T \in SUBSET (1..n) : T # {} => Max(T) \in 1..n /\ T \ {Max(T)} \in SUBSET (1..n)
  BY <1>1, GreatestExists
<1>7. PICK g \in [SUBSET (1..n) -> V] : IsFold(g, n, StageStart, step)
  <2> HIDE DEF n, V, step, iter
  <2> QED
    BY <1>1, <1>2, <1>3, FoldExists
<1>8. Eqn(g)
  <2>1. \A T \in SUBSET (1..n) :
          g[T] = IF T = {} THEN StageStart
                 ELSE Stage(reader, g[T \ {Max(T)}], arr[Max(T)])
    BY <1>5, <1>7 DEF IsFold
  <2>2. g = [T \in SUBSET (1..n) |-> g[T]]
    BY <1>7
  <2> QED
    BY <1>1, <2>1, <2>2
<1>9. Eqn(iter)
  BY <1>8
<1>10. h[0] = StageStart /\ h[n] = iter[DOMAIN arr]
  <2>1. 1..0 = {} /\ 0 \in 0..n /\ n \in 0..n
    BY <1>1
  <2> HIDE DEF iter
  <2> QED
    BY <1>1, <1>9, <2>1
<1>11. ASSUME NEW k \in 1..n PROVE h[k] = Stage(reader, h[k - 1], arr[k])
  <2>1. k \in 0..n /\ k - 1 \in 0..n
    BY <1>1
  <2>2. 1..k \in SUBSET DOMAIN arr /\ 1..k # {} /\ Max(1..k) = k /\ (1..k) \ {Max(1..k)} = 1..(k - 1)
    BY <1>1, Turn
  <2>3. iter[1..k] = Stage(reader, iter[(1..k) \ {Max(1..k)}], arr[Max(1..k)])
    <3> HIDE DEF iter
    <3> QED
      BY <1>9, <2>2
  <2> HIDE DEF iter
  <2> QED
    BY <2>1, <2>2, <2>3
<1>12. \A k \in 0..n : h[k] \in V
  <2> DEFINE S == {k \in 0..n : h[k] \in V}
  <2>1. 0 \in S
    BY <1>1, <1>2, <1>10
  <2>2. ASSUME NEW k \in 0..n, k \in S, k < n PROVE k + 1 \in S
    <3>1. k + 1 \in 1..n /\ k + 1 \in 0..n /\ (k + 1) - 1 = k /\ h[k] \in V
      BY <1>1, <2>2
    <3> HIDE DEF h, V
    <3>2. h[k + 1] \in V
      BY <1>1, <1>11, <3>1, StageTurn DEF V
    <3> QED
      BY <3>1, <3>2
  <2> HIDE DEF S, h
  <2>3. 0..n \subseteq S
    BY <1>1, <2>1, <2>2, BoundedInduction
  <2> QED
    BY <2>3 DEF S
<1> QED
  <2> HIDE DEF iter
  <2> QED
    BY <1>4, <1>10, <1>11, <1>12 DEF StageHistory

\* What the staging loop ends with: events and metadata records of the elements.
LEMMA StagedType ==
  ASSUME NEW reader, NEW arr, arr \in Seq(ToSet(arr))
  PROVE  Staged(reader, arr) \in StageSet(reader, arr)
<1>1. PICK h : StageHistory(h, reader, arr) /\ Staged(reader, arr) = h[Len(arr)]
  BY StagedHistory
<1>2. Len(arr) \in 0..Len(arr)
  OBVIOUS
<1> QED
  BY <1>1, <1>2 DEF StageHistory

\* The laws of the staging pass: it starts from nothing, and one more element
\* is one more turn.
LEMMA StagedLaws ==
  /\ \A reader : Staged(reader, <<>>) = StageStart
  /\ \A reader, arr, v :
       arr \in Seq(ToSet(arr)) =>
         Staged(reader, Append(arr, v)) = Stage(reader, Staged(reader, arr), v)
<1>1. ASSUME NEW reader PROVE Staged(reader, <<>>) = StageStart
  <2>1. <<>> \in Seq(ToSet(<<>>)) /\ Len(<<>>) = 0
    OBVIOUS
  <2> QED
    BY <2>1, StagedHistory DEF StageHistory
<1>2. ASSUME NEW reader, NEW arr, NEW v, arr \in Seq(ToSet(arr))
      PROVE  Staged(reader, Append(arr, v)) = Stage(reader, Staged(reader, arr), v)
  <2> DEFINE n == Len(arr)
             more == Append(arr, v)
  <2>1. arr \in Seq(ToSet(arr) \cup {v})
    BY <1>2 DEF ToSet
  <2>2. /\ more \in Seq(ToSet(arr) \cup {v})
        /\ Len(more) = n + 1 /\ n \in Nat /\ more[n + 1] = v
        /\ \A i \in 1..n : more[i] = arr[i]
    BY <2>1
  <2>3. more \in Seq(ToSet(more))
    BY <2>2 DEF ToSet
  <2>4. PICK h : StageHistory(h, reader, arr) /\ Staged(reader, arr) = h[n]
    BY <1>2, StagedHistory
  <2>5. PICK g : StageHistory(g, reader, more) /\ Staged(reader, more) = g[Len(more)]
    BY <2>3, StagedHistory
  <2> HIDE DEF more
  <2> DEFINE S == {k \in 0..n : g[k] = h[k]}
  <2>6. 0..n \subseteq S
    <3>1. 0 \in S
      BY <2>2, <2>4, <2>5 DEF StageHistory
    <3>2. ASSUME NEW k \in 0..n, k \in S, k < n PROVE k + 1 \in S
      <4>1. k + 1 \in 1..n /\ (k + 1) - 1 = k /\ g[k] = h[k]
        BY <2>2, <3>2
      <4>2. h[k + 1] = Stage(reader, h[k], arr[k + 1])
        BY <2>4, <4>1 DEF StageHistory
      <4>3. g[k + 1] = Stage(reader, g[k], more[k + 1])
        <5>1. k + 1 \in 1..Len(more)
          BY <2>2, <4>1
        <5> QED
          BY <2>5, <4>1, <5>1 DEF StageHistory
      <4> QED
        BY <2>2, <4>1, <4>2, <4>3
    <3> HIDE DEF S
    <3> QED
      BY <2>2, <3>1, <3>2, BoundedInduction
  <2>7. g[n] = h[n]
    <3>1. n \in 0..n
      BY <2>2
    <3> QED
      BY <2>6, <3>1
  <2>8. g[n + 1] = Stage(reader, g[n], v)
    <3>1. n + 1 \in 1..Len(more) /\ (n + 1) - 1 = n
      BY <2>2
    <3> QED
      BY <2>2, <2>5, <3>1 DEF StageHistory
  <2> QED
    BY <2>2, <2>4, <2>5, <2>7, <2>8 DEF more
<1> QED
  BY <1>1, <1>2

-----------------------------------------------------------------------------
(* Filling the streams.                                                     *)

\* Streams with keys among K and events among E.
StreamSet(K, E) == UNION {[D -> Seq(E)] : D \in SUBSET K}
Keys(E) == {KeyOf(e) : e \in E}

\* Membership in StreamSet, without the union over the domains.
LEMMA StreamsAreFunctions ==
  ASSUME NEW K, NEW E, NEW streams
  PROVE  streams \in StreamSet(K, E) <=>
           /\ streams = [k \in DOMAIN streams |-> streams[k]]
           /\ DOMAIN streams \subseteq K
           /\ \A k \in DOMAIN streams : streams[k] \in Seq(E)
<1>1. ASSUME streams \in StreamSet(K, E)
      PROVE  /\ streams = [k \in DOMAIN streams |-> streams[k]]
             /\ DOMAIN streams \subseteq K
             /\ \A k \in DOMAIN streams : streams[k] \in Seq(E)
  <2>1. PICK D \in SUBSET K : streams \in [D -> Seq(E)]
    BY <1>1 DEF StreamSet
  <2> QED
    BY <2>1
<1>2. ASSUME streams = [k \in DOMAIN streams |-> streams[k]], DOMAIN streams \subseteq K,
             \A k \in DOMAIN streams : streams[k] \in Seq(E)
      PROVE  streams \in StreamSet(K, E)
  <2>1. streams \in [DOMAIN streams -> Seq(E)]
    BY <1>2
  <2> QED
    BY <1>2, <2>1 DEF StreamSet
<1> QED
  BY <1>1, <1>2

\* The empty map of streams has every type of streams.
LEMMA NoStreamsType ==
  /\ DOMAIN NoStreams = {}
  /\ \A K, E : NoStreams \in StreamSet(K, E)
<1>1. NoStreams = [k \in DOMAIN NoStreams |-> NoStreams[k]] /\ DOMAIN NoStreams = {}
  BY DEF NoStreams
<1> QED
  BY <1>1, StreamsAreFunctions

\* `entry(..).or_default()`: the stream that is there, or an empty one.
LEMMA StreamOrNothing ==
  ASSUME NEW K, NEW E, NEW streams \in StreamSet(K, E), NEW k
  PROVE  /\ UnwrapOr(Get(streams, k), <<>>) \in Seq(E)
         /\ k \in DOMAIN streams => UnwrapOr(Get(streams, k), <<>>) = streams[k]
         /\ k \notin DOMAIN streams => UnwrapOr(Get(streams, k), <<>>) = <<>>
<1>1. \A x : <<x>> # <<>> /\ <<x>>[1] = x
  OBVIOUS
<1>2. <<>> \in Seq(E)
  OBVIOUS
<1> QED
  BY <1>1, <1>2, StreamsAreFunctions DEF UnwrapOr, Get, None, Some

\* Streams over a smaller set of keys and events are streams over a larger one.
LEMMA StreamsGrow ==
  ASSUME NEW K1, NEW E1, NEW K2, NEW E2, NEW streams \in StreamSet(K1, E1),
         K1 \subseteq K2, E1 \subseteq E2
  PROVE  streams \in StreamSet(K2, E2)
<1>1. /\ streams = [k \in DOMAIN streams |-> streams[k]] /\ DOMAIN streams \subseteq K1
      /\ \A k \in DOMAIN streams : streams[k] \in Seq(E1)
  BY StreamsAreFunctions
<1>2. \A q \in Seq(E1) : q \in Seq(E2)
  OBVIOUS
<1>3. DOMAIN streams \subseteq K2 /\ \A k \in DOMAIN streams : streams[k] \in Seq(E2)
  BY <1>1, <1>2
<1> QED
  BY <1>1, <1>3, StreamsAreFunctions

\* Pushing an event keeps the type of the streams.
LEMMA PushType ==
  ASSUME NEW K, NEW E, NEW streams \in StreamSet(K, E), NEW e \in E, KeyOf(e) \in K
  PROVE  Push(streams, e) \in StreamSet(K, E)
<1>1. Append(UnwrapOr(Get(streams, KeyOf(e)), <<>>), e) \in Seq(E)
  BY StreamOrNothing
<1>2. DOMAIN streams \subseteq K /\ \A k \in DOMAIN streams : streams[k] \in Seq(E)
  BY StreamsAreFunctions
<1> DEFINE pushed == Push(streams, e)
<1>3. /\ pushed = [k \in DOMAIN pushed |-> pushed[k]] /\ DOMAIN pushed \subseteq K
      /\ \A k \in DOMAIN pushed : pushed[k] \in Seq(E)
  BY <1>1, <1>2 DEF Push
<1> HIDE DEF pushed
<1>4. pushed \in StreamSet(K, E)
  BY <1>3, StreamsAreFunctions
<1> QED
  BY <1>4 DEF pushed

ShiftedSet(staging, startTs) == {Shifted(staging[i], startTs) : i \in DOMAIN staging}

\* p is the history of PushAll.
PushHistory(p, staging, startTs) ==
  LET E == ShiftedSet(staging, startTs) IN
  /\ p \in [0..Len(staging) -> StreamSet(Keys(E), E)]
  /\ p[0] = NoStreams
  /\ \A k \in 1..Len(staging) : p[k] = Push(p[k - 1], Shifted(staging[k], startTs))

\* The loop that fills the streams from the staging area has a history.
LEMMA PushAllHistory ==
  ASSUME NEW staging, staging \in Seq(ToSet(staging)), NEW startTs
  PROVE  \E p : PushHistory(p, staging, startTs) /\ PushAll(staging, startTs) = p[Len(staging)]
<1> DEFINE n == Len(staging)
           E == ShiftedSet(staging, startTs)
           V == StreamSet(Keys(E), E)
           step == [p \in (1..n) \X V |-> Push(p[2], Shifted(staging[p[1]], startTs))]
           Eqn(g) == g = [T \in SUBSET DOMAIN staging |->
                            IF T = {} THEN NoStreams
                            ELSE Push(g[T \ {Max(T)}], Shifted(staging[Max(T)], startTs))]
           iter == CHOOSE g : Eqn(g)
           h == [k \in 0..n |-> iter[1..k]]
<1>1. n \in Nat /\ DOMAIN staging = 1..n
  OBVIOUS
<1>2. NoStreams \in V
  BY NoStreamsType
<1>3. \A k \in 1..n, x \in V : Push(x, Shifted(staging[k], startTs)) \in V
  <2> SUFFICES ASSUME NEW k \in 1..n, NEW x \in V
               PROVE  Push(x, Shifted(staging[k], startTs)) \in V
    OBVIOUS
  <2>1. Shifted(staging[k], startTs) \in E
    BY <1>1 DEF ShiftedSet
  <2>2. KeyOf(Shifted(staging[k], startTs)) \in Keys(E)
    <3> HIDE DEF E
    <3> QED
      BY <2>1 DEF Keys
  <2> HIDE DEF E
  <2> QED
    BY <2>1, <2>2, PushType
<1>4. step \in [(1..n) \X V -> V]
  <2> HIDE DEF V
  <2> QED
    BY <1>3
<1>5. PushAll(staging, startTs) = iter[DOMAIN staging]
  BY DEF PushAll, FoldLeft, MapThenFoldSet
<1>6. \A T \in SUBSET (1..n) : T # {} => Max(T) \in 1..n /\ T \ {Max(T)} \in SUBSET (1..n)
  BY <1>1, GreatestExists
<1>7. PICK g \in [SUBSET (1..n) -> V] : IsFold(g, n, NoStreams, step)
  <2> HIDE DEF n, V, step, iter
  <2> QED
    BY <1>1, <1>2, <1>4, FoldExists
<1>8. Eqn(g)
  <2> HIDE DEF V
  <2>1. \A T \in SUBSET (1..n) :
          g[T] = IF T = {} THEN NoStreams
                 ELSE Push(g[T \ {Max(T)}], Shifted(staging[Max(T)], startTs))
    BY <1>6, <1>7 DEF IsFold
  <2>2. g = [T \in SUBSET (1..n) |-> g[T]]
    BY <1>7
  <2> QED
    BY <1>1, <2>1, <2>2
<1>9. Eqn(iter)
  BY <1>8
<1>10. h[0] = NoStreams /\ h[n] = iter[DOMAIN staging]
  <2>1. 1..0 = {} /\ 0 \in 0..n /\ n \in 0..n
    BY <1>1
  <2> HIDE DEF iter
  <2> QED
    BY <1>1, <1>9, <2>1
<1>11. ASSUME NEW k \in 1..n PROVE h[k] = Push(h[k - 1], Shifted(staging[k], startTs))
  <2>1. k \in 0..n /\ k - 1 \in 0..n
    BY <1>1
  <2>2. /\ 1..k \in SUBSET DOMAIN staging /\ 1..k # {}
        /\ Max(1..k) = k /\ (1..k) \ {Max(1..k)} = 1..(k - 1)
    BY <1>1, Turn
  <2>3. iter[1..k] = Push(iter[(1..k) \ {Max(1..k)}], Shifted(staging[Max(1..k)], startTs))
    <3> HIDE DEF iter
    <3> QED
      BY <1>9, <2>2
  <2> HIDE DEF iter
  <2> QED
    BY <2>1, <2>2, <2>3
<1>12. \A k \in 0..n : h[k] \in V
  <2> DEFINE S == {k \in 0..n : h[k] \in V}
  <2>1. 0 \in S
    BY <1>1, <1>2, <1>10
  <2>2. ASSUME NEW k \in 0..n, k \in S, k < n PROVE k + 1 \in S
    <3>1. k + 1 \in 1..n /\ k + 1 \in 0..n /\ (k + 1) - 1 = k /\ h[k] \in V
      BY <1>1, <2>2
    <3> HIDE DEF h, V
    <3>2. h[k + 1] \in V
      BY <1>1, <1>3, <1>11, <3>1
    <3> QED
      BY <3>1, <3>2
  <2> HIDE DEF S, h
  <2>3. 0..n \subseteq S
    BY <1>1, <2>1, <2>2, BoundedInduction
  <2> QED
    BY <2>3 DEF S
<1> QED
  <2> HIDE DEF iter
  <2>1. h \in [0..n -> V]
    BY <1>12
  <2>2. n \in 0..n
    BY <1>1
  <2>3. PushHistory(h, staging, startTs)
    <3> HIDE DEF h
    <3> QED
      BY <1>10, <1>11, <2>1 DEF PushHistory
  <2> QED
    BY <1>5, <1>10, <2>3

\* What that loop ends with: streams of the shifted events.
LEMMA PushAllType ==
  ASSUME NEW staging, staging \in Seq(ToSet(staging)), NEW startTs
  PROVE  LET E == ShiftedSet(staging, startTs)
         IN  PushAll(staging, startTs) \in StreamSet(Keys(E), E)
<1>1. PICK p : PushHistory(p, staging, startTs) /\ PushAll(staging, startTs) = p[Len(staging)]
  BY PushAllHistory
<1>2. Len(staging) \in 0..Len(staging)
  OBVIOUS
<1> QED
  BY <1>1, <1>2 DEF PushHistory

\* The laws of PushAll, as those of Staged.
LEMMA PushAllLaws ==
  /\ \A startTs : PushAll(<<>>, startTs) = NoStreams
  /\ \A staging, startTs, e :
       staging \in Seq(ToSet(staging)) =>
         PushAll(Append(staging, e), startTs) = Push(PushAll(staging, startTs), Shifted(e, startTs))
<1>1. ASSUME NEW startTs PROVE PushAll(<<>>, startTs) = NoStreams
  <2>1. <<>> \in Seq(ToSet(<<>>)) /\ Len(<<>>) = 0
    OBVIOUS
  <2>2. PICK p : PushHistory(p, <<>>, startTs) /\ PushAll(<<>>, startTs) = p[Len(<<>>)]
    BY <2>1, PushAllHistory
  <2> QED
    BY <2>1, <2>2 DEF PushHistory
<1>2. ASSUME NEW staging, NEW startTs, NEW e, staging \in Seq(ToSet(staging))
      PROVE  PushAll(Append(staging, e), startTs)
               = Push(PushAll(staging, startTs), Shifted(e, startTs))
  <2> DEFINE n == Len(staging)
             more == Append(staging, e)
  <2>1. staging \in Seq(ToSet(staging) \cup {e})
    BY <1>2 DEF ToSet
  <2>2. /\ more \in Seq(ToSet(staging) \cup {e})
        /\ Len(more) = n + 1 /\ n \in Nat /\ more[n + 1] = e
        /\ \A i \in 1..n : more[i] = staging[i]
    BY <2>1
  <2>3. more \in Seq(ToSet(more))
    BY <2>2 DEF ToSet
  <2>4. PICK h : PushHistory(h, staging, startTs) /\ PushAll(staging, startTs) = h[n]
    BY <1>2, PushAllHistory
  <2> HIDE DEF more
  <2>5. PICK g : PushHistory(g, more, startTs) /\ PushAll(more, startTs) = g[Len(more)]
    BY <2>3, PushAllHistory
  <2>6. /\ g[0] = h[0]
        /\ \A k \in 1..n : h[k] = Push(h[k - 1], Shifted(staging[k], startTs))
        /\ \A k \in 1..(n + 1) : g[k] = Push(g[k - 1], Shifted(more[k], startTs))
    BY <2>2, <2>4, <2>5 DEF PushHistory
  <2> DEFINE S == {k \in 0..n : g[k] = h[k]}
  <2>7. 0..n \subseteq S
    <3>1. 0 \in S
      BY <2>2, <2>6
    <3>2. ASSUME NEW k \in 0..n, k \in S, k < n PROVE k + 1 \in S
      <4>1. k + 1 \in 1..n /\ k + 1 \in 1..(n + 1) /\ (k + 1) - 1 = k /\ g[k] = h[k]
        BY <2>2, <3>2
      <4> QED
        BY <2>2, <2>6, <4>1
    <3> HIDE DEF S
    <3> QED
      BY <2>2, <3>1, <3>2, BoundedInduction
  <2>8. n \in 0..n /\ n + 1 \in 1..(n + 1) /\ (n + 1) - 1 = n
    BY <2>2
  <2> QED
    BY <2>2, <2>4, <2>5, <2>6, <2>7, <2>8 DEF more
<1> QED
  BY <1>1, <1>2

-----------------------------------------------------------------------------
(* Integers of 64 bits.                                                     *)

\* `as i64` ends in an i64 and leaves an i64 alone.
LEMMA Wrapped ==
  /\ \A n \in Int : Wrap64(n) \in Int64
  /\ \A n \in Int64 : Wrap64(n) = n
<1> DEFINE w == 2 * (MaxInt64 + 1)
<1>1. MaxInt64 \in Nat \ {0} /\ w \in Nat /\ w > 0
  BY MaxInt64Assumption
<1>2. ASSUME NEW n \in Int PROVE Wrap64(n) \in Int64
  <2>1. (n + MaxInt64 + 1) % w \in 0..(w - 1)
    BY <1>1
  <2> QED
    BY <1>1, <2>1 DEF Wrap64, Int64
<1>3. ASSUME NEW n \in Int64 PROVE Wrap64(n) = n
  <2>1. n \in Int /\ n + MaxInt64 + 1 \in 0..(w - 1)
    BY <1>1 DEF Int64
  <2>2. (n + MaxInt64 + 1) % w = n + MaxInt64 + 1
    <3> HIDE DEF w
    <3> QED
      BY <1>1, <2>1
  <2> QED
    BY <1>1, <2>1, <2>2 DEF Wrap64
<1> QED
  BY <1>2, <1>3

\* A float saturates to an i64.
LEMMA Saturated == \A n \in Int : Saturate64(n) \in Int64
BY MaxInt64Assumption DEF Saturate64, Int64

\* A truncated float is an i64.
LEMMA TruncatedType == \A h \in Int : Truncated(h) \in Int64
<1>1. \A h \in Int : h \div 2 \in Int /\ (-h) \div 2 \in Int
  OBVIOUS
<1> QED
  BY <1>1, Saturated DEF Truncated

\* An optional value of 64 bits.
Opt64 == {None} \cup {Some(n) : n \in Int64}
AllReaders == {"simd", "serde", "stream"}

\* Option: Some is not None, and what each of its readers returns.
LEMMA Options ==
  /\ \A x : Some(x) # None /\ Some(x)[1] = x
  /\ \A x, d : UnwrapOr(Some(x), d) = x
  /\ \A d : UnwrapOr(None, d) = d
  /\ \A a : OrElse(None, a) = a
  /\ \A x, a : OrElse(Some(x), a) = Some(x)
<1>1. \A x : <<x>> # <<>> /\ <<x>>[1] = x
  OBVIOUS
<1> QED
  BY <1>1 DEF Some, None, UnwrapOr, OrElse

\* parse::<i64> returns an i64 or nothing.
LEMMA ParsedType == \A text : ParseI64(text) \in Opt64
<1> SUFFICES ASSUME NEW text PROVE ParseI64(text) \in Opt64
  OBVIOUS
<1> DEFINE Readings == {n \in Int64 : text = Text(n) \/ text = <<"0">> \o Text(n)}
<1>1. ParseI64(text) = IF Readings = {} THEN None ELSE Some(CHOOSE n \in Readings : TRUE)
  BY Zenon DEF ParseI64
<1>2. Readings # {} => (CHOOSE n \in Readings : TRUE) \in Readings
  OBVIOUS
<1>3. Readings \subseteq Int64
  BY Zenon
<1> HIDE DEF Readings
<1> QED
  BY <1>1, <1>2, <1>3 DEF Opt64

\* Every reader's i64 field is an i64 or absent.
LEMMA LossyType ==
  ASSUME NEW reader \in AllReaders, NEW opt, opt = None \/ \E v : opt = Some(v) /\ IsNumeric(v)
  PROVE  LossyI64(reader, opt) \in Opt64
<1>1. AsI64(opt) \in Opt64
  BY DEF AsI64, Opt64
<1>2. AsF64Truncated(opt) \in Opt64
  BY TruncatedType, Options DEF AsF64Truncated, Opt64, IsNumeric
<1>3. SimdI64(opt) \in Opt64
  BY <1>1, <1>2 DEF SimdI64, OrElse
<1>4. StreamI64(opt) \in Opt64
  <2>1. CASE opt = None
    BY <2>1 DEF StreamI64, Opt64
  <2>2. CASE opt # None
    <3>1. PICK v : opt = Some(v) /\ IsNumeric(v) /\ opt[1] = v
      BY <2>2, Options
    <3>2. CASE Is(v, "int")
      <4>1. Wrap64(v.int) \in Int64
        BY <3>1, <3>2, Wrapped DEF IsNumeric
      <4>2. StreamI64(opt) = Some(Wrap64(v.int))
        BY <2>2, <3>1, <3>2 DEF StreamI64, Is
      <4> QED
        BY <4>1, <4>2 DEF Opt64
    <3>3. CASE Is(v, "flt")
      <4>1. StreamI64(opt) = AsF64Truncated(opt)
        BY <2>2, <3>1, <3>3 DEF StreamI64, Is
      <4> QED
        BY <1>2, <4>1
    <3>4. CASE Is(v, "str")
      <4>1. UnwrapOr(ParseI64(v.str), 0) \in Int64
        <5>1. ParseI64(v.str) \in Opt64 /\ 0 \in Int64
          BY ParsedType, MaxInt64Assumption DEF Int64
        <5> QED
          BY <5>1, Options DEF Opt64
      <4>2. StreamI64(opt) = Some(UnwrapOr(ParseI64(v.str), 0))
        BY <2>2, <3>1, <3>4 DEF StreamI64, Is
      <4> QED
        BY <4>1, <4>2 DEF Opt64
    <3>5. CASE Is(v, "bool")
      <4>1. StreamI64(opt) = Some(0) /\ 0 \in Int64
        BY <2>2, <3>1, <3>5, MaxInt64Assumption DEF StreamI64, Is, Int64
      <4> QED
        BY <4>1 DEF Opt64
    <3>6. CASE ~Is(v, "int") /\ ~Is(v, "flt") /\ ~Is(v, "str") /\ ~Is(v, "bool")
      BY <2>2, <3>1, <3>6 DEF StreamI64, Opt64
    <3> QED
      BY <3>2, <3>3, <3>4, <3>5, <3>6
  <2> QED
    BY <2>1, <2>2
<1> QED
  BY <1>1, <1>3, <1>4 DEF LossyI64, SerdeI64, AllReaders

\* The fields of an object are numeric where they are numbers.
NumericFields(obj) == \A f \in DOMAIN obj : IsNumeric(obj[f])

\* The timestamp of an event a reader builds is an i64.
LEMMA EventType ==
  ASSUME NEW reader \in AllReaders, NEW obj, NumericFields(obj)
  PROVE  Event(reader, obj).ts \in Int64
<1>1. LossyI64(reader, Get(obj, "ts")) \in Opt64
  BY LossyType DEF NumericFields, Get
<1>2. 0 \in Int64
  BY MaxInt64Assumption DEF Int64
<1> HIDE DEF NumericFields
<1>3. UnwrapOr(LossyI64(reader, Get(obj, "ts")), 0) \in Int64
  BY <1>1, <1>2, Options DEF Opt64
<1> QED
  BY <1>3 DEF Event

-----------------------------------------------------------------------------
(* What the readers have in common.                                         *)

Prefix(arr, k) == SubSeq(arr, 1, k)

\* The prefixes of a sequence, from none of it to all, one element at a time.
LEMMA PrefixLaws ==
  ASSUME NEW arr, arr \in Seq(ToSet(arr))
  PROVE  /\ Prefix(arr, 0) = <<>> /\ Prefix(arr, Len(arr)) = arr
         /\ \A k \in 0..Len(arr) : Prefix(arr, k) \in Seq(ToSet(Prefix(arr, k)))
         /\ \A k \in 0..Len(arr) :
              k < Len(arr) => Prefix(arr, k + 1) = Append(Prefix(arr, k), arr[k + 1])
<1> DEFINE n == Len(arr)
           S == ToSet(arr)
<1>1. arr \in Seq(S) /\ n \in Nat
  OBVIOUS
<1> HIDE DEF S
<1>2. Prefix(arr, 0) = <<>>
  BY <1>1 DEF Prefix
<1>3. Prefix(arr, n) = arr
  BY <1>1 DEF Prefix
<1>4. ASSUME NEW k \in 0..n PROVE Prefix(arr, k) \in Seq(ToSet(Prefix(arr, k)))
  <2> DEFINE p == Prefix(arr, k)
  <2>1. p \in Seq(S)
    BY <1>1 DEF Prefix
  <2> HIDE DEF p
  <2>2. p \in Seq(ToSet(p))
    BY <2>1 DEF ToSet
  <2> QED
    BY <2>2 DEF p
<1>5. ASSUME NEW k \in 0..n, k < n
      PROVE  Prefix(arr, k + 1) = Append(Prefix(arr, k), arr[k + 1])
  BY <1>1, <1>5 DEF Prefix
<1> QED
  BY <1>2, <1>3, <1>4, <1>5

\* What a property of every prefix needs: the empty one has it, and one more
\* element keeps it.
LEMMA PrefixInduction ==
  ASSUME NEW arr, arr \in Seq(ToSet(arr)), NEW S,
         0 \in S, \A k \in 0..Len(arr) : k \in S /\ k < Len(arr) => k + 1 \in S
  PROVE  \A k \in 0..Len(arr) : k \in S
<1>1. Len(arr) \in Nat
  OBVIOUS
<1> QED
  BY <1>1, BoundedInduction

\* The folds over a prefix.
LEMMA PrefixTurns ==
  ASSUME NEW arr, arr \in Seq(ToSet(arr)), NEW k \in 0..Len(arr), k < Len(arr)
  PROVE  /\ \A r : Staged(r, Prefix(arr, k + 1))
                     = Stage(r, Staged(r, Prefix(arr, k)), arr[k + 1])
         /\ \A t : PushAll(Prefix(arr, k + 1), t)
                     = Push(PushAll(Prefix(arr, k), t), Shifted(arr[k + 1], t))
<1> DEFINE p == Prefix(arr, k)
           x == arr[k + 1]
<1>1. p \in Seq(ToSet(p)) /\ Prefix(arr, k + 1) = Append(p, x)
  BY PrefixLaws
<1> HIDE DEF p, x
<1>2. ASSUME NEW r PROVE Staged(r, Prefix(arr, k + 1)) = Stage(r, Staged(r, p), x)
  <2>1. Staged(r, Append(p, x)) = Stage(r, Staged(r, p), x)
    BY <1>1, StagedLaws
  <2> QED
    BY <1>1, <2>1
<1>3. \A t : PushAll(Prefix(arr, k + 1), t) = Push(PushAll(p, t), Shifted(x, t))
  BY <1>1, PushAllLaws
<1> QED
  BY <1>2, <1>3 DEF p, x

\* AllReaders that build the same records of every element stage the same.
LEMMA StagedEqual ==
  ASSUME NEW r1, NEW r2, NEW arr, arr \in Seq(ToSet(arr)),
         \A i \in Objects(arr) : /\ Event(r1, arr[i].obj) = Event(r2, arr[i].obj)
                                 /\ MetadataEvent(r1, arr[i].obj) = MetadataEvent(r2, arr[i].obj)
  PROVE  Staged(r1, arr) = Staged(r2, arr)
<1> DEFINE n == Len(arr)
           S == {k \in 0..n : Staged(r1, Prefix(arr, k)) = Staged(r2, Prefix(arr, k))}
<1>1. n \in Nat /\ DOMAIN arr = 1..n
  OBVIOUS
<1>2. 0 \in S
  BY <1>1, PrefixLaws, StagedLaws
<1>3. ASSUME NEW k \in 0..n, k \in S, k < n PROVE k + 1 \in S
  <2>1. \A r : Staged(r, Prefix(arr, k + 1)) = Stage(r, Staged(r, Prefix(arr, k)), arr[k + 1])
    BY <1>3, PrefixTurns
  <2>2. \A st : Stage(r1, st, arr[k + 1]) = Stage(r2, st, arr[k + 1])
    <3>1. k + 1 \in DOMAIN arr
      BY <1>1, <1>3
    <3> QED
      BY <3>1 DEF Stage, Objects
  <2> QED
    BY <1>1, <1>3, <2>1, <2>2
<1> HIDE DEF S
<1>4. n \in S
  <2>1. n \in 0..n
    BY <1>1
  <2> QED
    BY <1>2, <1>3, <2>1, PrefixInduction
<1> QED
  BY <1>4, PrefixLaws DEF S

\* Whatever the reader, as many records are staged, with the same names.
SameNames(a, b) ==
  /\ Len(a.staging) = Len(b.staging) /\ Len(a.metadata) = Len(b.metadata)
  /\ \A i \in 1..Len(a.metadata) : a.metadata[i].name = b.metadata[i].name

\* Two readers stage the same number of events and the same metadata names.
LEMMA StagedAlike ==
  ASSUME NEW r1, NEW r2, NEW arr, arr \in Seq(ToSet(arr))
  PROVE  SameNames(Staged(r1, arr), Staged(r2, arr))
<1> DEFINE n == Len(arr)
           S == {k \in 0..n : SameNames(Staged(r1, Prefix(arr, k)), Staged(r2, Prefix(arr, k)))}
<1>1. n \in Nat /\ DOMAIN arr = 1..n
  OBVIOUS
<1>2. 0 \in S
  <2>1. SameNames(StageStart, StageStart)
    BY DEF SameNames, StageStart
  <2> QED
    BY <1>1, <2>1, PrefixLaws, StagedLaws
<1>3. ASSUME NEW k \in 0..n, k \in S, k < n PROVE k + 1 \in S
  <2> DEFINE a == Staged(r1, Prefix(arr, k))
             b == Staged(r2, Prefix(arr, k))
             v == arr[k + 1]
  <2>1. Prefix(arr, k) \in Seq(ToSet(Prefix(arr, k)))
    BY <1>3, PrefixLaws
  <2>2. \A r : Staged(r, Prefix(arr, k + 1)) = Stage(r, Staged(r, Prefix(arr, k)), v)
    BY <1>3, PrefixTurns
  <2>3. PICK E1, M1, E2, M2 : a \in [staging : Seq(E1), metadata : Seq(M1)]
                              /\ b \in [staging : Seq(E2), metadata : Seq(M2)]
    <3>1. a \in StageSet(r1, Prefix(arr, k)) /\ b \in StageSet(r2, Prefix(arr, k))
      BY <2>1, StagedType
    <3> QED
      BY <3>1 DEF StageSet
  <2>4. SameNames(a, b)
    BY <1>3
  <2> HIDE DEF a, b, v
  <2>5. SameNames(Stage(r1, a, v), Stage(r2, b, v))
    <3>1. CASE ~IsObject(v)
      BY <2>4, <3>1 DEF Stage
    <3>2. CASE IsObject(v) /\ IsMetadata(v.obj)
      <4> DEFINE x == MetadataEvent(r1, v.obj)
                 y == MetadataEvent(r2, v.obj)
      <4>1. x.name = y.name
        BY DEF MetadataEvent
      <4>2. /\ Stage(r1, a, v) = [a EXCEPT !.metadata = Append(@, x)]
            /\ Stage(r2, b, v) = [b EXCEPT !.metadata = Append(@, y)]
        BY <3>2 DEF Stage
      <4> HIDE DEF x, y
      <4>3. /\ Stage(r1, a, v).staging = a.staging
            /\ Stage(r2, b, v).staging = b.staging
            /\ Stage(r1, a, v).metadata = Append(a.metadata, x)
            /\ Stage(r2, b, v).metadata = Append(b.metadata, y)
        BY <2>3, <4>2
      <4>4. /\ a.metadata \in Seq(M1) /\ b.metadata \in Seq(M2)
            /\ Len(a.metadata) \in Nat /\ Len(a.metadata) = Len(b.metadata)
        BY <2>3, <2>4 DEF SameNames
      <4>5. /\ Len(Append(a.metadata, x)) = Len(a.metadata) + 1
            /\ Len(Append(b.metadata, y)) = Len(b.metadata) + 1
            /\ \A i \in 1..Len(a.metadata) : Append(a.metadata, x)[i] = a.metadata[i]
            /\ \A i \in 1..Len(a.metadata) : Append(b.metadata, y)[i] = b.metadata[i]
            /\ Append(a.metadata, x)[Len(a.metadata) + 1] = x
            /\ Append(b.metadata, y)[Len(a.metadata) + 1] = y
        BY <4>4
      <4> QED
        BY <2>4, <4>1, <4>3, <4>4, <4>5 DEF SameNames
    <3>3. CASE IsObject(v) /\ ~IsMetadata(v.obj)
      <4> DEFINE x == Event(r1, v.obj)
                 y == Event(r2, v.obj)
      <4>1. /\ Stage(r1, a, v) = [a EXCEPT !.staging = Append(@, x)]
            /\ Stage(r2, b, v) = [b EXCEPT !.staging = Append(@, y)]
        BY <3>3 DEF Stage
      <4> HIDE DEF x, y
      <4>2. /\ Stage(r1, a, v).metadata = a.metadata
            /\ Stage(r2, b, v).metadata = b.metadata
            /\ Stage(r1, a, v).staging = Append(a.staging, x)
            /\ Stage(r2, b, v).staging = Append(b.staging, y)
        BY <2>3, <4>1
      <4>3. /\ Len(Append(a.staging, x)) = Len(a.staging) + 1
            /\ Len(Append(b.staging, y)) = Len(b.staging) + 1
        BY <2>3
      <4> QED
        BY <2>4, <4>2, <4>3 DEF SameNames
    <3> QED
      BY <3>1, <3>2, <3>3
  <2> QED
    BY <1>1, <1>3, <2>2, <2>5 DEF a, b
<1> HIDE DEF S
<1>4. n \in S
  <2>1. n \in 0..n
    BY <1>1
  <2> QED
    BY <1>2, <1>3, <2>1, PrefixInduction
<1> QED
  BY <1>4, PrefixLaws DEF S

-----------------------------------------------------------------------------
(* Shifting the timestamps after the streams are filled, as the streaming   *)
(* reader does, or before, as the others do.                                *)

Rebased(streams, t) ==
  [k \in DOMAIN streams |-> [i \in DOMAIN streams[k] |-> Shifted(streams[k][i], t)]]

\* An event keeps its coordinates when its timestamp is shifted.
Shiftable(e) == Shifted(e, 0) = e /\ \A t : KeyOf(Shifted(e, t)) = KeyOf(e)

\* An event as built has a timestamp that a shift by 0 leaves alone.
LEMMA EventIsShiftable ==
  ASSUME NEW reader \in AllReaders, NEW obj, NumericFields(obj)
  PROVE  Shiftable(Event(reader, obj))
<1> DEFINE e == Event(reader, obj)
<1>1. e.ts \in Int64
  BY EventType
<1>2. PICK name, ts, dur, cat, ph, pid, tid, args :
        e = [name |-> name, ts |-> ts, dur |-> dur, cat |-> cat, ph |-> ph,
             pid |-> pid, tid |-> tid, args |-> args]
  BY DEF Event
<1> HIDE DEF e
<1>3. Wrap64(e.ts - 0) = e.ts
  BY <1>1, Wrapped, MaxInt64Assumption DEF Int64
<1>4. Shifted(e, 0) = e
  BY <1>2, <1>3 DEF Shifted
<1>5. \A t : KeyOf(Shifted(e, t)) = KeyOf(e)
  BY <1>2 DEF Shifted, KeyOf
<1> QED
  BY <1>4, <1>5 DEF Shiftable, e

\* Shifting a stream with one more event is shifting it and the event.
LEMMA ShiftedAppend ==
  ASSUME NEW E, NEW s \in Seq(E), NEW e \in E, NEW t
  PROVE  [i \in DOMAIN Append(s, e) |-> Shifted(Append(s, e)[i], t)]
           = Append([i \in DOMAIN s |-> Shifted(s[i], t)], Shifted(e, t))
<1> DEFINE F == {Shifted(x, t) : x \in E}
           l == [i \in DOMAIN Append(s, e) |-> Shifted(Append(s, e)[i], t)]
           m == [i \in DOMAIN s |-> Shifted(s[i], t)]
           r == Append(m, Shifted(e, t))
<1>1. Len(s) \in Nat /\ DOMAIN s = 1..Len(s) /\ \A i \in DOMAIN s : s[i] \in E
  OBVIOUS
<1>2. Append(s, e) \in Seq(E) /\ Len(Append(s, e)) = Len(s) + 1
  OBVIOUS
<1>3. \A i \in 1..(Len(s) + 1) : Append(s, e)[i] = IF i = Len(s) + 1 THEN e ELSE s[i]
  OBVIOUS
<1>4. m \in Seq(F) /\ Len(m) = Len(s) /\ Shifted(e, t) \in F
  BY <1>1
<1>5. r \in Seq(F) /\ Len(r) = Len(s) + 1
  <2> HIDE DEF m, F
  <2> QED
    BY <1>4
<1>6. \A i \in 1..(Len(s) + 1) : r[i] = IF i = Len(s) + 1 THEN Shifted(e, t) ELSE m[i]
  <2> HIDE DEF m, F
  <2> QED
    BY <1>1, <1>4
<1>7. r = [i \in 1..(Len(s) + 1) |-> r[i]]
  <2> HIDE DEF r
  <2> QED
    BY <1>1, <1>5
<1>8. \A i \in 1..(Len(s) + 1) : r[i] = Shifted(Append(s, e)[i], t)
  <2> SUFFICES ASSUME NEW i \in 1..(Len(s) + 1) PROVE r[i] = Shifted(Append(s, e)[i], t)
    OBVIOUS
  <2>1. i # Len(s) + 1 => m[i] = Shifted(s[i], t)
    BY <1>1
  <2> HIDE DEF r, m
  <2>2. Append(s, e)[i] = IF i = Len(s) + 1 THEN e ELSE s[i]
    BY <1>3
  <2>3. r[i] = IF i = Len(s) + 1 THEN Shifted(e, t) ELSE m[i]
    BY <1>6
  <2> QED
    BY <2>1, <2>2, <2>3
<1>9. DOMAIN Append(s, e) = 1..(Len(s) + 1)
  BY <1>1, <1>2
<1> HIDE DEF r
<1>10. l = r
  BY <1>7, <1>8, <1>9
<1> QED
  BY <1>10 DEF r

\* Subtracting the origin after a push is pushing the shifted event.
LEMMA RebasedPush ==
  ASSUME NEW K, NEW E, NEW streams \in StreamSet(K, E), NEW e \in E, Shiftable(e), NEW t
  PROVE  Rebased(Push(streams, e), t) = Push(Rebased(streams, t), Shifted(e, t))
<1> DEFINE key == KeyOf(e)
           old == UnwrapOr(Get(streams, key), <<>>)
           l == Rebased(Push(streams, e), t)
           r == Push(Rebased(streams, t), Shifted(e, t))
<1>1. KeyOf(Shifted(e, t)) = key
  BY DEF Shiftable
<1>2. old \in Seq(E)
  BY StreamOrNothing
<1>3. UnwrapOr(Get(Rebased(streams, t), key), <<>>) = [i \in DOMAIN old |-> Shifted(old[i], t)]
  <2>1. CASE key \in DOMAIN streams
    <3>1. old = streams[key]
      BY <2>1, StreamOrNothing
    <3>2. /\ key \in DOMAIN Rebased(streams, t)
          /\ Rebased(streams, t)[key] = [i \in DOMAIN old |-> Shifted(old[i], t)]
      BY <2>1, <3>1 DEF Rebased
    <3> HIDE DEF old
    <3> QED
      BY <3>2, Options DEF Get
  <2>2. CASE key \notin DOMAIN streams
    <3>1. old = <<>> /\ key \notin DOMAIN Rebased(streams, t)
      BY <2>2, StreamOrNothing DEF Rebased
    <3>2. <<>> = [i \in DOMAIN <<>> |-> Shifted(<<>>[i], t)]
      OBVIOUS
    <3> HIDE DEF old
    <3> QED
      BY <3>1, <3>2, Options DEF Get
  <2> QED
    BY <2>1, <2>2
<1>4. [i \in DOMAIN Append(old, e) |-> Shifted(Append(old, e)[i], t)]
        = Append([i \in DOMAIN old |-> Shifted(old[i], t)], Shifted(e, t))
  BY <1>2, ShiftedAppend
<1>5. Push(streams, e) = [k \in DOMAIN streams \cup {key} |->
                            IF k = key THEN Append(old, e) ELSE streams[k]]
  BY DEF Push
<1> HIDE DEF old, key
<1>6. l = [k \in DOMAIN streams \cup {key} |->
             IF k = key THEN Append([i \in DOMAIN old |-> Shifted(old[i], t)], Shifted(e, t))
             ELSE [i \in DOMAIN streams[k] |-> Shifted(streams[k][i], t)]]
  BY <1>4, <1>5 DEF Rebased
<1>7. r = [k \in DOMAIN streams \cup {key} |->
             IF k = key THEN Append([i \in DOMAIN old |-> Shifted(old[i], t)], Shifted(e, t))
             ELSE [i \in DOMAIN streams[k] |-> Shifted(streams[k][i], t)]]
  <2> DEFINE base == Rebased(streams, t)
  <2>1. /\ DOMAIN base = DOMAIN streams
        /\ \A k \in DOMAIN streams :
             base[k] = [i \in DOMAIN streams[k] |-> Shifted(streams[k][i], t)]
    BY DEF Rebased
  <2> HIDE DEF base
  <2>2. r = [k \in DOMAIN base \cup {key} |->
               IF k = key THEN Append(UnwrapOr(Get(base, key), <<>>), Shifted(e, t)) ELSE base[k]]
    BY <1>1 DEF Push, base
  <2> QED
    BY <1>3, <2>1, <2>2 DEF base
<1> QED
  BY <1>6, <1>7

\* Subtracting the origin from the filled streams, as the streaming reader does,
\* is filling the streams with shifted events, as the full-tree readers do.
LEMMA Rebase ==
  ASSUME NEW staging, staging \in Seq(ToSet(staging)),
         \A i \in DOMAIN staging : Shiftable(staging[i]), NEW t
  PROVE  PushAll(staging, t) = Rebased(PushAll(staging, 0), t)
<1> DEFINE n == Len(staging)
           P(k, u) == PushAll(Prefix(staging, k), u)
           S == {k \in 0..n : P(k, t) = Rebased(P(k, 0), t)}
<1>1. n \in Nat /\ DOMAIN staging = 1..n
  OBVIOUS
<1>2. 0 \in S
  <2>1. P(0, t) = NoStreams /\ P(0, 0) = NoStreams
    BY PrefixLaws, PushAllLaws
  <2>2. Rebased(NoStreams, t) = NoStreams
    BY DEF Rebased, NoStreams
  <2> QED
    BY <1>1, <2>1, <2>2
<1>3. ASSUME NEW k \in 0..n, k \in S, k < n PROVE k + 1 \in S
  <2> DEFINE e == staging[k + 1]
             p == Prefix(staging, k)
             E == ShiftedSet(p, 0) \cup {e}
  <2>1. Shiftable(e)
    BY <1>1, <1>3
  <2>2. P(k + 1, t) = Push(P(k, t), Shifted(e, t)) /\ P(k + 1, 0) = Push(P(k, 0), e)
    BY <1>3, <2>1, PrefixTurns DEF Shiftable
  <2>3. P(k, 0) \in StreamSet(Keys(E), E)
    <3>1. p \in Seq(ToSet(p))
      BY <1>3, PrefixLaws
    <3> DEFINE F == ShiftedSet(p, 0)
    <3>2. PushAll(p, 0) \in StreamSet(Keys(F), F)
      BY <3>1, PushAllType
    <3> HIDE DEF F, p, e
    <3>3. Keys(F) \subseteq Keys(F \cup {e})
      BY DEF Keys
    <3>4. PushAll(p, 0) \in StreamSet(Keys(F \cup {e}), F \cup {e})
      BY <3>2, <3>3, StreamsGrow
    <3> QED
      BY <3>4 DEF F, p
  <2>4. e \in E
    OBVIOUS
  <2>5. Rebased(Push(P(k, 0), e), t) = Push(Rebased(P(k, 0), t), Shifted(e, t))
    <3> HIDE DEF E, e, P
    <3> QED
      BY <2>1, <2>3, <2>4, RebasedPush
  <2> HIDE DEF P, e
  <2> QED
    BY <1>1, <1>3, <2>2, <2>5
<1> HIDE DEF S
<1>4. n \in S
  <2>1. n \in 0..n
    BY <1>1
  <2> QED
    BY <1>2, <1>3, <2>1, PrefixInduction
<1> QED
  BY <1>4, PrefixLaws DEF S

-----------------------------------------------------------------------------
(* Counting events.  The fold of event_count takes the streams in an order  *)
(* of its own; what it counts is the set of coordinates of the events.      *)

\* P holds of a subset of D when it holds of the set without any one element.
Inductive(D, P) == \A T \in SUBSET D : (\A x \in T : T \ {x} \in P) => T \in P

\* Induction over the subsets of a finite set.
LEMMA FiniteInduction ==
  ASSUME NEW D, IsFiniteSet(D), NEW P, Inductive(D, P)
  PROVE  SUBSET D \subseteq P /\ D \in P
<1> DEFINE S == {m \in Nat : \A T \in SUBSET D : Cardinality(T) = m => T \in P}
<1>1. \A T \in SUBSET D : IsFiniteSet(T) /\ Cardinality(T) \in Nat
  BY FS_Subset, FS_CardinalityType
<1>2. 0 \in S
  BY <1>1, FS_EmptySet DEF Inductive
<1>3. ASSUME NEW m \in Nat, m \in S PROVE m + 1 \in S
  <2> SUFFICES ASSUME NEW T \in SUBSET D, Cardinality(T) = m + 1 PROVE T \in P
    OBVIOUS
  <2>1. ASSUME NEW x \in T PROVE T \ {x} \in P
    <3>1. Cardinality(T \ {x}) = Cardinality(T) - 1
      BY <1>1, FS_RemoveElement
    <3>2. Cardinality(T \ {x}) = m /\ T \ {x} \in SUBSET D
      BY <3>1
    <3> QED
      BY <1>3, <3>2
  <2> QED
    BY <2>1 DEF Inductive
<1>4. Nat \subseteq S
  <2> HIDE DEF S
  <2> QED
    BY <1>2, <1>3, Induction
<1> QED
  BY <1>1, <1>4

\* The same, one element at a time from the empty set.
LEMMA SubsetInduction ==
  ASSUME NEW D, IsFiniteSet(D), NEW P, {} \in P,
         \A T \in SUBSET D : \A x \in T : T \ {x} \in P => T \in P
  PROVE  SUBSET D \subseteq P
<1>1. \A T \in SUBSET D : (\A x \in T : T \ {x} \in P) => T \in P
  <2> SUFFICES ASSUME NEW T \in SUBSET D, \A x \in T : T \ {x} \in P PROVE T \in P
    OBVIOUS
  <2> QED
    BY T = {} \/ (\E x \in T : TRUE)
<1> QED
  BY <1>1, FiniteInduction DEF Inductive

\* n cells of one element, and f[k] cells of every element of a set: a sum is the
\* number of its cells, in whatever order the fold adds them up.
Lane1(k, n) == {<<k, i>> : i \in 1..n}
Cells(f, T) == UNION {Lane1(k, f[k]) : k \in T}

\* A lane of n cells has n cells.
LEMMA LaneSize ==
  ASSUME NEW k, NEW n \in Nat
  PROVE  IsFiniteSet(Lane1(k, n)) /\ Cardinality(Lane1(k, n)) = n
<1> DEFINE f == [i \in 1..n |-> <<k, i>>]
           L == Lane1(k, n)
<1>1. f \in [1..n -> L]
  BY DEF Lane1
<1>2. \A a, b \in 1..n : f[a] = f[b] => a = b
  OBVIOUS
<1>3. \A y \in L : \E a \in 1..n : f[a] = y
  BY DEF Lane1
<1> HIDE DEF f, L
<1>4. f \in Bijection(1..n, L)
  BY <1>1, <1>2, <1>3 DEF Bijection, Injection, Surjection, IsInjective
<1>5. ExistsBijection(1..n, L)
  BY <1>4 DEF ExistsBijection
<1>6. IsFiniteSet(L) /\ Cardinality(L) = n
  BY <1>5, FS_NatBijection, FS_CountingElements
<1> QED
  BY <1>6 DEF L

\* The cells of one more element are new.
LEMMA CellsOfOneMore ==
  ASSUME NEW f, NEW T, NEW x \in T, f[x] \in Nat, IsFiniteSet(Cells(f, T \ {x}))
  PROVE  /\ IsFiniteSet(Cells(f, T))
         /\ Cardinality(Cells(f, T)) = Cardinality(Cells(f, T \ {x})) + f[x]
<1> DEFINE A == Cells(f, T \ {x})
           B == Lane1(x, f[x])
<1>1. Cells(f, T) = A \cup B /\ A \cap B = {}
  BY DEF Cells, Lane1
<1>2. IsFiniteSet(B) /\ Cardinality(B) = f[x]
  BY LaneSize
<1> HIDE DEF A, B
<1>3. IsFiniteSet(A) /\ Cardinality(A) \in Nat
  BY FS_CardinalityType DEF A
<1>4. /\ IsFiniteSet(A \cup B)
      /\ Cardinality(A \cup B) = Cardinality(A) + Cardinality(B) - Cardinality(A \cap B)
  BY <1>2, <1>3, FS_Union
<1>5. Cardinality(A \cap B) = 0
  BY <1>1, FS_EmptySet
<1> QED
  BY <1>1, <1>2, <1>3, <1>4, <1>5 DEF A

\* Finitely many lanes hold finitely many cells.
LEMMA CellsFinite ==
  ASSUME NEW f, NEW D, IsFiniteSet(D), \A k \in D : f[k] \in Nat
  PROVE  \A T \in SUBSET D : IsFiniteSet(Cells(f, T)) /\ Cardinality(Cells(f, T)) \in Nat
<1> DEFINE P == {T \in SUBSET D : IsFiniteSet(Cells(f, T))}
<1>1. {} \in P
  <2>1. Cells(f, {}) = {}
    BY DEF Cells
  <2> QED
    BY <2>1, FS_EmptySet
<1>2. \A T \in SUBSET D : \A x \in T : T \ {x} \in P => T \in P
  BY CellsOfOneMore
<1> HIDE DEF P
<1>3. SUBSET D \subseteq P
  BY <1>1, <1>2, SubsetInduction
<1> QED
  BY <1>3, FS_CardinalityType DEF P

\* A sum over a finite set counts its cells.
LEMMA SumIsCardinality ==
  ASSUME NEW f, NEW D, IsFiniteSet(D), \A k \in D : f[k] \in Nat
  PROVE  SumFunctionOnSet(f, D) = Cardinality(Cells(f, D))
<1> DEFINE Pick(T) == CHOOSE x \in T : TRUE
           Eqn(g) == g = [T \in SUBSET D |->
                            IF T = {} THEN 0 ELSE f[Pick(T)] + g[T \ {Pick(T)}]]
           iter == CHOOSE g : Eqn(g)
           card == [T \in SUBSET D |-> Cardinality(Cells(f, T))]
<1>1. SumFunctionOnSet(f, D) = iter[D]
  BY DEF SumFunctionOnSet, FoldFunctionOnSet, MapThenFoldSet
<1>2. \A T \in SUBSET D : T # {} => Pick(T) \in T /\ T \ {Pick(T)} \in SUBSET D
  OBVIOUS
<1>3. card[{}] = 0
  <2>1. Cells(f, {}) = {} /\ {} \in SUBSET D
    BY DEF Cells
  <2> QED
    BY <2>1, FS_EmptySet
<1>4. ASSUME NEW T \in SUBSET D, NEW x \in T PROVE card[T] = f[x] + card[T \ {x}]
  <2>1. T \ {x} \in SUBSET D /\ f[x] \in Nat
    OBVIOUS
  <2>2. IsFiniteSet(Cells(f, T \ {x})) /\ Cardinality(Cells(f, T \ {x})) \in Nat
    BY <2>1, CellsFinite
  <2>3. Cardinality(Cells(f, T)) = Cardinality(Cells(f, T \ {x})) + f[x]
    BY <2>1, <2>2, CellsOfOneMore
  <2> QED
    BY <2>1, <2>2, <2>3
<1>5. Eqn(card)
  <2>1. \A T \in SUBSET D : card[T] = IF T = {} THEN 0 ELSE f[Pick(T)] + card[T \ {Pick(T)}]
    BY <1>2, <1>3, <1>4
  <2>2. card = [T \in SUBSET D |-> card[T]]
    OBVIOUS
  <2> HIDE DEF card
  <2> QED
    BY <2>1, <2>2
<1>6. Eqn(iter)
  BY <1>5
<1> HIDE DEF iter, card
<1> DEFINE P == {T \in SUBSET D : iter[T] = card[T]}
<1>7. {} \in P
  BY <1>3, <1>6
<1>8. ASSUME NEW T \in SUBSET D, \A x \in T : T \ {x} \in P
      PROVE  T \in P
  <2>1. CASE T = {}
    BY <1>7, <2>1
  <2>2. CASE T # {}
    <3> DEFINE x == Pick(T)
    <3>1. x \in T
      BY <1>2, <2>2
    <3>2. iter[T \ {x}] = card[T \ {x}]
      BY <1>8, <3>1
    <3>3. iter[T] = f[x] + iter[T \ {x}]
      BY <1>6, <2>2
    <3> HIDE DEF x
    <3>4. card[T] = f[x] + card[T \ {x}]
      BY <1>4, <3>1
    <3> QED
      BY <3>2, <3>3, <3>4
  <2> QED
    BY <2>1, <2>2
<1>9. D \in P
  <2> HIDE DEF P
  <2>1. Inductive(D, P)
    BY <1>8 DEF Inductive
  <2> QED
    BY <2>1, FiniteInduction
<1> QED
  BY <1>1, <1>9 DEF card

\* The laws the other lemmas use: the empty sum, one more summand.
LEMMA SumLaws ==
  ASSUME NEW f, NEW D, IsFiniteSet(D), \A k \in D : f[k] \in Nat
  PROVE  /\ SumFunctionOnSet(f, {}) = 0
         /\ \A T \in SUBSET D : SumFunctionOnSet(f, T) \in Nat
         /\ \A T \in SUBSET D : \A x \in T :
              SumFunctionOnSet(f, T) = SumFunctionOnSet(f, T \ {x}) + f[x]
<1>1. \A T \in SUBSET D : /\ SumFunctionOnSet(f, T) = Cardinality(Cells(f, T))
                          /\ IsFiniteSet(Cells(f, T)) /\ Cardinality(Cells(f, T)) \in Nat
  <2> SUFFICES ASSUME NEW T \in SUBSET D
               PROVE  /\ SumFunctionOnSet(f, T) = Cardinality(Cells(f, T))
                      /\ IsFiniteSet(Cells(f, T)) /\ Cardinality(Cells(f, T)) \in Nat
    OBVIOUS
  <2>1. IsFiniteSet(T) /\ \A k \in T : f[k] \in Nat
    BY FS_Subset
  <2> QED
    BY <2>1, SumIsCardinality, CellsFinite
<1>2. SumFunctionOnSet(f, {}) = 0
  <2>1. Cells(f, {}) = {} /\ {} \in SUBSET D
    BY DEF Cells
  <2> QED
    BY <1>1, <2>1, FS_EmptySet
<1>3. ASSUME NEW T \in SUBSET D, NEW x \in T
      PROVE  SumFunctionOnSet(f, T) = SumFunctionOnSet(f, T \ {x}) + f[x]
  <2>1. T \ {x} \in SUBSET D /\ f[x] \in Nat
    OBVIOUS
  <2>2. Cardinality(Cells(f, T)) = Cardinality(Cells(f, T \ {x})) + f[x]
    BY <1>1, <2>1, CellsOfOneMore
  <2> QED
    BY <1>1, <2>1, <2>2
<1> QED
  BY <1>1, <1>2, <1>3

\* Functions that agree have the same sum.
LEMMA SumOfEqual ==
  ASSUME NEW D, IsFiniteSet(D), NEW f, NEW g, \A k \in D : f[k] \in Nat /\ f[k] = g[k]
  PROVE  SumFunctionOnSet(f, D) = SumFunctionOnSet(g, D)
<1>1. Cells(f, D) = Cells(g, D)
  BY DEF Cells
<1> QED
  BY <1>1, SumIsCardinality

\* A sum over the union of two disjoint sets.
LEMMA SumOfUnion ==
  ASSUME NEW A, NEW B, IsFiniteSet(A), IsFiniteSet(B), A \cap B = {},
         NEW f, \A k \in A \cup B : f[k] \in Nat
  PROVE  SumFunctionOnSet(f, A \cup B) = SumFunctionOnSet(f, A) + SumFunctionOnSet(f, B)
<1>1. IsFiniteSet(A \cup B)
  BY FS_Union
<1>2. /\ SumFunctionOnSet(f, A \cup B) = Cardinality(Cells(f, A \cup B))
      /\ SumFunctionOnSet(f, A) = Cardinality(Cells(f, A))
      /\ SumFunctionOnSet(f, B) = Cardinality(Cells(f, B))
  BY <1>1, SumIsCardinality
<1> DEFINE CA == Cells(f, A)
           CB == Cells(f, B)
<1>3. Cells(f, A \cup B) = CA \cup CB /\ CA \cap CB = {}
  BY DEF Cells, Lane1
<1>4. IsFiniteSet(CA) /\ IsFiniteSet(CB) /\ Cardinality(CA) \in Nat /\ Cardinality(CB) \in Nat
  <2>1. A \in SUBSET A /\ B \in SUBSET B
    OBVIOUS
  <2> QED
    BY <2>1, CellsFinite
<1> HIDE DEF CA, CB
<1>5. Cardinality(CA \cup CB) = Cardinality(CA) + Cardinality(CB) - Cardinality(CA \cap CB)
  BY <1>4, FS_Union
<1>6. Cardinality(CA \cap CB) = 0
  BY <1>3, FS_EmptySet
<1>7. Cardinality(CA \cup CB) = Cardinality(CA) + Cardinality(CB)
  BY <1>4, <1>5, <1>6
<1> QED
  BY <1>2, <1>3, <1>7 DEF CA, CB

\* The sum of sums.
LEMMA SumOfSums ==
  ASSUME NEW D, IsFiniteSet(D), NEW f, NEW g, NEW h,
         \A k \in D : f[k] \in Nat /\ g[k] \in Nat /\ h[k] = f[k] + g[k]
  PROVE  SumFunctionOnSet(h, D) = SumFunctionOnSet(f, D) + SumFunctionOnSet(g, D)
<1> DEFINE P == {T \in SUBSET D :
                   SumFunctionOnSet(h, T) = SumFunctionOnSet(f, T) + SumFunctionOnSet(g, T)}
<1>1. \A k \in D : f[k] \in Nat /\ g[k] \in Nat /\ h[k] \in Nat
  OBVIOUS
<1>2. {} \in P
  BY <1>1, SumLaws
<1>3. ASSUME NEW T \in SUBSET D, NEW x \in T, T \ {x} \in P PROVE T \in P
  <2> DEFINE U == T \ {x}
  <2>1. U \in SUBSET D /\ x \in D
    OBVIOUS
  <2>2. /\ SumFunctionOnSet(f, T) = SumFunctionOnSet(f, U) + f[x]
        /\ SumFunctionOnSet(g, T) = SumFunctionOnSet(g, U) + g[x]
        /\ SumFunctionOnSet(h, T) = SumFunctionOnSet(h, U) + h[x]
    BY <1>1, SumLaws
  <2>3. SumFunctionOnSet(f, U) \in Nat /\ SumFunctionOnSet(g, U) \in Nat
    BY <1>1, <2>1, SumLaws
  <2>4. SumFunctionOnSet(h, U) = SumFunctionOnSet(f, U) + SumFunctionOnSet(g, U)
    BY <1>3
  <2> HIDE DEF U
  <2>5. SumFunctionOnSet(h, T) = SumFunctionOnSet(f, T) + SumFunctionOnSet(g, T)
    BY <1>1, <2>1, <2>2, <2>3, <2>4
  <2> QED
    BY <2>5
<1> HIDE DEF P
<1>4. SUBSET D \subseteq P
  BY <1>2, <1>3, SubsetInduction
<1> QED
  BY <1>4 DEF P

\* A sum is zero when every summand is.
LEMMA SumIsZero ==
  ASSUME NEW D, IsFiniteSet(D), NEW f, \A k \in D : f[k] \in Nat
  PROVE  SumFunctionOnSet(f, D) = 0 <=> \A k \in D : f[k] = 0
<1> DEFINE C == Cells(f, D)
<1>1. SumFunctionOnSet(f, D) = Cardinality(C)
  BY SumIsCardinality
<1>2. IsFiniteSet(C)
  <2>1. D \in SUBSET D
    OBVIOUS
  <2> QED
    BY <2>1, CellsFinite
<1>3. Cardinality(C) = 0 <=> C = {}
  <2> HIDE DEF C
  <2> QED
    BY <1>2, FS_EmptySet
<1>4. C = {} <=> \A k \in D : f[k] = 0
  <2>1. ASSUME C = {}, NEW k \in D PROVE f[k] = 0
    <3>1. \A i \in 1..f[k] : <<k, i>> \in C
      BY DEF Cells, Lane1
    <3>2. 1 \notin 1..f[k]
      BY <2>1, <3>1
    <3> QED
      BY <3>2
  <2>2. ASSUME \A k \in D : f[k] = 0 PROVE C = {}
    <3>1. \A k \in D : Lane1(k, f[k]) = {}
      BY <2>2 DEF Lane1
    <3> QED
      BY <3>1 DEF Cells
  <2> QED
    BY <2>1, <2>2
<1> QED
  BY <1>1, <1>3, <1>4

\* The elements of a class.
Fibre(D, g, k) == {x \in D : g[x] = k}

\* The sums over the classes add up to the sum.
LEMMA SumOfFibres ==
  ASSUME NEW D, IsFiniteSet(D), NEW f, \A x \in D : f[x] \in Nat,
         NEW K, IsFiniteSet(K), NEW g, \A x \in D : g[x] \in K,
         NEW h, \A k \in K : h[k] = SumFunctionOnSet(f, Fibre(D, g, k))
  PROVE  SumFunctionOnSet(h, K) = SumFunctionOnSet(f, D)
<1> DEFINE Over(T) == {x \in D : g[x] \in T}
           P == {T \in SUBSET K : SumFunctionOnSet(h, T) = SumFunctionOnSet(f, Over(T))}
<1>1. \A T : Over(T) \in SUBSET D /\ IsFiniteSet(Over(T))
  <2>1. \A T : Over(T) \in SUBSET D
    OBVIOUS
  <2> QED
    BY <2>1, FS_Subset
<1>2. \A k \in K : h[k] \in Nat
  <2> SUFFICES ASSUME NEW k \in K PROVE h[k] \in Nat
    OBVIOUS
  <2>1. Fibre(D, g, k) \in SUBSET D
    BY DEF Fibre
  <2> QED
    BY <2>1, SumLaws
<1>3. {} \in P
  <2>1. Over({}) = {}
    OBVIOUS
  <2>2. SumFunctionOnSet(h, {}) = 0
    BY <1>2, SumLaws
  <2>3. SumFunctionOnSet(f, {}) = 0
    BY SumLaws
  <2> QED
    BY <2>1, <2>2, <2>3
<1>4. ASSUME NEW T \in SUBSET K, NEW k \in T, T \ {k} \in P PROVE T \in P
  <2> DEFINE U == T \ {k}
             F == Fibre(D, g, k)
             R == Over(U)
  <2>1. Over(T) = R \cup F /\ R \cap F = {} /\ F \in SUBSET D /\ R \in SUBSET D
    BY DEF Fibre
  <2>2. IsFiniteSet(R) /\ IsFiniteSet(F)
    BY <2>1, FS_Subset
  <2>3. SumFunctionOnSet(h, T) = SumFunctionOnSet(h, U) + h[k]
    BY <1>2, SumLaws
  <2>4. SumFunctionOnSet(h, U) = SumFunctionOnSet(f, R) /\ h[k] = SumFunctionOnSet(f, F)
    BY <1>4
  <2>5. \A x \in R \cup F : f[x] \in Nat
    BY <2>1
  <2> HIDE DEF R, F, U
  <2>6. SumFunctionOnSet(f, R \cup F) = SumFunctionOnSet(f, R) + SumFunctionOnSet(f, F)
    BY <2>1, <2>2, <2>5, SumOfUnion
  <2>7. SumFunctionOnSet(h, T) = SumFunctionOnSet(f, Over(T))
    BY <2>1, <2>3, <2>4, <2>6
  <2> QED
    BY <2>7
<1> HIDE DEF P
<1>5. SUBSET K \subseteq P
  BY <1>3, <1>4, SubsetInduction
<1>6. Over(K) = D
  OBVIOUS
<1> QED
  BY <1>5, <1>6 DEF P

\* A set is counted by its ones.
LEMMA SumOfOnes ==
  ASSUME NEW D, IsFiniteSet(D), NEW f, \A x \in D : f[x] = 1
  PROVE  SumFunctionOnSet(f, D) = Cardinality(D)
<1> DEFINE P == {T \in SUBSET D : SumFunctionOnSet(f, T) = Cardinality(T)}
<1>1. {} \in P
  BY SumLaws, FS_EmptySet
<1>2. ASSUME NEW T \in SUBSET D, NEW x \in T, T \ {x} \in P PROVE T \in P
  <2>1. SumFunctionOnSet(f, T) = SumFunctionOnSet(f, T \ {x}) + 1
    BY SumLaws
  <2>2. IsFiniteSet(T) /\ Cardinality(T) \in Nat
    BY FS_Subset, FS_CardinalityType
  <2>3. Cardinality(T \ {x}) = Cardinality(T) - 1
    BY <2>2, FS_RemoveElement
  <2> QED
    BY <1>2, <2>1, <2>2, <2>3
<1> HIDE DEF P
<1>3. SUBSET D \subseteq P
  BY <1>1, <1>2, SubsetInduction
<1> QED
  BY <1>3 DEF P

\* The classes of equal g[x] count the set.
LEMMA CountOfClasses ==
  ASSUME NEW D, IsFiniteSet(D), NEW K, IsFiniteSet(K), NEW g, \A x \in D : g[x] \in K,
         NEW h, \A k \in K : h[k] = Cardinality(Fibre(D, g, k))
  PROVE  SumFunctionOnSet(h, K) = Cardinality(D)
<1> DEFINE f == [x \in D |-> 1]
<1>1. \A x \in D : f[x] = 1
  OBVIOUS
<1> HIDE DEF f
<1>2. \A x \in D : f[x] \in Nat
  BY <1>1
<1>3. \A k \in K : h[k] = SumFunctionOnSet(f, Fibre(D, g, k))
  <2> SUFFICES ASSUME NEW k \in K
               PROVE  h[k] = SumFunctionOnSet(f, Fibre(D, g, k))
    OBVIOUS
  <2> DEFINE F == Fibre(D, g, k)
  <2>1. IsFiniteSet(F) /\ \A x \in F : f[x] = 1
    BY <1>1, FS_Subset DEF Fibre
  <2>2. h[k] = Cardinality(F)
    OBVIOUS
  <2> HIDE DEF F
  <2>3. SumFunctionOnSet(f, F) = Cardinality(F)
    BY <2>1, SumOfOnes
  <2> QED
    BY <2>2, <2>3 DEF F
<1>4. SumFunctionOnSet(h, K) = SumFunctionOnSet(f, D)
  BY <1>2, <1>3, SumOfFibres
<1> QED
  BY <1>1, <1>4, SumOfOnes

\* Pushing an event adds one to the total.
LEMMA TotalOfPush ==
  ASSUME NEW K, NEW E, NEW streams \in StreamSet(K, E), IsFiniteSet(DOMAIN streams), NEW e \in E
  PROVE  Total(Push(streams, e)) = Total(streams) + 1 /\ Total(streams) \in Nat
<1> DEFINE key == KeyOf(e)
           old == UnwrapOr(Get(streams, key), <<>>)
           pushed == Push(streams, e)
           D == DOMAIN streams
           f == [k \in D |-> Len(streams[k])]
           g == [k \in DOMAIN pushed |-> Len(pushed[k])]
           rest == D \ {key}
<1>1. \A k \in D : streams[k] \in Seq(E) /\ Len(streams[k]) \in Nat
  BY StreamsAreFunctions
<1>2. old \in Seq(E) /\ Len(old) \in Nat
      /\ (key \in D => old = streams[key]) /\ (key \notin D => Len(old) = 0)
  BY StreamOrNothing
<1>3. pushed = [k \in D \cup {key} |-> IF k = key THEN Append(old, e) ELSE streams[k]]
  BY DEF Push
<1> HIDE DEF key, old, pushed
<1>4. /\ DOMAIN pushed = D \cup {key}
      /\ Len(pushed[key]) = Len(old) + 1
      /\ \A k \in D : k # key => pushed[k] = streams[k]
  BY <1>2, <1>3
<1>5. \A k \in DOMAIN pushed : g[k] \in Nat
  BY <1>1, <1>2, <1>4
<1>6. IsFiniteSet(DOMAIN pushed) /\ IsFiniteSet(rest)
  BY <1>4, FS_AddElement, FS_RemoveElement
<1>7. Total(streams) = SumFunctionOnSet(f, D) /\ Total(pushed) = SumFunctionOnSet(g, DOMAIN pushed)
  BY DEF Total, SumFunction
<1>8. \A k \in D : f[k] \in Nat
  BY <1>1
<1>9. \A k \in rest : f[k] \in Nat /\ f[k] = g[k]
  BY <1>1, <1>4
<1>10. g[key] = Len(old) + 1 /\ (key \in D => f[key] = Len(old)) /\ DOMAIN pushed \ {key} = rest
  BY <1>2, <1>4
<1>11. key \in DOMAIN pushed
  BY <1>4
<1> HIDE DEF f, g
<1>12. SumFunctionOnSet(g, DOMAIN pushed) = SumFunctionOnSet(g, rest) + Len(old) + 1
       /\ SumFunctionOnSet(g, rest) \in Nat
  <2>1. rest \in SUBSET DOMAIN pushed /\ DOMAIN pushed \in SUBSET DOMAIN pushed
    BY <1>10
  <2>2. SumFunctionOnSet(g, rest) \in Nat
    BY <1>5, <1>6, <2>1, SumLaws
  <2>3. SumFunctionOnSet(g, DOMAIN pushed) = SumFunctionOnSet(g, rest) + g[key]
    <3>1. SumFunctionOnSet(g, DOMAIN pushed) = SumFunctionOnSet(g, DOMAIN pushed \ {key}) + g[key]
      BY <1>5, <1>6, <1>11, <2>1, SumLaws
    <3> QED
      BY <1>10, <3>1
  <2> QED
    BY <1>2, <1>10, <2>2, <2>3
<1>13. SumFunctionOnSet(f, D) = SumFunctionOnSet(f, rest) + Len(old)
       /\ SumFunctionOnSet(f, rest) \in Nat
  <2>1. rest \in SUBSET D /\ D \in SUBSET D
    OBVIOUS
  <2> HIDE DEF D, rest
  <2>2. SumFunctionOnSet(f, rest) \in Nat
    BY <1>8, <2>1, SumLaws DEF D
  <2>3. CASE key \in D
    <3>1. SumFunctionOnSet(f, D) = SumFunctionOnSet(f, D \ {key}) + f[key]
      BY <1>8, <2>1, <2>3, SumLaws DEF D
    <3> QED
      BY <1>10, <2>2, <2>3, <3>1 DEF rest
  <2>4. CASE key \notin D
    <3>1. rest = D /\ Len(old) = 0
      BY <1>2, <2>4 DEF rest
    <3> QED
      BY <2>2, <3>1
  <2> QED
    BY <2>3, <2>4
<1>14. SumFunctionOnSet(f, rest) = SumFunctionOnSet(g, rest)
  BY <1>6, <1>9, SumOfEqual
<1> QED
  BY <1>2, <1>7, <1>12, <1>13, <1>14 DEF pushed

\* As many events are in the streams as were pushed.
LEMMA TotalOfPushAll ==
  ASSUME NEW staging, staging \in Seq(ToSet(staging)), NEW t
  PROVE  Total(PushAll(staging, t)) = Len(staging)
<1> DEFINE n == Len(staging)
           P(k) == PushAll(Prefix(staging, k), t)
           S == {k \in 0..n : Total(P(k)) = k /\ IsFiniteSet(DOMAIN P(k))}
<1>1. n \in Nat /\ DOMAIN staging = 1..n
  OBVIOUS
<1>2. 0 \in S
  <2>1. P(0) = NoStreams
    BY PrefixLaws, PushAllLaws
  <2>2. DOMAIN NoStreams = {} /\ IsFiniteSet({}) /\ Cardinality({}) = 0
    BY NoStreamsType, FS_EmptySet
  <2>3. Total(NoStreams) = SumFunctionOnSet([k \in {} |-> Len(NoStreams[k])], {})
    BY <2>2 DEF Total, SumFunction
  <2>4. Total(NoStreams) = 0
    BY <2>2, <2>3, SumLaws
  <2> QED
    BY <1>1, <2>1, <2>2, <2>4
<1>3. ASSUME NEW k \in 0..n, k \in S, k < n PROVE k + 1 \in S
  <2> DEFINE e == Shifted(staging[k + 1], t)
             p == Prefix(staging, k)
             F == ShiftedSet(p, t)
             E == F \cup {e}
  <2>1. P(k + 1) = Push(P(k), e)
    BY <1>3, PrefixTurns
  <2>2. P(k) \in StreamSet(Keys(E), E)
    <3>1. p \in Seq(ToSet(p))
      BY <1>3, PrefixLaws
    <3>2. PushAll(p, t) \in StreamSet(Keys(F), F)
      BY <3>1, PushAllType
    <3> HIDE DEF F, p, e
    <3>3. Keys(F) \subseteq Keys(F \cup {e})
      BY DEF Keys
    <3>4. PushAll(p, t) \in StreamSet(Keys(F \cup {e}), F \cup {e})
      BY <3>2, <3>3, StreamsGrow
    <3> QED
      BY <3>4 DEF p
  <2>3. e \in E
    OBVIOUS
  <2>4. IsFiniteSet(DOMAIN P(k)) /\ Total(P(k)) = k
    BY <1>3
  <2> HIDE DEF E, e, P
  <2>5. Total(Push(P(k), e)) = k + 1
    BY <2>2, <2>3, <2>4, TotalOfPush
  <2>6. IsFiniteSet(DOMAIN Push(P(k), e))
    <3>1. DOMAIN Push(P(k), e) = DOMAIN P(k) \cup {KeyOf(e)}
      BY DEF Push
    <3> QED
      BY <2>4, <3>1, FS_AddElement
  <2> QED
    BY <1>1, <1>3, <2>1, <2>5, <2>6
<1> HIDE DEF S
<1>4. n \in S
  <2>1. n \in 0..n
    BY <1>1
  <2> QED
    BY <1>2, <1>3, <2>1, PrefixInduction
<1> QED
  BY <1>4, PrefixLaws DEF S

\* A trace of one rank has the events of that rank.
LEMMA CountOfTrace ==
  ASSUME NEW rank, NEW streams, NEW metadata, NEW t, Total(streams) \in Nat
  PROVE  EventCount(Trace(rank, streams, metadata, t)) = Total(streams)
<1> DEFINE f == [r \in {rank} |-> Total(streams)]
           ranks == Trace(rank, streams, metadata, t).ranks
<1>1. [r \in DOMAIN ranks |-> Total(ranks[r])] = f
  BY DEF Trace
<1>2. EventCount(Trace(rank, streams, metadata, t)) = SumFunction(f)
  BY <1>1 DEF EventCount
<1>3. SumFunction(f) = SumFunctionOnSet(f, {rank})
  BY DEF SumFunction
<1>4. \A r \in {rank} : f[r] \in Nat
  OBVIOUS
<1>5. IsFiniteSet({rank}) /\ {rank} \ {rank} = {}
  BY FS_Singleton
<1>6. f[rank] = Total(streams)
  OBVIOUS
<1> HIDE DEF f
<1>7. SumFunctionOnSet(f, {rank}) = SumFunctionOnSet(f, {}) + f[rank] /\ SumFunctionOnSet(f, {}) = 0
  <2>1. rank \in {rank} /\ {rank} \in SUBSET {rank}
    OBVIOUS
  <2> QED
    BY <1>4, <1>5, <2>1, SumLaws
<1> QED
  BY <1>2, <1>3, <1>6, <1>7

-----------------------------------------------------------------------------
(* The streaming reader.  What it has absorbed of an array is what the      *)
(* staging pass makes of it, the timestamps not shifted yet.                *)

Minimum(ts, staging) ==
  /\ ts \in Int64
  /\ \A i \in DOMAIN staging : staging[i].ts \in Int64 /\ ts <= staging[i].ts
  /\ ts = MaxInt64 \/ \E i \in DOMAIN staging : ts = staging[i].ts

IsState(st) ==
  st = [rank |-> st.rank, streams |-> st.streams, metadata |-> st.metadata, minTs |-> st.minTs]

Absorbed(st, arr) ==
  LET staged == Staged("stream", arr) IN
  /\ IsState(st)
  /\ st.streams = PushAll(staged.staging, 0)
  /\ st.metadata = staged.metadata
  /\ Minimum(st.minTs, staged.staging)
  /\ \A i \in DOMAIN staged.staging : Shiftable(staged.staging[i])

\* The first parser state has absorbed nothing.
LEMMA NothingAbsorbed == Absorbed(ParserStart, <<>>)
<1>1. Staged("stream", <<>>) = StageStart
  BY StagedLaws
<1>2. PushAll(<<>>, 0) = NoStreams
  BY PushAllLaws
<1>3. IsState(ParserStart)
  BY DEF IsState, ParserStart
<1>4. MaxInt64 \in Int64 /\ DOMAIN <<>> = {}
  BY MaxInt64Assumption DEF Int64
<1>5. Minimum(MaxInt64, <<>>)
  BY <1>4 DEF Minimum
<1> QED
  BY <1>1, <1>2, <1>3, <1>4, <1>5 DEF Absorbed, StageStart, ParserStart

\* Min of two numbers.
LEMMA MinOfTwo ==
  ASSUME NEW a \in Int, NEW b \in Int
  PROVE  Min({a, b}) = IF a <= b THEN a ELSE b
<1>1. \E x \in {a, b} : \A y \in {a, b} : x =< y
  OBVIOUS
<1>2. Min({a, b}) \in {a, b} /\ \A y \in {a, b} : Min({a, b}) =< y
  BY <1>1 DEF Min
<1> QED
  BY <1>2

\* A sequence with one more element.
LEMMA AppendFacts ==
  ASSUME NEW E, NEW s \in Seq(E), NEW e
  PROVE  /\ DOMAIN Append(s, e) = DOMAIN s \cup {Len(s) + 1}
         /\ \A i \in DOMAIN s : Append(s, e)[i] = s[i]
         /\ Append(s, e)[Len(s) + 1] = e
<1>1. s \in Seq(E \cup {e}) /\ Len(s) \in Nat /\ DOMAIN s = 1..Len(s)
  OBVIOUS
<1> QED
  BY <1>1

\* The running minimum stays the minimum when an event is appended.
LEMMA MinimumTurn ==
  ASSUME NEW E, NEW s \in Seq(E), NEW e, e.ts \in Int64, NEW ts, Minimum(ts, s)
  PROVE  Minimum(Min({ts, e.ts}), Append(s, e))
<1> DEFINE more == Append(s, e)
           m == Min({ts, e.ts})
<1>1. Int64 \subseteq Int
  BY MaxInt64Assumption DEF Int64
<1>2. m = IF ts <= e.ts THEN ts ELSE e.ts
  BY <1>1, MinOfTwo DEF Minimum
<1>3. /\ DOMAIN more = DOMAIN s \cup {Len(s) + 1}
      /\ \A i \in DOMAIN s : more[i] = s[i]
      /\ more[Len(s) + 1] = e
  BY AppendFacts
<1> HIDE DEF more, m
<1>4. m \in Int64 /\ m <= ts /\ m <= e.ts
  BY <1>1, <1>2 DEF Minimum
<1>5. \A i \in DOMAIN more : more[i].ts \in Int64 /\ m <= more[i].ts
  <2>1. \A i \in DOMAIN s : s[i].ts \in Int64 /\ m <= s[i].ts
    BY <1>1, <1>4 DEF Minimum
  <2> QED
    BY <1>3, <1>4, <2>1
<1>6. m = MaxInt64 \/ \E i \in DOMAIN more : m = more[i].ts
  <2>1. CASE m = e.ts
    BY <1>3, <2>1
  <2>2. CASE m = ts
    <3>1. ts = MaxInt64 \/ \E i \in DOMAIN s : ts = s[i].ts
      BY DEF Minimum
    <3> QED
      BY <1>3, <2>2, <3>1
  <2> QED
    BY <1>2, <2>1, <2>2
<1>7. Minimum(m, more)
  BY <1>4, <1>5, <1>6 DEF Minimum
<1> QED
  BY <1>7 DEF m, more

\* One turn of absorb: the state stays what the full-tree readers stage of the
\* elements so far, with the origin not yet subtracted.
LEMMA AbsorbedTurn ==
  ASSUME NEW arr, arr \in Seq(ToSet(arr)), NEW st, Absorbed(st, arr),
         NEW v, IsObject(v), NumericFields(v.obj)
  PROVE  Absorbed(Absorb(st, v.obj), Append(arr, v))
<1> DEFINE s == Staged("stream", arr)
           t == Staged("stream", Append(arr, v))
           next == Absorb(st, v.obj)
<1>1. t = Stage("stream", s, v)
  BY StagedLaws
<1>2. PICK E, M : s \in [staging : Seq(E), metadata : Seq(M)]
  BY StagedType DEF StageSet
<1>3. /\ IsState(st) /\ st.streams = PushAll(s.staging, 0) /\ st.metadata = s.metadata
      /\ Minimum(st.minTs, s.staging) /\ \A i \in DOMAIN s.staging : Shiftable(s.staging[i])
  BY DEF Absorbed
<1> HIDE DEF s, t, next
<1>4. CASE IsMetadata(v.obj)
  <2> DEFINE m == MetadataEvent("stream", v.obj)
  <2>1. t = [s EXCEPT !.metadata = Append(@, m)]
    BY <1>1, <1>4 DEF Stage
  <2>2. next = [st EXCEPT !.metadata = Append(@, m)]
    BY <1>4 DEF Absorb, next
  <2> HIDE DEF m
  <2>3. t.staging = s.staging /\ t.metadata = Append(s.metadata, m)
    BY <1>2, <2>1
  <2>4. /\ IsState(next) /\ next.streams = st.streams /\ next.minTs = st.minTs
        /\ next.metadata = Append(st.metadata, m)
    BY <1>3, <2>2 DEF IsState
  <2> QED
    BY <1>3, <2>3, <2>4 DEF Absorbed, t, next
<1>5. CASE ~IsMetadata(v.obj)
  <2> DEFINE e == Event("stream", v.obj)
  <2>1. t = [s EXCEPT !.staging = Append(@, e)]
    BY <1>1, <1>5 DEF Stage
  <2>2. next = [st EXCEPT !.streams = Push(@, e), !.minTs = Min({@, e.ts})]
    BY <1>5 DEF Absorb, next
  <2>3. e.ts \in Int64 /\ Shiftable(e)
    BY EventType, EventIsShiftable DEF AllReaders
  <2> HIDE DEF e
  <2>4. t.staging = Append(s.staging, e) /\ t.metadata = s.metadata
    BY <1>2, <2>1
  <2>5. /\ IsState(next) /\ next.streams = Push(st.streams, e)
        /\ next.minTs = Min({st.minTs, e.ts}) /\ next.metadata = st.metadata
    BY <1>3, <2>2 DEF IsState
  <2>6. s.staging \in Seq(E) /\ s.staging \in Seq(ToSet(s.staging))
    <3>1. s.staging \in Seq(E)
      BY <1>2
    <3> QED
      BY <3>1 DEF ToSet
  <2>7. PushAll(Append(s.staging, e), 0) = Push(PushAll(s.staging, 0), e)
    BY <2>3, <2>6, PushAllLaws DEF Shiftable
  <2>8. Minimum(Min({st.minTs, e.ts}), Append(s.staging, e))
    BY <1>3, <2>3, <2>6, MinimumTurn
  <2>9. \A i \in DOMAIN t.staging : Shiftable(t.staging[i])
    BY <1>3, <2>3, <2>4, <2>6, AppendFacts
  <2> QED
    BY <1>3, <2>4, <2>5, <2>7, <2>8, <2>9 DEF Absorbed, t, next
<1> QED
  BY <1>4, <1>5

\* Looking up a key of a document, whose keys differ.
LEMMA EntryFacts ==
  ASSUME NEW d, IsDocument(d)
  PROVE  /\ \A i \in DOMAIN d : Entry(d, d[i].key) = Some(d[i].value)
         /\ \A key : (\A i \in DOMAIN d : d[i].key # key) <=> Entry(d, key) = None
<1>1. ASSUME NEW i \in DOMAIN d PROVE Entry(d, d[i].key) = Some(d[i].value)
  <2>1. {j \in DOMAIN d : d[j].key = d[i].key} = {i}
    BY DEF IsDocument
  <2>2. (CHOOSE j \in {i} : TRUE) = i
    OBVIOUS
  <2> QED
    BY <2>1, <2>2 DEF Entry
<1>2. ASSUME NEW key, \A i \in DOMAIN d : d[i].key # key PROVE Entry(d, key) = None
  BY <1>2 DEF Entry
<1>3. ASSUME NEW key, \E i \in DOMAIN d : d[i].key = key PROVE Entry(d, key) # None
  BY <1>3, Options DEF Entry
<1> QED
  BY <1>1, <1>2, <1>3

\* The elements of "traceEvents", and those the reader has taken.
Array(d) == Entry(d, "traceEvents")[1].arr
Past(key) == \E i \in DOMAIN doc : i < entry /\ doc[i].key = key
Taken == IF element > 0 THEN Prefix(Array(doc), element - 1)
         ELSE IF Past("traceEvents") THEN Array(doc) ELSE <<>>

HasEvents(d) == Entry(d, "traceEvents") # None
HasArray(d) == HasEvents(d) /\ Is(Entry(d, "traceEvents")[1], "arr")
Readable(d) == HasEvents(d) => HasArray(d) /\ \A i \in DOMAIN Array(d) : IsRawEvent(Array(d)[i])

\* In order: an idle reader is at its start; the places in the document and in
\* the array are there; the state is what the elements taken make, all of them
\* raw events, and the rank of the entries passed; a result is a refusal of a
\* document that is not readable, or the trace at the end of the text.
ParserInv ==
  /\ Idle => doc = <<>> /\ entry = 1 /\ element = 0 /\ state = ParserStart /\ result = None
  /\ IsDocument(doc)
  /\ entry \in 1..(Len(doc) + 1) /\ element \in Nat
  /\ element > 0 => /\ entry <= Len(doc) /\ doc[entry].key = "traceEvents"
                    /\ Is(doc[entry].value, "arr") /\ element <= Len(Array(doc)) + 1
  /\ Past("traceEvents") => HasArray(doc)
  /\ \A i \in DOMAIN Taken : IsRawEvent(Taken[i])
  /\ Absorbed(state, Taken)
  /\ state.rank = IF Past("distributedInfo") THEN RankOf(Entry(doc, "distributedInfo")) ELSE None
  /\ \/ result = None
     \/ result = Some(Failed) /\ ~Readable(doc)
     \/ result = Some(Finished(state, stem)) /\ entry = Len(doc) + 1 /\ element = 0

\* The "traceEvents" array of a document is a sequence of values with numeric numbers.
LEMMA ArrayFacts ==
  ASSUME NEW d, IsDocument(d), HasArray(d)
  PROVE  /\ Array(d) \in Seq(ToSet(Array(d)))
         /\ \A i \in DOMAIN Array(d) : IsObject(Array(d)[i]) => NumericFields(Array(d)[i].obj)
<1>1. PICK i \in DOMAIN d : d[i].key = "traceEvents"
  BY EntryFacts DEF HasArray, HasEvents
<1>2. Entry(d, "traceEvents") = Some(d[i].value)
  BY <1>1, EntryFacts
<1>3. Entry(d, "traceEvents")[1] = d[i].value
  BY <1>2, Options
<1>4. Array(d) = d[i].value.arr /\ Is(d[i].value, "arr")
  BY <1>3 DEF Array, HasArray
<1> QED
  BY <1>4 DEF IsDocument, NumericFields

\* An entry "traceEvents" is the one Entry finds.
LEMMA EventsEntry ==
  ASSUME NEW d, IsDocument(d), NEW i \in DOMAIN d, d[i].key = "traceEvents"
  PROVE  /\ HasEvents(d) /\ Entry(d, "traceEvents")[1] = d[i].value
         /\ Array(d) = d[i].value.arr
<1>1. Entry(d, "traceEvents") = Some(d[i].value)
  BY EntryFacts
<1> QED
  BY <1>1, Options DEF HasEvents, Array

\* Before the first document nothing is being parsed.
LEMMA StartsIdle == ParserInit => ParserInv
<1> SUFFICES ASSUME ParserInit PROVE ParserInv
  OBVIOUS
<1>1. doc = <<>> /\ entry = 1 /\ element = 0 /\ state = ParserStart /\ result = None
  BY DEF ParserInit
<1>2. IsDocument(<<>>) /\ DOMAIN <<>> = {} /\ Len(<<>>) = 0
  BY DEF IsDocument
<1>3. ~Past("traceEvents") /\ ~Past("distributedInfo")
  BY <1>1, <1>2 DEF Past
<1>4. Taken = <<>>
  BY <1>1, <1>3 DEF Taken
<1>5. state.rank = None
  BY <1>1 DEF ParserStart
<1> QED
  BY <1>1, <1>2, <1>3, <1>4, <1>5, NothingAbsorbed DEF ParserInv

\* Nor after a reader has returned.
LEMMA ClosesIdle == Close => ParserInv'
<1> SUFFICES ASSUME Close PROVE ParserInv'
  OBVIOUS
<1>1. doc' = <<>> /\ entry' = 1 /\ element' = 0 /\ state' = ParserStart /\ result' = None
  BY DEF Close
<1>2. IsDocument(<<>>) /\ DOMAIN <<>> = {} /\ Len(<<>>) = 0
  BY DEF IsDocument
<1>3. ~Past("traceEvents")' /\ ~Past("distributedInfo")'
  BY <1>1, <1>2 DEF Past
<1>4. Taken' = <<>>
  BY <1>1, <1>3 DEF Taken
<1>5. state'.rank = None
  BY <1>1 DEF ParserStart
<1> QED
  BY <1>1, <1>2, <1>3, <1>4, <1>5, NothingAbsorbed DEF ParserInv

\* A document is opened at its first entry with nothing absorbed.
LEMMA OpensAtStart ==
  ASSUME ParserInv, NEW d, IsDocument(d), NEW s, s # NoStem, Open(d, s)
  PROVE  ParserInv'
<1>1. /\ entry = 1 /\ element = 0 /\ state = ParserStart /\ result = None
      /\ UNCHANGED <<entry, element, state, result>> /\ doc' = d /\ stem' = s
  BY DEF Open, ParserInv
<1>2. d \in Seq(ToSet(d))
  BY DEF IsDocument
<1>3. DOMAIN d \subseteq Nat \ {0} /\ Len(d) \in Nat
  BY <1>2
<1>4. ~Past("traceEvents")' /\ ~Past("distributedInfo")'
  BY <1>1, <1>3 DEF Past
<1>5. Taken' = <<>>
  BY <1>1, <1>4 DEF Taken
<1>6. state'.rank = None /\ ~Idle'
  BY <1>1 DEF ParserStart, Idle, NoStem
<1>7. DOMAIN <<>> = {}
  OBVIOUS
<1> QED
  BY <1>1, <1>3, <1>4, <1>5, <1>6, <1>7, NothingAbsorbed DEF ParserInv

\* The reader moves on to the next entry.
LEMMA PastTurn ==
  ASSUME IsDocument(doc), entry \in DOMAIN doc, doc' = doc, entry' = entry + 1, NEW key
  PROVE  Past(key)' <=> Past(key) \/ doc[entry].key = key
<1>1. doc \in Seq(ToSet(doc))
  BY DEF IsDocument
<1>2. DOMAIN doc = 1..Len(doc) /\ Len(doc) \in Nat
  BY <1>1
<1>3. \A i \in DOMAIN doc : i < entry + 1 <=> i < entry \/ i = entry
  BY <1>2
<1> QED
  BY <1>3 DEF Past

\* An entry passed before has another key.
LEMMA NotYetPast ==
  ASSUME IsDocument(doc), entry \in DOMAIN doc
  PROVE  ~Past(doc[entry].key)
<1>1. doc \in Seq(ToSet(doc))
  BY DEF IsDocument
<1>2. DOMAIN doc = 1..Len(doc)
  BY <1>1
<1> QED
  BY <1>2 DEF Past, IsDocument

\* The entry next_key returns is one of the document until its end.
LEMMA EntryInDomain ==
  ASSUME ParserInv
  PROVE  /\ DOMAIN doc = 1..Len(doc) /\ Len(doc) \in Nat
         /\ entry <= Len(doc) => entry \in DOMAIN doc
<1>1. doc \in Seq(ToSet(doc))
  BY DEF ParserInv, IsDocument
<1>2. DOMAIN doc = 1..Len(doc) /\ Len(doc) \in Nat
  BY <1>1
<1> QED
  BY <1>2 DEF ParserInv

\* distributedInfo sets the rank and nothing else.
LEMMA DistributedInfoStep == ParserInv /\ DistributedInfo => ParserInv'
<1> SUFFICES ASSUME ParserInv, DistributedInfo PROVE ParserInv'
  OBVIOUS
<1>1. /\ ~Idle /\ result = None /\ element = 0 /\ entry <= Len(doc)
      /\ doc[entry].key = "distributedInfo"
      /\ entry' = entry + 1 /\ UNCHANGED <<doc, stem, element, result>>
  BY DEF DistributedInfo, Parsing, Busy
<1>2. DOMAIN doc = 1..Len(doc) /\ Len(doc) \in Nat /\ entry \in DOMAIN doc
  BY <1>1, EntryInDomain
<1>3. IsDocument(doc)
  BY DEF ParserInv
<1>4. /\ Past("traceEvents")' <=> Past("traceEvents")
      /\ Past("distributedInfo")' /\ ~Past("distributedInfo")
  BY <1>1, <1>2, <1>3, PastTurn, NotYetPast
<1>5. Taken' = Taken
  BY <1>1, <1>4 DEF Taken
<1>6. Absorbed(state, Taken) /\ IsState(state) /\ state.rank = None
  BY <1>4 DEF ParserInv, Absorbed
<1> DEFINE info == doc[entry].value
<1>7. Entry(doc, "distributedInfo") = Some(info)
  BY <1>1, <1>2, <1>3, EntryFacts
<1>8. state'.rank = RankOf(Some(info)) /\ Absorbed(state', Taken)
  <2>1. CASE IsObject(info) /\ "rank" \in DOMAIN info.obj
    <3>1. state' = [state EXCEPT !.rank = RankOf(Some(info))]
      BY <2>1 DEF DistributedInfo
    <3>2. /\ IsState(state') /\ state'.rank = RankOf(Some(info))
          /\ state'.streams = state.streams /\ state'.metadata = state.metadata
          /\ state'.minTs = state.minTs
      BY <1>6, <3>1 DEF IsState
    <3> QED
      BY <1>6, <3>2 DEF Absorbed
  <2>2. CASE ~(IsObject(info) /\ "rank" \in DOMAIN info.obj)
    <3>1. state' = state
      BY <2>2 DEF DistributedInfo
    <3>2. Some(info) # None /\ Some(info)[1] = info
      BY Options
    <3>3. AsI64(None) = None /\ AsStr(None) = None
      BY DEF AsI64, AsStr
    <3>4. RankOf(Some(info)) = None
      <4>1. (IF Some(info) # None /\ IsObject(Some(info)[1])
             THEN Get(Some(info)[1].obj, "rank") ELSE None) = None
        BY <2>2, <3>2 DEF Get
      <4> QED
        BY <3>3, <4>1, Zenon DEF RankOf
    <3> QED
      BY <1>6, <3>1, <3>4
  <2> QED
    BY <2>1, <2>2
<1>9. entry' \in 1..(Len(doc) + 1)
  BY <1>1, <1>2
<1> QED
  BY <1>1, <1>3, <1>4, <1>5, <1>7, <1>8, <1>9 DEF ParserInv, Idle

\* Another entry is skipped and absorbs nothing.
LEMMA OtherEntryStep == ParserInv /\ OtherEntry => ParserInv'
<1> SUFFICES ASSUME ParserInv, OtherEntry PROVE ParserInv'
  OBVIOUS
<1>1. /\ ~Idle /\ result = None /\ element = 0 /\ entry <= Len(doc)
      /\ doc[entry].key # "distributedInfo" /\ doc[entry].key # "traceEvents"
      /\ entry' = entry + 1 /\ UNCHANGED <<doc, stem, element, state, result>>
  BY DEF OtherEntry, Parsing, Busy
<1>2. DOMAIN doc = 1..Len(doc) /\ Len(doc) \in Nat /\ entry \in DOMAIN doc
  BY <1>1, EntryInDomain
<1>3. IsDocument(doc)
  BY DEF ParserInv
<1>4. /\ Past("traceEvents")' <=> Past("traceEvents")
      /\ Past("distributedInfo")' <=> Past("distributedInfo")
  BY <1>1, <1>2, <1>3, PastTurn
<1>5. Taken' = Taken
  BY <1>1, <1>4 DEF Taken
<1>6. entry' \in 1..(Len(doc) + 1)
  BY <1>1, <1>2
<1> QED
  BY <1>1, <1>3, <1>4, <1>5, <1>6 DEF ParserInv, Idle

\* The array is entered at its first element, or the parse fails.
LEMMA TraceEventsStep == ParserInv /\ TraceEvents => ParserInv'
<1> SUFFICES ASSUME ParserInv, TraceEvents PROVE ParserInv'
  OBVIOUS
<1>1. /\ ~Idle /\ result = None /\ element = 0 /\ entry <= Len(doc)
      /\ doc[entry].key = "traceEvents" /\ UNCHANGED <<doc, stem, entry, state>>
  BY DEF TraceEvents, Parsing, Busy
<1>2. entry \in DOMAIN doc
  BY <1>1, EntryInDomain
<1>3. IsDocument(doc)
  BY DEF ParserInv
<1>4. HasEvents(doc) /\ Entry(doc, "traceEvents")[1] = doc[entry].value
  BY <1>1, <1>2, <1>3, EventsEntry
<1>5. ~Past("traceEvents")
  BY <1>1, <1>2, <1>3, NotYetPast
<1>6. Past("traceEvents")' = Past("traceEvents") /\ Past("distributedInfo")' = Past("distributedInfo")
  BY <1>1 DEF Past
<1>7. CASE Is(doc[entry].value, "arr")
  <2>1. element' = 1 /\ result' = None
    BY <1>1, <1>7 DEF TraceEvents
  <2>2. HasArray(doc)
    BY <1>4, <1>7 DEF HasArray
  <2>3. Array(doc) \in Seq(ToSet(Array(doc)))
    BY <1>3, <2>2, ArrayFacts
  <2>4. Taken = <<>>
    BY <1>1, <1>5 DEF Taken
  <2>5. Taken' = <<>>
    <3>1. Taken' = Prefix(Array(doc), 0)
      BY <1>1, <2>1 DEF Taken
    <3> QED
      BY <2>3, <3>1, PrefixLaws
  <2>6. 1 <= Len(Array(doc)) + 1
    BY <2>3
  <2> QED
    BY <1>1, <1>3, <1>6, <1>7, <2>1, <2>4, <2>5, <2>6 DEF ParserInv, Idle
<1>8. CASE ~Is(doc[entry].value, "arr")
  <2>1. element' = element /\ result' = Some(Failed)
    BY <1>1, <1>8 DEF TraceEvents
  <2>2. ~Readable(doc)
    BY <1>4, <1>8 DEF Readable, HasArray
  <2>3. Taken' = Taken
    BY <1>1, <1>6, <2>1 DEF Taken
  <2> QED
    BY <1>1, <1>3, <1>6, <2>1, <2>2, <2>3 DEF ParserInv, Idle
<1> QED
  BY <1>7, <1>8

\* Inside "traceEvents".
LEMMA InArray ==
  ASSUME ParserInv, element > 0
  PROVE  /\ entry \in DOMAIN doc /\ doc[entry].key = "traceEvents"
         /\ HasArray(doc) /\ Array(doc) = Elements
         /\ Array(doc) \in Seq(ToSet(Array(doc)))
         /\ \A i \in DOMAIN Array(doc) :
              IsObject(Array(doc)[i]) => NumericFields(Array(doc)[i].obj)
<1>1. /\ entry <= Len(doc) /\ doc[entry].key = "traceEvents" /\ Is(doc[entry].value, "arr")
      /\ IsDocument(doc)
  BY DEF ParserInv
<1>2. entry \in DOMAIN doc
  BY <1>1, EntryInDomain
<1>3. /\ HasEvents(doc) /\ Entry(doc, "traceEvents")[1] = doc[entry].value
      /\ Array(doc) = doc[entry].value.arr
  BY <1>1, <1>2, EventsEntry
<1>4. HasArray(doc)
  BY <1>1, <1>3 DEF HasArray
<1> QED
  BY <1>1, <1>2, <1>3, <1>4, ArrayFacts DEF Elements

\* One element is absorbed, or the parse fails.
LEMMA NextElementStep == ParserInv /\ NextElement => ParserInv'
<1> SUFFICES ASSUME ParserInv, NextElement PROVE ParserInv'
  OBVIOUS
<1> DEFINE arr == Array(doc)
           v == arr[element]
<1>1. /\ ~Idle /\ result = None /\ element > 0 /\ element \in Nat
      /\ element <= Len(Elements) /\ UNCHANGED <<doc, stem, entry>>
  BY DEF NextElement, InTraceEvents, Busy, ParserInv
<1>2. /\ entry \in DOMAIN doc /\ doc[entry].key = "traceEvents"
      /\ HasArray(doc) /\ arr = Elements /\ arr \in Seq(ToSet(arr))
      /\ \A i \in DOMAIN arr : IsObject(arr[i]) => NumericFields(arr[i].obj)
  BY <1>1, InArray
<1>3. element \in DOMAIN arr /\ element \in 1..Len(arr) /\ Len(arr) \in Nat
  BY <1>1, <1>2
<1>4. Past("traceEvents")' = Past("traceEvents") /\ Past("distributedInfo")' = Past("distributedInfo")
  BY <1>1 DEF Past
<1>5. IsDocument(doc)
  BY DEF ParserInv
<1>6. CASE IsRawEvent(v)
  <2>1. state' = Absorb(state, v.obj) /\ element' = element + 1 /\ result' = result
    BY <1>2, <1>6 DEF NextElement
  <2>2. Taken = Prefix(arr, element - 1)
    BY <1>1 DEF Taken
  <2>3. Taken' = Prefix(arr, element)
    BY <1>1, <2>1 DEF Taken, Array
  <2>4. Prefix(arr, element) = Append(Prefix(arr, element - 1), v)
    <3>1. element - 1 \in 0..Len(arr) /\ element - 1 < Len(arr) /\ (element - 1) + 1 = element
      BY <1>1, <1>3
    <3> HIDE DEF arr
    <3> QED
      BY <1>2, <3>1, PrefixLaws
  <2>5. Taken \in Seq(ToSet(Taken))
    <3>1. element - 1 \in 0..Len(arr)
      BY <1>1, <1>3
    <3> HIDE DEF arr
    <3> QED
      BY <1>2, <2>2, <3>1, PrefixLaws
  <2>6. IsObject(v) /\ NumericFields(v.obj)
    BY <1>2, <1>3, <1>6 DEF IsRawEvent
  <2>7. Absorbed(state, Taken) /\ \A i \in DOMAIN Taken : IsRawEvent(Taken[i])
    BY DEF ParserInv
  <2> HIDE DEF v
  <2>8. Absorbed(state', Taken')
    <3>1. Absorbed(Absorb(state, v.obj), Append(Taken, v))
      BY <2>5, <2>6, <2>7, AbsorbedTurn
    <3> QED
      BY <2>1, <2>2, <2>3, <2>4, <3>1
  <2>9. \A i \in DOMAIN Taken' : IsRawEvent(Taken'[i])
    BY <1>6, <2>2, <2>3, <2>4, <2>5, <2>7, AppendFacts
  <2>10. state'.rank = state.rank
    <3>1. IsState(state)
      BY DEF ParserInv, Absorbed
    <3> QED
      BY <2>1, <3>1 DEF Absorb, IsState
  <2>11. element' \in Nat /\ element' <= Len(arr) + 1
    BY <1>1, <1>3, <2>1
  <2> QED
    BY <1>1, <1>4, <1>5, <2>1, <2>8, <2>9, <2>10, <2>11 DEF ParserInv, Idle, Array
<1>7. CASE ~IsRawEvent(v)
  <2>1. result' = Some(Failed) /\ state' = state /\ element' = element
    BY <1>2, <1>7 DEF NextElement
  <2>2. ~Readable(doc)
    BY <1>2, <1>3, <1>7 DEF Readable, HasArray
  <2>3. Taken' = Taken
    BY <1>1, <1>4, <2>1 DEF Taken, Array
  <2> QED
    BY <1>1, <1>4, <1>5, <2>1, <2>2, <2>3 DEF ParserInv, Idle, Array
<1> QED
  BY <1>6, <1>7

\* At its end all elements of the array are absorbed.
LEMMA EndOfArrayStep == ParserInv /\ EndOfArray => ParserInv'
<1> SUFFICES ASSUME ParserInv, EndOfArray PROVE ParserInv'
  OBVIOUS
<1> DEFINE arr == Array(doc)
<1>1. /\ ~Idle /\ result = None /\ element > 0 /\ element \in Nat
      /\ element > Len(Elements) /\ element' = 0 /\ entry' = entry + 1
      /\ UNCHANGED <<doc, stem, state, result>>
  BY DEF EndOfArray, InTraceEvents, Busy, ParserInv
<1>2. /\ entry \in DOMAIN doc /\ doc[entry].key = "traceEvents"
      /\ HasArray(doc) /\ arr = Elements /\ arr \in Seq(ToSet(arr))
  BY <1>1, InArray
<1>3. IsDocument(doc) /\ element <= Len(arr) + 1
  BY <1>1 DEF ParserInv
<1>4. element - 1 = Len(arr)
  BY <1>1, <1>2, <1>3
<1>5. /\ Past("traceEvents")'
      /\ Past("distributedInfo")' <=> Past("distributedInfo")
  BY <1>1, <1>2, <1>3, PastTurn
<1>6. Taken' = Taken
  <2>1. Taken = Prefix(arr, Len(arr))
    BY <1>1, <1>4 DEF Taken
  <2>2. Taken' = arr
    BY <1>1, <1>5 DEF Taken, Array
  <2> QED
    BY <1>2, <2>1, <2>2, PrefixLaws
<1>7. entry' \in 1..(Len(doc) + 1)
  BY <1>1, <1>2, EntryInDomain
<1>8. HasArray(doc)'
  BY <1>1, <1>2 DEF HasArray, HasEvents
<1> QED
  BY <1>1, <1>3, <1>5, <1>6, <1>7, <1>8 DEF ParserInv, Idle

\* At the end of the text the trace is finished from what was absorbed.
LEMMA EndOfTextStep == ParserInv /\ EndOfText => ParserInv'
<1> SUFFICES ASSUME ParserInv, EndOfText PROVE ParserInv'
  OBVIOUS
<1>1. /\ ~Idle /\ result = None /\ element = 0 /\ entry > Len(doc)
      /\ result' = Some(Finished(state, stem)) /\ UNCHANGED <<doc, stem, entry, element, state>>
  BY DEF EndOfText, Busy
<1>2. entry = Len(doc) + 1
  BY <1>1, EntryInDomain DEF ParserInv
<1>3. Past("traceEvents")' = Past("traceEvents") /\ Past("distributedInfo")' = Past("distributedInfo")
  BY <1>1 DEF Past
<1>4. Taken' = Taken
  BY <1>1, <1>3 DEF Taken, Array
<1> QED
  BY <1>1, <1>2, <1>3, <1>4 DEF ParserInv, Idle

\* Every step of the visitor keeps the invariant.
LEMMA ParserStepKeeps == ParserInv /\ ParserStep => ParserInv'
BY DistributedInfoStep, OtherEntryStep, TraceEventsStep, NextElementStep, EndOfArrayStep,
   EndOfTextStep DEF ParserStep

-----------------------------------------------------------------------------
(* What the streaming reader returns.                                       *)

Tree(d) == IF HasEvents(d) THEN Array(d) ELSE <<>>

\* A document without distributedInfo names no rank.
LEMMA RankOfNothing == RankOf(None) = None
<1>1. AsI64(None) = None /\ AsStr(None) = None
  BY DEF AsI64, AsStr
<1>2. (IF None # None /\ IsObject(None[1]) THEN Get(None[1].obj, "rank") ELSE None) = None
  OBVIOUS
<1> QED
  BY <1>1, <1>2, Zenon DEF RankOf

\* A parse that succeeded has absorbed the whole array and the rank of the document.
LEMMA AtTheEnd ==
  ASSUME ParserInv, result # None, result[1].ok
  PROVE  /\ result = Some(Finished(state, stem)) /\ Readable(doc) /\ Taken = Tree(doc)
         /\ state.rank = RankOf(Entry(doc, "distributedInfo"))
<1>1. result # Some(Failed)
  BY Options DEF Failed
<1>2. /\ result = Some(Finished(state, stem)) /\ entry = Len(doc) + 1 /\ element = 0
      /\ IsDocument(doc)
  BY <1>1 DEF ParserInv
<1>3. DOMAIN doc = 1..Len(doc) /\ Len(doc) \in Nat
  BY EntryInDomain
<1>4. \A key : Past(key) <=> Entry(doc, key) # None
  <2>1. \A key : Past(key) <=> \E i \in DOMAIN doc : doc[i].key = key
    BY <1>2, <1>3 DEF Past
  <2> QED
    BY <1>2, <2>1, EntryFacts
<1>5. Past("traceEvents") <=> HasEvents(doc)
  BY <1>4 DEF HasEvents
<1>6. Taken = Tree(doc)
  BY <1>2, <1>5 DEF Taken, Tree
<1>7. Readable(doc)
  BY <1>5, <1>6 DEF ParserInv, Readable, Tree
<1>8. state.rank = RankOf(Entry(doc, "distributedInfo"))
  BY <1>4, RankOfNothing DEF ParserInv
<1> QED
  BY <1>2, <1>6, <1>7, <1>8

\* The elements of a document the streaming reader accepts are raw events.
LEMMA TreeFacts ==
  ASSUME ParserInv, Readable(doc)
  PROVE  /\ Tree(doc) \in Seq(ToSet(Tree(doc)))
         /\ \A i \in DOMAIN Tree(doc) : IsRawEvent(Tree(doc)[i]) /\ IsObject(Tree(doc)[i])
                                        /\ NumericFields(Tree(doc)[i].obj)
<1>1. IsDocument(doc)
  BY DEF ParserInv
<1>2. CASE HasEvents(doc)
  <2>1. HasArray(doc) /\ \A i \in DOMAIN Array(doc) : IsRawEvent(Array(doc)[i])
    BY <1>2 DEF Readable
  <2>2. /\ Array(doc) \in Seq(ToSet(Array(doc)))
        /\ \A i \in DOMAIN Array(doc) : IsObject(Array(doc)[i]) => NumericFields(Array(doc)[i].obj)
    BY <1>1, <2>1, ArrayFacts
  <2> QED
    BY <1>2, <2>1, <2>2 DEF Tree, IsRawEvent
<1>3. CASE ~HasEvents(doc)
  BY <1>3 DEF Tree
<1> QED
  BY <1>2, <1>3

\* The trace is the one a full-tree reader with the streaming conversions would
\* build, but for the origin when there is none.
LEMMA StreamResult ==
  ASSUME ParserInv, result # None, result[1].ok
  PROVE  LET s == Staged("stream", Tree(doc))
             t == StartTs(state)
         IN  /\ result[1] = Trace(UnwrapOr(RankOf(Entry(doc, "distributedInfo")), stem),
                                  PushAll(s.staging, t), s.metadata, t)
             /\ Minimum(state.minTs, s.staging)
<1> DEFINE s == Staged("stream", Tree(doc))
           t == StartTs(state)
<1>1. /\ result = Some(Finished(state, stem)) /\ Readable(doc) /\ Taken = Tree(doc)
      /\ state.rank = RankOf(Entry(doc, "distributedInfo"))
  BY AtTheEnd
<1>2. /\ state.streams = PushAll(s.staging, 0) /\ state.metadata = s.metadata
      /\ Minimum(state.minTs, s.staging) /\ \A i \in DOMAIN s.staging : Shiftable(s.staging[i])
  BY <1>1 DEF ParserInv, Absorbed
<1>3. s.staging \in Seq(ToSet(s.staging))
  <2>1. s \in StageSet("stream", Tree(doc))
    BY <1>1, TreeFacts, StagedType
  <2>2. PICK E, M : s \in [staging : Seq(E), metadata : Seq(M)]
    BY <2>1 DEF StageSet
  <2> HIDE DEF s
  <2>3. s.staging \in Seq(E)
    BY <2>2
  <2> QED
    BY <2>3 DEF ToSet
<1> HIDE DEF s, t
<1>4. Finished(state, stem) = Trace(UnwrapOr(state.rank, stem), Rebased(state.streams, t),
                                    state.metadata, t)
  BY DEF Finished, Rebased, t
<1>5. PushAll(s.staging, t) = Rebased(state.streams, t)
  BY <1>2, <1>3, Rebase
<1>6. result[1] = Finished(state, stem)
  BY <1>1, Options
<1> QED
  BY <1>1, <1>2, <1>4, <1>5, <1>6 DEF s, t

\* The running minimum is the least timestamp the full-tree readers take, when no
\* timestamp is the one that means "no event yet".
LEMMA LeastOfMinimum ==
  ASSUME NEW st, NEW s, s \in Seq(ToSet(s)), Minimum(st.minTs, s),
         \A i \in DOMAIN s : s[i].ts # MaxInt64
  PROVE  StartTs(st) = LeastTs(s)
<1>1. Int64 \subseteq Int /\ MaxInt64 \in Int64 /\ \A x \in Int64 : x <= MaxInt64
  BY MaxInt64Assumption DEF Int64
<1>2. CASE s = <<>>
  BY <1>2 DEF Minimum, StartTs, LeastTs
<1>3. CASE s # <<>>
  <2>1. DOMAIN s # {}
    BY <1>3
  <2>2. PICK i \in DOMAIN s : st.minTs = s[i].ts
    <3>1. PICK j \in DOMAIN s : s[j].ts # MaxInt64 /\ s[j].ts \in Int64 /\ st.minTs <= s[j].ts
      BY <2>1 DEF Minimum
    <3>2. st.minTs # MaxInt64
      <4>1. s[j].ts \in Int /\ s[j].ts <= MaxInt64 /\ MaxInt64 \in Int
        BY <1>1, <3>1
      <4> QED
        BY <3>1, <4>1
    <3> QED
      BY <3>2 DEF Minimum
  <2>3. st.minTs # MaxInt64
    BY <2>2
  <2> DEFINE T == {s[j].ts : j \in DOMAIN s}
  <2>4. st.minTs \in T /\ \A y \in T : y \in Int /\ st.minTs <= y
    BY <1>1, <2>2 DEF Minimum
  <2>5. LeastTs(s) = Min(T)
    BY <1>3 DEF LeastTs
  <2> HIDE DEF T
  <2>6. Min(T) \in T /\ \A y \in T : Min(T) <= y
    BY <2>4 DEF Min
  <2>7. Min(T) = st.minTs
    BY <2>4, <2>6
  <2> QED
    BY <2>3, <2>5, <2>7 DEF StartTs
<1> QED
  BY <1>2, <1>3

-----------------------------------------------------------------------------
(* The properties of the readers.                                           *)

\* The values on which the conversions agree.
LEMMA SameNumbers ==
  ASSUME NEW opt,
         opt # None => \/ Is(opt[1], "int") /\ opt[1].int \in Int64
                       \/ Is(opt[1], "flt") \/ Is(opt[1], "nul")
  PROVE  LossyI64("stream", opt) = LossyI64("simd", opt)
<1>1. CASE opt = None
  BY <1>1 DEF LossyI64, StreamI64, SimdI64, AsI64, AsF64Truncated, OrElse
<1>2. CASE opt # None /\ Is(opt[1], "int") /\ opt[1].int \in Int64
  <2>1. StreamI64(opt) = Some(opt[1].int)
    <3>1. StreamI64(opt) = Some(Wrap64(opt[1].int))
      BY <1>2 DEF StreamI64, Is
    <3> QED
      BY <1>2, <3>1, Wrapped
  <2>2. AsI64(opt) = Some(opt[1].int)
    BY <1>2 DEF AsI64
  <2> QED
    BY <2>1, <2>2, Options DEF LossyI64, SimdI64
<1>3. CASE opt # None /\ Is(opt[1], "flt")
  <2>1. StreamI64(opt) = AsF64Truncated(opt)
    BY <1>3 DEF StreamI64, Is
  <2>2. AsI64(opt) = None
    BY <1>3 DEF AsI64, Is
  <2> QED
    BY <2>1, <2>2, Options DEF LossyI64, SimdI64
<1>4. CASE opt # None /\ Is(opt[1], "nul")
  <2>1. StreamI64(opt) = None
    BY <1>4 DEF StreamI64, Is
  <2>2. AsI64(opt) = None /\ AsF64Truncated(opt) = None
    BY <1>4 DEF AsI64, AsF64Truncated, Is
  <2> QED
    BY <2>1, <2>2, Options DEF LossyI64, SimdI64
<1> QED
  BY <1>1, <1>2, <1>3, <1>4

\* The streaming and the simd-json reader read the same pid of the format's values.
LEMMA SamePids ==
  ASSUME NEW opt,
         opt # None => \/ Is(opt[1], "int") /\ opt[1].int \in Int64
                       \/ Is(opt[1], "flt") \/ Is(opt[1], "nul") \/ Is(opt[1], "str")
  PROVE  Pid("stream", opt) = Pid("simd", opt)
<1> DEFINE parsed == LET s == AsStr(opt) IN IF s = None THEN None ELSE ParseI64(s[1])
<1>1. /\ Pid("stream", opt) = UnwrapOr(LossyI64("stream", opt), 0)
      /\ Pid("simd", opt) = UnwrapOr(OrElse(SimdI64(opt), parsed), 0)
  BY DEF Pid
<1>2. CASE opt # None /\ Is(opt[1], "str")
  <2>1. StreamI64(opt) = Some(UnwrapOr(ParseI64(opt[1].str), 0))
    BY <1>2 DEF StreamI64, Is
  <2>2. LossyI64("stream", opt) = Some(UnwrapOr(ParseI64(opt[1].str), 0))
    BY <2>1 DEF LossyI64
  <2>3. SimdI64(opt) = None
    BY <1>2 DEF SimdI64, AsI64, AsF64Truncated, Is, OrElse
  <2>4. parsed = ParseI64(opt[1].str)
    BY <1>2, Options DEF AsStr
  <2> HIDE DEF parsed
  <2> QED
    BY <1>1, <2>2, <2>3, <2>4, Options
<1>3. CASE ~(opt # None /\ Is(opt[1], "str"))
  <2>1. parsed = None
    BY <1>3 DEF AsStr
  <2>2. LossyI64("stream", opt) = SimdI64(opt)
    BY <1>3, SameNumbers DEF LossyI64
  <2>3. OrElse(SimdI64(opt), None) = SimdI64(opt)
    BY DEF OrElse
  <2> HIDE DEF parsed
  <2> QED
    BY <1>1, <2>1, <2>2, <2>3
<1> QED
  BY <1>2, <1>3

\* A field of the trace format, absent or present.
LEMMA FormatField ==
  ASSUME NEW obj, NEW field,
         field \in DOMAIN obj => \E kind \in FormatKinds(field) : Is(obj[field], kind)
  PROVE  LET opt == Get(obj, field)
         IN  opt # None => field \in DOMAIN obj /\ opt[1] = obj[field]
                           /\ \E kind \in FormatKinds(field) : Is(opt[1], kind)
<1>1. \A x : Some(x) # None /\ Some(x)[1] = x
  BY Options
<1> QED
  BY <1>1 DEF Get

\* An object of the trace format.
FormatObject(obj) ==
  \A field \in DOMAIN obj :
    /\ \E kind \in FormatKinds(field) : Is(obj[field], kind)
    /\ field # "tid" /\ Is(obj[field], "int") => obj[field].int \in Int64

\* They build the same event and the same metadata record of an object of the format.
LEMMA SameRecords ==
  ASSUME NEW obj, FormatObject(obj)
  PROVE  /\ Event("stream", obj) = Event("simd", obj)
         /\ MetadataEvent("stream", obj) = MetadataEvent("simd", obj)
<1>1. LossyI64("stream", Get(obj, "ts")) = LossyI64("simd", Get(obj, "ts"))
  <2>1. FormatKinds("ts") = {"int", "flt", "nul"}
    BY DEF FormatKinds
  <2> QED
    BY <2>1, FormatField, SameNumbers DEF FormatObject
<1>2. LossyI64("stream", Get(obj, "dur")) = LossyI64("simd", Get(obj, "dur"))
  <2>1. FormatKinds("dur") = {"int", "flt", "nul"}
    BY DEF FormatKinds
  <2> QED
    BY <2>1, FormatField, SameNumbers DEF FormatObject
<1>3. Pid("stream", Get(obj, "pid")) = Pid("simd", Get(obj, "pid"))
  <2>1. FormatKinds("pid") = {"int", "flt", "str", "nul"}
    BY DEF FormatKinds
  <2> QED
    BY <2>1, FormatField, SamePids DEF FormatObject
<1>4. RawTid("stream", Get(obj, "tid")) = RawTid("simd", Get(obj, "tid"))
  <2>1. FormatKinds("tid") = {"int", "str", "nul"}
    BY DEF FormatKinds
  <2>2. Get(obj, "tid") # None => ~Is(Get(obj, "tid")[1], "flt")
    BY <2>1, FormatField, ZenonT(40) DEF FormatObject, Is
  <2> QED
    BY <2>2 DEF RawTid
<1>5. Args(Get(obj, "args")) = None => Get(obj, "args") = None
  <2>1. FormatKinds("args") = {"obj"}
    BY DEF FormatKinds
  <2>2. Get(obj, "args") # None => IsObject(Get(obj, "args")[1])
    BY <2>1, FormatField DEF FormatObject, IsObject
  <2> QED
    BY <2>2, Options DEF Args
<1>6. Event("stream", obj) = Event("simd", obj)
  BY <1>1, <1>2, <1>3, <1>4 DEF Event
<1>7. MetadataEvent("stream", obj) = MetadataEvent("simd", obj)
  BY <1>3, <1>4, <1>5 DEF MetadataEvent
<1> QED
  BY <1>6, <1>7

\* A document of the Chrome trace format is one every reader accepts.
LEMMA ChromeFacts ==
  ASSUME ParserInv, ChromeTyped(doc)
  PROVE  /\ HasArray(doc) /\ Readable(doc) /\ Tree(doc) = Array(doc)
         /\ Array(doc) \in Seq(ToSet(Array(doc)))
         /\ \A i \in DOMAIN Array(doc) :
              /\ IsObject(Array(doc)[i]) /\ FormatObject(Array(doc)[i].obj)
              /\ NumericFields(Array(doc)[i].obj)
              /\ SimdI64(Get(Array(doc)[i].obj, "ts")) # Some(MaxInt64)
<1>1. HasArray(doc) /\ HasEvents(doc)
  BY DEF ChromeTyped, HasArray, HasEvents
<1>2. \A i \in DOMAIN Array(doc) :
        /\ IsObject(Array(doc)[i]) /\ FormatObject(Array(doc)[i].obj)
        /\ SimdI64(Get(Array(doc)[i].obj, "ts")) # Some(MaxInt64)
  BY DEF ChromeTyped, Array, FormatObject
<1>3. \A field : FormatKinds(field) \subseteq Kinds(field)
  BY DEF FormatKinds, Kinds
<1>4. Readable(doc)
  BY <1>1, <1>2, <1>3 DEF Readable, IsRawEvent, FormatObject
<1>5. /\ Array(doc) \in Seq(ToSet(Array(doc)))
      /\ \A i \in DOMAIN Array(doc) : IsObject(Array(doc)[i]) => NumericFields(Array(doc)[i].obj)
  BY <1>1, ArrayFacts DEF ParserInv
<1> QED
  BY <1>1, <1>2, <1>4, <1>5 DEF Tree

\* What is staged are sequences, of events built from the elements.
LEMMA StagedSequences ==
  ASSUME NEW reader, NEW arr, arr \in Seq(ToSet(arr))
  PROVE  LET s == Staged(reader, arr)
         IN  /\ s.staging \in Seq(ToSet(s.staging)) /\ s.metadata \in Seq(ToSet(s.metadata))
             /\ \A i \in DOMAIN s.staging : s.staging[i] \in EventSet(reader, arr)
<1> DEFINE s == Staged(reader, arr)
<1>1. s \in StageSet(reader, arr)
  BY StagedType
<1>2. PICK M : s \in [staging : Seq(EventSet(reader, arr)), metadata : Seq(M)]
  BY <1>1 DEF StageSet
<1> HIDE DEF s
<1>3. s.staging \in Seq(EventSet(reader, arr)) /\ s.metadata \in Seq(M)
  BY <1>2
<1>4. s.staging \in Seq(ToSet(s.staging)) /\ s.metadata \in Seq(ToSet(s.metadata))
  <2>1. \A S : \A q \in Seq(S) : q \in Seq(ToSet(q))
    BY DEF ToSet
  <2> QED
    BY <1>3, <2>1
<1>5. \A i \in DOMAIN s.staging : s.staging[i] \in EventSet(reader, arr)
  BY <1>3
<1> QED
  BY <1>4, <1>5 DEF s

\* A full-tree reader fails without the array and else returns what it staged.
LEMMA FullTreeTrace ==
  ASSUME NEW reader, NEW d, NEW name
  PROVE  /\ ~HasArray(d) => FullTree(reader, d, name) = Failed
         /\ HasArray(d) =>
              LET s == Staged(reader, Array(d))
                  t == LeastTs(s.staging)
              IN  FullTree(reader, d, name) =
                    Trace(UnwrapOr(RankOf(Entry(d, "distributedInfo")), name),
                          PushAll(s.staging, t), s.metadata, t)
BY DEF FullTree, HasArray, HasEvents, Array

\* The streaming reader and the simd-json reader on a document of the format.
LEMMA StreamedAsTree ==
  ASSUME ParserInv, result # None, ChromeTyped(doc)
  PROVE  result[1] = SimdRead(doc, stem)
<1> DEFINE arr == Array(doc)
           s == Staged("simd", arr)
<1>1. /\ HasArray(doc) /\ Readable(doc) /\ Tree(doc) = arr /\ arr \in Seq(ToSet(arr))
      /\ \A i \in DOMAIN arr :
           /\ IsObject(arr[i]) /\ FormatObject(arr[i].obj) /\ NumericFields(arr[i].obj)
           /\ SimdI64(Get(arr[i].obj, "ts")) # Some(MaxInt64)
  BY ChromeFacts
<1>2. result = Some(Finished(state, stem)) /\ result[1].ok
  <2>1. result = Some(Finished(state, stem))
    BY <1>1 DEF ParserInv
  <2>2. Finished(state, stem).ok
    BY DEF Finished, Trace
  <2> QED
    BY <2>1, <2>2, Options
<1>3. Staged("stream", arr) = s
  BY <1>1, SameRecords, StagedEqual DEF Objects
<1>4. /\ result[1] = Trace(UnwrapOr(RankOf(Entry(doc, "distributedInfo")), stem),
                           PushAll(s.staging, StartTs(state)), s.metadata, StartTs(state))
      /\ Minimum(state.minTs, s.staging)
  BY <1>1, <1>2, <1>3, StreamResult
<1>5. \A i \in DOMAIN arr : Event("simd", arr[i].obj).ts # MaxInt64
  <2> SUFFICES ASSUME NEW i \in DOMAIN arr PROVE Event("simd", arr[i].obj).ts # MaxInt64
    OBVIOUS
  <2> DEFINE opt == Get(arr[i].obj, "ts")
  <2>1. SimdI64(opt) \in Opt64 /\ SimdI64(opt) # Some(MaxInt64)
    <3>1. LossyI64("simd", opt) \in Opt64
      BY <1>1, LossyType DEF AllReaders, NumericFields, Get
    <3> QED
      BY <1>1, <3>1 DEF LossyI64
  <2>2. Event("simd", arr[i].obj).ts = UnwrapOr(SimdI64(opt), 0)
    BY DEF Event, LossyI64
  <2> HIDE DEF opt
  <2> QED
    BY <2>1, <2>2, Options, MaxInt64Assumption DEF Opt64
<1>6. s.staging \in Seq(ToSet(s.staging)) /\ \A i \in DOMAIN s.staging : s.staging[i].ts # MaxInt64
  BY <1>1, <1>5, StagedSequences DEF EventSet, Objects
<1> HIDE DEF s
<1>7. StartTs(state) = LeastTs(s.staging)
  BY <1>4, <1>6, LeastOfMinimum
<1> QED
  BY <1>1, <1>4, <1>7, FullTreeTrace DEF SimdRead, s

\* Any document with events that the streaming reader accepts.
LEMMA StreamedIsStricter ==
  ASSUME ParserInv, result # None, result[1].ok, HasEvents(doc)
  PROVE  LET simd == SimdRead(doc, stem)
         IN  /\ simd.ok /\ EventCount(simd) = EventCount(result[1])
             /\ Names(simd) = Names(result[1])
<1> DEFINE arr == Array(doc)
           a == Staged("simd", arr)
           b == Staged("stream", arr)
           rank == UnwrapOr(RankOf(Entry(doc, "distributedInfo")), stem)
           ta == LeastTs(a.staging)
           tb == StartTs(state)
           simd == SimdRead(doc, stem)
<1>1. Readable(doc) /\ HasArray(doc) /\ Tree(doc) = arr
  BY AtTheEnd DEF Readable, Tree
<1>2. arr \in Seq(ToSet(arr))
  BY <1>1, TreeFacts
<1>3. /\ a.staging \in Seq(ToSet(a.staging)) /\ b.staging \in Seq(ToSet(b.staging))
      /\ a.metadata \in Seq(ToSet(a.metadata)) /\ b.metadata \in Seq(ToSet(b.metadata))
  BY <1>2, StagedSequences
<1>4. SameNames(a, b)
  BY <1>2, StagedAlike
<1>5. /\ simd = Trace(rank, PushAll(a.staging, ta), a.metadata, ta)
      /\ result[1] = Trace(rank, PushAll(b.staging, tb), b.metadata, tb)
  BY <1>1, FullTreeTrace, StreamResult DEF SimdRead
<1> HIDE DEF a, b, rank, ta, tb, simd
<1>6. /\ Total(PushAll(a.staging, ta)) = Len(a.staging) /\ Len(a.staging) \in Nat
      /\ Total(PushAll(b.staging, tb)) = Len(b.staging) /\ Len(b.staging) \in Nat
  BY <1>3, TotalOfPushAll
<1>7. EventCount(simd) = EventCount(result[1])
  BY <1>4, <1>5, <1>6, CountOfTrace DEF SameNames
<1>8. Names(simd) = Names(result[1])
  <2>1. /\ DOMAIN a.metadata = 1..Len(a.metadata) /\ DOMAIN b.metadata = 1..Len(b.metadata)
        /\ Len(a.metadata) = Len(b.metadata)
    BY <1>3, <1>4 DEF SameNames
  <2>2. [i \in DOMAIN a.metadata |-> a.metadata[i].name]
          = [i \in DOMAIN b.metadata |-> b.metadata[i].name]
    BY <1>4, <2>1 DEF SameNames
  <2>3. \A s, m, t : LET tr == Trace(rank, s, m, t)
                     IN  Names(tr) = [r \in {rank} |-> [i \in DOMAIN m |-> m[i].name]]
    BY DEF Names, Trace
  <2> QED
    BY <1>5, <2>2, <2>3
<1>9. simd.ok
  BY <1>5 DEF Trace
<1> QED
  BY <1>7, <1>8, <1>9 DEF simd

\* The conversions of the serde_json reader, on documents with no number that is
\* a float or a text where an i64 is kept.
LEMMA SerdeRecords ==
  ASSUME NEW obj, FormatObject(obj),
         \A field \in DOMAIN obj \cap {"ts", "dur", "pid"} :
           ~Is(obj[field], "flt") /\ ~Is(obj[field], "str")
  PROVE  /\ Event("serde", obj) = Event("simd", obj)
         /\ MetadataEvent("serde", obj) = MetadataEvent("simd", obj)
<1>1. ASSUME NEW field \in {"ts", "dur", "pid"}
      PROVE  LET opt == Get(obj, field)
             IN  opt # None => ~Is(opt[1], "flt") /\ ~Is(opt[1], "str")
  BY Options DEF Get
<1>2. \A opt : (opt # None => ~Is(opt[1], "flt")) => SimdI64(opt) = SerdeI64(opt)
  BY DEF SimdI64, SerdeI64, AsF64Truncated, OrElse
<1>3. \A opt : (opt # None => ~Is(opt[1], "flt") /\ ~Is(opt[1], "str")) =>
                 Pid("serde", opt) = Pid("simd", opt)
  <2> SUFFICES ASSUME NEW opt, opt # None => ~Is(opt[1], "flt") /\ ~Is(opt[1], "str")
               PROVE  Pid("serde", opt) = Pid("simd", opt)
    OBVIOUS
  <2>1. AsStr(opt) = None /\ SimdI64(opt) = SerdeI64(opt)
    BY <1>2 DEF AsStr
  <2>2. \A a : OrElse(a, None) = a
    BY DEF OrElse
  <2> QED
    BY <2>1, <2>2 DEF Pid, LossyI64
<1>4. RawTid("serde", Get(obj, "tid")) = RawTid("simd", Get(obj, "tid"))
  <2>1. FormatKinds("tid") = {"int", "str", "nul"}
    BY DEF FormatKinds
  <2>2. Get(obj, "tid") # None => ~Is(Get(obj, "tid")[1], "flt")
    BY <2>1, FormatField DEF FormatObject, Is
  <2> QED
    BY <2>2 DEF RawTid
<1>5. /\ LossyI64("serde", Get(obj, "ts")) = LossyI64("simd", Get(obj, "ts"))
      /\ LossyI64("serde", Get(obj, "dur")) = LossyI64("simd", Get(obj, "dur"))
      /\ Pid("serde", Get(obj, "pid")) = Pid("simd", Get(obj, "pid"))
  BY <1>1, <1>2, <1>3 DEF LossyI64
<1>6. Event("serde", obj) = Event("simd", obj)
  BY <1>4, <1>5 DEF Event
<1>7. MetadataEvent("serde", obj) = MetadataEvent("simd", obj)
  BY <1>4, <1>5 DEF MetadataEvent
<1> QED
  BY <1>6, <1>7

\* The serde_json reader returns what the simd-json one does when no i64 field is a
\* float or a text.
LEMMA SerdeAsSimd ==
  ASSUME ParserInv, ChromeTyped(doc), Integral(doc)
  PROVE  SerdeRead(doc, stem) = SimdRead(doc, stem)
<1> DEFINE arr == Array(doc)
<1>1. /\ HasArray(doc) /\ arr \in Seq(ToSet(arr))
      /\ \A i \in DOMAIN arr : FormatObject(arr[i].obj)
  BY ChromeFacts
<1>2. \A i \in DOMAIN arr : \A field \in DOMAIN arr[i].obj \cap {"ts", "dur", "pid"} :
        ~Is(arr[i].obj[field], "flt") /\ ~Is(arr[i].obj[field], "str")
  BY DEF Integral, Array
<1> HIDE DEF arr
<1>3. Staged("serde", arr) = Staged("simd", arr)
  BY <1>1, <1>2, SerdeRecords, StagedEqual DEF Objects
<1> QED
  BY <1>1, <1>3, FullTreeTrace DEF SerdeRead, SimdRead, arr

-----------------------------------------------------------------------------
(* The directory.                                                           *)

\* A trace of one rank, as the readers return it.
OneRank(tr, rank, streams, metadata, t) ==
  /\ tr = Trace(rank, streams, metadata, t)
  /\ streams = [k \in DOMAIN streams |-> streams[k]]
  /\ metadata \in Seq(ToSet(metadata))
IsTrace(tr) == \E rank, streams, metadata, t : OneRank(tr, rank, streams, metadata, t)

\* A sequence is one of its own elements.
LEMMA OwnElements == \A S : \A q \in Seq(S) : q \in Seq(ToSet(q))
BY DEF ToSet

\* A trace made of what was staged is a trace of one rank.
LEMMA StagedTrace ==
  ASSUME NEW reader, NEW arr, arr \in Seq(ToSet(arr)), NEW rank, NEW t, NEW u
  PROVE  LET s == Staged(reader, arr)
         IN  OneRank(Trace(rank, PushAll(s.staging, t), s.metadata, u),
                     rank, PushAll(s.staging, t), s.metadata, u)
<1> DEFINE s == Staged(reader, arr)
           E == ShiftedSet(s.staging, t)
<1>1. s.staging \in Seq(ToSet(s.staging)) /\ s.metadata \in Seq(ToSet(s.metadata))
  BY StagedSequences
<1> HIDE DEF s
<1>2. PushAll(s.staging, t) \in StreamSet(Keys(E), E)
  BY <1>1, PushAllType
<1> HIDE DEF E
<1>3. PushAll(s.staging, t) = [k \in DOMAIN PushAll(s.staging, t) |-> PushAll(s.staging, t)[k]]
  BY <1>2, StreamsAreFunctions
<1>4. OneRank(Trace(rank, PushAll(s.staging, t), s.metadata, u),
              rank, PushAll(s.staging, t), s.metadata, u)
  BY <1>1, <1>3 DEF OneRank
<1> QED
  BY <1>4 DEF s

\* Both readers return a failure or a trace of one rank.
LEMMA SimdReturns ==
  ASSUME NEW d, IsDocument(d), NEW name
  PROVE  /\ SimdRead(d, name).ok \in BOOLEAN
         /\ SimdRead(d, name).ok => IsTrace(SimdRead(d, name))
<1>1. CASE HasArray(d)
  <2> DEFINE s == Staged("simd", Array(d))
             t == LeastTs(s.staging)
             rank == UnwrapOr(RankOf(Entry(d, "distributedInfo")), name)
  <2>1. Array(d) \in Seq(ToSet(Array(d)))
    BY <1>1, ArrayFacts
  <2>2. SimdRead(d, name) = Trace(rank, PushAll(s.staging, t), s.metadata, t)
    BY <1>1, FullTreeTrace DEF SimdRead
  <2>3. OneRank(Trace(rank, PushAll(s.staging, t), s.metadata, t),
                rank, PushAll(s.staging, t), s.metadata, t)
    BY <2>1, StagedTrace
  <2> HIDE DEF s, t, rank
  <2> QED
    BY <2>2, <2>3 DEF IsTrace, Trace
<1>2. CASE ~HasArray(d)
  <2>1. SimdRead(d, name) = Failed
    BY <1>2, FullTreeTrace DEF SimdRead
  <2>2. Failed.ok = FALSE
    BY DEF Failed
  <2> QED
    BY <2>1, <2>2
<1> QED
  BY <1>1, <1>2

\* The streaming reader returns an error or a trace.
LEMMA StreamReturns ==
  ASSUME ParserInv, result # None
  PROVE  result[1].ok \in BOOLEAN /\ (result[1].ok => IsTrace(result[1]))
<1>1. result[1].ok \in BOOLEAN
  <2>1. result = Some(Failed) \/ result = Some(Finished(state, stem))
    BY DEF ParserInv
  <2>2. Failed.ok = FALSE
    BY DEF Failed
  <2>3. Finished(state, stem).ok = TRUE
    BY DEF Finished, Trace
  <2>4. result[1] = Failed \/ result[1] = Finished(state, stem)
    BY <2>1, Options
  <2> QED
    BY <2>2, <2>3, <2>4
<1>2. ASSUME result[1].ok PROVE IsTrace(result[1])
  <2> DEFINE s == Staged("stream", Tree(doc))
             t == StartTs(state)
             rank == UnwrapOr(RankOf(Entry(doc, "distributedInfo")), stem)
  <2>1. Tree(doc) \in Seq(ToSet(Tree(doc)))
    BY <1>2, AtTheEnd, TreeFacts
  <2>2. result[1] = Trace(rank, PushAll(s.staging, t), s.metadata, t)
    BY <1>2, StreamResult
  <2>3. OneRank(Trace(rank, PushAll(s.staging, t), s.metadata, t),
                rank, PushAll(s.staging, t), s.metadata, t)
    BY <2>1, StagedTrace
  <2> HIDE DEF s, t, rank
  <2> QED
    BY <2>2, <2>3 DEF IsTrace
<1> QED
  BY <1>1, <1>2

\* The first of the unread files.
LEMMA FirstFile ==
  ASSUME NEW entries \in Directories, NEW T \in SUBSET ListTraceFiles(entries), T # {}
  PROVE  \E f \in T : \A g \in T \ {f} : Before(f, g)
<1>1. /\ \A e \in T : e.stem \in Nat /\ e.ext \in {".json", ".json.gz"}
      /\ \A a, b \in T : a.stem = b.stem /\ a.ext = b.ext => a = b
  BY DirectoryAssumption DEF ListTraceFiles, Extensions
<1> DEFINE stems == {e.stem : e \in T}
<1>2. stems \in SUBSET Nat /\ stems # {}
  BY <1>1
<1>3. PICK m \in stems : \A k \in stems : m <= k
  BY <1>2, LeastNumber
<1>4. CASE \E f \in T : f.stem = m /\ f.ext = ".json"
  <2>1. PICK f \in T : f.stem = m /\ f.ext = ".json"
    BY <1>4
  <2>2. ASSUME NEW g \in T \ {f} PROVE Before(f, g)
    <3>1. m <= g.stem /\ g.stem \in Nat /\ m \in Nat /\ g.ext \in {".json", ".json.gz"}
      BY <1>1, <1>2, <1>3
    <3>2. g.stem = m => g.ext = ".json.gz"
      BY <1>1, <2>1, <3>1
    <3> QED
      BY <2>1, <3>1, <3>2 DEF Before
  <2> QED
    BY <2>1, <2>2
<1>5. CASE ~ \E f \in T : f.stem = m /\ f.ext = ".json"
  <2>1. PICK f \in T : f.stem = m
    BY <1>3
  <2>2. ASSUME NEW g \in T \ {f} PROVE Before(f, g)
    <3>1. m <= g.stem /\ g.stem \in Nat /\ m \in Nat /\ g.ext \in {".json", ".json.gz"}
      BY <1>1, <1>2, <1>3
    <3>2. g.stem # m
      BY <1>1, <1>5, <2>1, <3>1
    <3> QED
      BY <2>1, <3>1, <3>2 DEF Before
  <2> QED
    BY <2>1, <2>2
<1> QED
  BY <1>4, <1>5

\* A combined trace: its three maps have the same ranks, its metadata are
\* sequences.
IsCombined(tr) ==
  /\ DOMAIN tr.ranks = DOMAIN tr.metadata /\ DOMAIN tr.ranks = DOMAIN tr.startTs
  /\ \A r \in DOMAIN tr.metadata : tr.metadata[r] \in Seq(ToSet(tr.metadata[r]))

\* What merging a file leaves of the other ranks and of the file's own.
LEMMA MergeFacts ==
  ASSUME NEW self, IsCombined(self), NEW other, NEW rank, NEW streams, NEW metadata, NEW t,
         OneRank(other, rank, streams, metadata, t)
  PROVE  LET m == Merge(self, other) IN
         /\ IsCombined(m) /\ DOMAIN m.ranks = DOMAIN self.ranks \cup {rank}
         /\ \A r \in DOMAIN self.ranks \ {rank} :
              /\ m.ranks[r] = self.ranks[r] /\ m.metadata[r] = self.metadata[r]
              /\ m.startTs[r] = self.startTs[r]
         /\ m.startTs[rank] = t
         /\ \A k \in DOMAIN streams : m.ranks[rank][k] = streams[k]
         /\ ToSet(metadata) \subseteq ToSet(m.metadata[rank])
         /\ rank \notin DOMAIN self.ranks => m.ranks[rank] = streams /\ m.metadata[rank] = metadata
<1> DEFINE m == Merge(self, other)
           old == UnwrapOr(Get(self.ranks, rank), NoStreams)
           before == UnwrapOr(Get(self.metadata, rank), <<>>)
<1>1. /\ other.ranks = [r \in {rank} |-> streams] /\ other.metadata = [r \in {rank} |-> metadata]
      /\ other.startTs = [r \in {rank} |-> t]
      /\ streams = [k \in DOMAIN streams |-> streams[k]] /\ metadata \in Seq(ToSet(metadata))
  BY DEF OneRank, Trace
<1>2. /\ m.ranks = ExtendRanks(self, other) /\ m.metadata = JoinMetadata(self, other)
      /\ m.startTs = Extend(self.startTs, other.startTs)
  BY DEF Merge
<1>3. /\ DOMAIN m.startTs = DOMAIN self.startTs \cup {rank} /\ m.startTs[rank] = t
      /\ \A r \in DOMAIN self.startTs \ {rank} : m.startTs[r] = self.startTs[r]
  <2> HIDE DEF m
  <2> QED
    BY <1>1, <1>2 DEF Extend
<1>4. /\ DOMAIN m.ranks = DOMAIN self.ranks \cup {rank}
      /\ \A r \in DOMAIN self.ranks \ {rank} : m.ranks[r] = self.ranks[r]
      /\ m.ranks[rank] = Extended(old, streams)
  <2> HIDE DEF m, old
  <2>1. m.ranks = Extend(self.ranks, [r \in {rank} |-> Extended(UnwrapOr(Get(self.ranks, r), NoStreams), streams)])
    BY <1>1, <1>2 DEF ExtendRanks
  <2> QED
    BY <2>1 DEF Extend, old
<1>5. \A k \in DOMAIN streams : Extended(old, streams)[k] = streams[k]
  <2> HIDE DEF old
  <2> QED
    BY DEF Extended, Extend
<1>6. rank \notin DOMAIN self.ranks => Extended(old, streams) = streams
  <2> SUFFICES ASSUME rank \notin DOMAIN self.ranks PROVE Extended(old, streams) = streams
    OBVIOUS
  <2>1. old = NoStreams /\ DOMAIN NoStreams = {}
    BY Options, NoStreamsType DEF Get
  <2> HIDE DEF old
  <2>2. Extended(old, streams) = [k \in DOMAIN streams |-> streams[k]]
    BY <2>1 DEF Extended, Extend
  <2> QED
    BY <1>1, <2>2
<1>7. before \in Seq(ToSet(before)) /\ (rank \notin DOMAIN self.metadata => before = <<>>)
  <2>1. CASE rank \in DOMAIN self.metadata
    <3>1. before = self.metadata[rank]
      BY <2>1, Options DEF Get
    <3> HIDE DEF before
    <3> QED
      BY <2>1, <3>1 DEF IsCombined
  <2>2. CASE rank \notin DOMAIN self.metadata
    <3>1. before = <<>>
      BY <2>2, Options DEF Get
    <3>2. <<>> \in Seq(ToSet(<<>>))
      OBVIOUS
    <3> HIDE DEF before
    <3> QED
      BY <3>1, <3>2
  <2> QED
    BY <2>1, <2>2
<1>8. /\ DOMAIN m.metadata = DOMAIN self.metadata \cup {rank}
      /\ m.metadata[rank] = before \o metadata
      /\ \A r \in DOMAIN self.metadata \ {rank} : m.metadata[r] = self.metadata[r]
  <2> HIDE DEF m
  <2>1. /\ DOMAIN m.metadata = DOMAIN self.metadata \cup {rank}
        /\ \A r \in DOMAIN self.metadata \cup {rank} :
             m.metadata[r] = UnwrapOr(Get(self.metadata, r), <<>>)
                               \o UnwrapOr(Get(other.metadata, r), <<>>)
    BY <1>1, <1>2 DEF JoinMetadata
  <2>2. Get(other.metadata, rank) = Some(metadata)
    BY <1>1 DEF Get
  <2>3. \A r \in DOMAIN self.metadata \ {rank} :
          Get(other.metadata, r) = None /\ Get(self.metadata, r) = Some(self.metadata[r])
    BY <1>1 DEF Get
  <2>4. \A r \in DOMAIN self.metadata : self.metadata[r] \o <<>> = self.metadata[r]
    BY DEF IsCombined
  <2> HIDE DEF before
  <2>5. m.metadata[rank] = before \o metadata
    BY <2>1, <2>2, Options DEF before
  <2>6. ASSUME NEW r \in DOMAIN self.metadata \ {rank} PROVE m.metadata[r] = self.metadata[r]
    <3>1. m.metadata[r] = UnwrapOr(Get(self.metadata, r), <<>>)
                            \o UnwrapOr(Get(other.metadata, r), <<>>)
      BY <2>1
    <3>2. UnwrapOr(Get(self.metadata, r), <<>>) = self.metadata[r]
      BY <2>3, Options
    <3>3. UnwrapOr(Get(other.metadata, r), <<>>) = <<>>
      BY <2>3, Options
    <3> QED
      BY <2>4, <3>1, <3>2, <3>3
  <2> QED
    BY <2>1, <2>5, <2>6
<1> HIDE DEF m, old, before
<1>9. before \o metadata \in Seq(ToSet(before \o metadata))
  <2>1. before \in Seq(ToSet(before) \cup ToSet(metadata)) /\ metadata \in Seq(ToSet(before) \cup ToSet(metadata))
    BY <1>1, <1>7
  <2>2. before \o metadata \in Seq(ToSet(before) \cup ToSet(metadata))
    BY <2>1
  <2> QED
    BY <2>2, OwnElements
<1>10. ToSet(metadata) \subseteq ToSet(before \o metadata)
  <2> SUFFICES ASSUME NEW i \in DOMAIN metadata PROVE metadata[i] \in ToSet(before \o metadata)
    BY DEF ToSet
  <2>1. before \in Seq(ToSet(before) \cup ToSet(metadata)) /\ metadata \in Seq(ToSet(before) \cup ToSet(metadata))
    BY <1>1, <1>7
  <2>2. Len(before) + i \in DOMAIN (before \o metadata) /\ (before \o metadata)[Len(before) + i] = metadata[i]
    BY <2>1
  <2> QED
    BY <2>2 DEF ToSet
<1>11. rank \notin DOMAIN self.metadata => before \o metadata = metadata
  BY <1>1, <1>7
<1>12. DOMAIN self.ranks = DOMAIN self.metadata /\ DOMAIN self.ranks = DOMAIN self.startTs
  BY DEF IsCombined
<1>13. IsCombined(m)
  BY <1>3, <1>4, <1>8, <1>9, <1>12 DEF IsCombined
<1> QED
  BY <1>3, <1>4, <1>5, <1>6, <1>8, <1>10, <1>11, <1>12, <1>13 DEF m

\* What has been merged: every trace read has one rank, the combined trace has
\* their ranks, and each is there as the properties say.
Loaded ==
  /\ read \in Seq(ToSet(read)) /\ \A i \in DOMAIN read : IsTrace(read[i])
  /\ IsCombined(combined)
  /\ DOMAIN combined.ranks = UNION {DOMAIN read[i].ranks : i \in DOMAIN read}
  /\ OwnRankIsKept
  /\ LastOfRankIsWhole

\* The one rank of a trace, and its three entries.
LEMMA RankOfTrace ==
  ASSUME NEW tr, IsTrace(tr)
  PROVE  LET rank == CHOOSE r \in DOMAIN tr.ranks : TRUE IN
         /\ DOMAIN tr.ranks = {rank}
         /\ OneRank(tr, rank, tr.ranks[rank], tr.metadata[rank], tr.startTs[rank])
<1>1. PICK rank, streams, metadata, t : OneRank(tr, rank, streams, metadata, t)
  BY DEF IsTrace
<1>2. /\ DOMAIN tr.ranks = {rank} /\ tr.ranks[rank] = streams /\ tr.metadata[rank] = metadata
      /\ tr.startTs[rank] = t
  BY <1>1 DEF OneRank, Trace
<1>3. (CHOOSE r \in {rank} : TRUE) = rank
  OBVIOUS
<1> QED
  BY <1>1, <1>2, <1>3

\* One more file merged keeps what is said of all files merged so far.
LEMMA LoadedTurn ==
  ASSUME Loaded, NEW single, IsTrace(single),
         read' = Append(read, single), combined' = Merge(combined, single)
  PROVE  Loaded'
<1>0. PICK n \in Nat : n = Len(read)
  BY DEF Loaded
<1> DEFINE rank == CHOOSE r \in DOMAIN single.ranks : TRUE
<1>1. /\ DOMAIN single.ranks = {rank}
      /\ OneRank(single, rank, single.ranks[rank], single.metadata[rank], single.startTs[rank])
  BY RankOfTrace
<1>2. /\ n \in Nat /\ DOMAIN read = 1..n /\ DOMAIN read' = 1..(n + 1)
      /\ \A i \in 1..n : read'[i] = read[i]
      /\ read'[n + 1] = single /\ read' \in Seq(ToSet(read'))
  <2>1. read \in Seq(ToSet(read)) /\ DOMAIN read = 1..n
    BY <1>0 DEF Loaded
  <2>2. read' \in Seq(ToSet(read) \cup {single}) /\ Len(read') = n + 1
    BY <1>0, <2>1
  <2>3. DOMAIN read' = 1..(n + 1) /\ read' \in Seq(ToSet(read'))
    <3> DEFINE S == ToSet(read) \cup {single}
               q == read'
    <3>1. q \in Seq(S) /\ Len(q) = n + 1
      BY <2>2
    <3> HIDE DEF S, q
    <3>2. q \in Seq(ToSet(q)) /\ DOMAIN q = 1..(n + 1)
      BY <3>1, OwnElements
    <3> QED
      BY <3>2 DEF q
  <2>4. (\A i \in 1..n : read'[i] = read[i]) /\ read'[n + 1] = single
    BY <1>0, <2>1, AppendFacts
  <2> QED
    BY <2>1, <2>3, <2>4
<1>3. IsCombined(combined)
  BY DEF Loaded
<1> HIDE DEF rank
<1>4. /\ IsCombined(combined') /\ DOMAIN combined'.ranks = DOMAIN combined.ranks \cup {rank}
      /\ \A r \in DOMAIN combined.ranks \ {rank} :
           /\ combined'.ranks[r] = combined.ranks[r]
           /\ combined'.metadata[r] = combined.metadata[r]
           /\ combined'.startTs[r] = combined.startTs[r]
      /\ combined'.startTs[rank] = single.startTs[rank]
      /\ \A k \in DOMAIN single.ranks[rank] : combined'.ranks[rank][k] = single.ranks[rank][k]
      /\ ToSet(single.metadata[rank]) \subseteq ToSet(combined'.metadata[rank])
      /\ rank \notin DOMAIN combined.ranks => /\ combined'.ranks[rank] = single.ranks[rank]
                                              /\ combined'.metadata[rank] = single.metadata[rank]
  BY <1>1, <1>3, MergeFacts
<1>5. \A i \in 1..n : RankOfRead(i)' = RankOfRead(i)
  BY <1>2 DEF RankOfRead
<1>6. RankOfRead(n + 1)' = rank
  BY <1>2 DEF RankOfRead, rank
<1>7. \A i \in DOMAIN read : DOMAIN read[i].ranks = {RankOfRead(i)}
  BY RankOfTrace DEF Loaded, RankOfRead
<1>8. DOMAIN combined.ranks = {RankOfRead(i) : i \in 1..n}
  BY <1>2, <1>7 DEF Loaded
<1>9. \A i \in DOMAIN read' : IsTrace(read'[i])
  BY <1>2 DEF Loaded
<1>10. DOMAIN combined'.ranks = UNION {DOMAIN read'[i].ranks : i \in DOMAIN read'}
  <2>1. \A i \in 1..n : DOMAIN read'[i].ranks = {RankOfRead(i)}
    BY <1>2, <1>7
  <2>2. DOMAIN read'[n + 1].ranks = {rank}
    BY <1>1, <1>2
  <2>3. UNION {DOMAIN read'[i].ranks : i \in 1..(n + 1)} = {RankOfRead(i) : i \in 1..n} \cup {rank}
    <3>1. \A i : i \in 1..(n + 1) <=> i \in 1..n \/ i = n + 1
      BY <1>2
    <3> QED
      BY <2>1, <2>2, <3>1
  <2> QED
    BY <1>2, <1>4, <1>8, <2>3
<1>11. OwnRankIsKept'
  <2> SUFFICES ASSUME NEW i \in 1..(n + 1),
                      \A j \in 1..(n + 1) \ {i} : RankOfRead(j)' # RankOfRead(i)'
               PROVE  /\ combined'.ranks[RankOfRead(i)'] = read'[i].ranks[RankOfRead(i)']
                      /\ combined'.metadata[RankOfRead(i)'] = read'[i].metadata[RankOfRead(i)']
                      /\ combined'.startTs[RankOfRead(i)'] = read'[i].startTs[RankOfRead(i)']
    BY <1>2 DEF OwnRankIsKept
  <2>1. CASE i = n + 1
    <3>1. rank \notin DOMAIN combined.ranks
      <4>1. \A j \in 1..n : j \in 1..(n + 1) \ {i}
        BY <1>2, <2>1
      <4> QED
        BY <1>5, <1>6, <1>8, <2>1, <4>1
    <3> QED
      BY <1>2, <1>4, <1>6, <2>1, <3>1
  <2>2. CASE i # n + 1
    <3>1. i \in 1..n /\ n + 1 \in 1..(n + 1) \ {i} /\ RankOfRead(i)' = RankOfRead(i)
      BY <1>2, <1>5, <2>2
    <3>2. RankOfRead(i) # rank /\ RankOfRead(i) \in DOMAIN combined.ranks
      BY <1>6, <1>8, <3>1
    <3>3. \A j \in 1..n \ {i} : RankOfRead(j) # RankOfRead(i)
      <4>1. \A j \in 1..n : j \in 1..(n + 1)
        BY <1>2
      <4> QED
        BY <1>5, <3>1, <4>1
    <3>4. /\ combined.ranks[RankOfRead(i)] = read[i].ranks[RankOfRead(i)]
          /\ combined.metadata[RankOfRead(i)] = read[i].metadata[RankOfRead(i)]
          /\ combined.startTs[RankOfRead(i)] = read[i].startTs[RankOfRead(i)]
      BY <1>2, <3>1, <3>3 DEF Loaded, OwnRankIsKept
    <3> QED
      BY <1>2, <1>4, <3>1, <3>2, <3>4
  <2> QED
    BY <2>1, <2>2
<1>12. LastOfRankIsWhole'
  <2> SUFFICES ASSUME NEW i \in 1..(n + 1),
                      \A j \in 1..(n + 1) : j > i => RankOfRead(j)' # RankOfRead(i)'
               PROVE  /\ \A k \in DOMAIN read'[i].ranks[RankOfRead(i)'] :
                           combined'.ranks[RankOfRead(i)'][k] = read'[i].ranks[RankOfRead(i)'][k]
                      /\ combined'.startTs[RankOfRead(i)'] = read'[i].startTs[RankOfRead(i)']
                      /\ ToSet(read'[i].metadata[RankOfRead(i)'])
                           \subseteq ToSet(combined'.metadata[RankOfRead(i)'])
    BY <1>2 DEF LastOfRankIsWhole
  <2>1. CASE i = n + 1
    BY <1>2, <1>4, <1>6, <2>1
  <2>2. CASE i # n + 1
    <3>1. i \in 1..n /\ n + 1 \in 1..(n + 1) /\ n + 1 > i /\ RankOfRead(i)' = RankOfRead(i)
      BY <1>2, <1>5, <2>2
    <3>2. RankOfRead(i) # rank /\ RankOfRead(i) \in DOMAIN combined.ranks
      BY <1>6, <1>8, <3>1
    <3>3. \A j \in 1..n : j > i => RankOfRead(j) # RankOfRead(i)
      <4>1. \A j \in 1..n : j \in 1..(n + 1)
        BY <1>2
      <4> QED
        BY <1>5, <3>1, <4>1
    <3>4. /\ \A k \in DOMAIN read[i].ranks[RankOfRead(i)] :
               combined.ranks[RankOfRead(i)][k] = read[i].ranks[RankOfRead(i)][k]
          /\ combined.startTs[RankOfRead(i)] = read[i].startTs[RankOfRead(i)]
          /\ ToSet(read[i].metadata[RankOfRead(i)]) \subseteq ToSet(combined.metadata[RankOfRead(i)])
      BY <1>2, <3>1, <3>3 DEF Loaded, LastOfRankIsWhole
    <3> QED
      BY <1>2, <1>4, <3>1, <3>2, <3>4
  <2> QED
    BY <2>1, <2>2
<1> QED
  BY <1>2, <1>4, <1>9, <1>10, <1>11, <1>12 DEF Loaded

\* The inductive invariant of from_dir.
DirInv ==
  /\ ParserInv
  /\ dir \in Directories
  /\ todo = None \/ \E T \in SUBSET ListTraceFiles(dir) : todo = Some(T)
  /\ ~Idle => ToRead /\ Streamed(File) /\ doc = File.doc
  /\ outcome \in {"loading", "ok", "error"}
  /\ Loaded

\* The file read next is one list_trace_files returned.
LEMMA FileFacts ==
  ASSUME DirInv, ToRead
  PROVE  /\ IsDocument(File.doc)
         /\ \E U \in SUBSET ListTraceFiles(dir) : Some(todo[1] \ {File}) = Some(U)
<1>1. PICK T \in SUBSET ListTraceFiles(dir) : todo = Some(T)
  BY DEF DirInv, ToRead, Loading
<1>2. todo[1] = T /\ T # {}
  BY <1>1, Options DEF ToRead
<1>3. dir \in Directories
  BY DEF DirInv
<1>4. \E f \in T : \A g \in T \ {f} : Before(f, g)
  BY <1>2, <1>3, FirstFile
<1>5. File \in T
  BY <1>2, <1>4 DEF File
<1>6. IsDocument(File.doc)
  BY <1>3, <1>5, DirectoryAssumption DEF ListTraceFiles
<1>7. T \ {File} \in SUBSET ListTraceFiles(dir)
  OBVIOUS
<1> QED
  BY <1>2, <1>6, <1>7

\* The stem of a file is not the sign that no file is read.
LEMMA TextIsNoStem == \A n : Text(n) # NoStem
<1>1. \A x : <<x>> # <<>>
  OBVIOUS
<1> QED
  BY <1>1, Zenon DEF Text, NoStem

\* A step that leaves what has been merged.
LEMMA LoadedFrame == Loaded /\ UNCHANGED <<combined, read>> => Loaded'
<1> SUFFICES ASSUME Loaded, combined' = combined, read' = read PROVE Loaded'
  OBVIOUS
<1>1. \A i : RankOfRead(i)' = RankOfRead(i)
  BY DEF RankOfRead
<1>2. OwnRankIsKept' /\ LastOfRankIsWhole'
  BY <1>1 DEF Loaded, OwnRankIsKept, LastOfRankIsWhole
<1> QED
  BY <1>2 DEF Loaded

\* A step of the loop over the files leaves a parse as it is.
LEMMA ParserFrame == ParserInv /\ UNCHANGED parserVars => ParserInv'
BY DEF ParserInv, parserVars, Idle, Past, Taken

\* A reader's result is taken: merged, or the loop ends with the error.
LEMMA TakeStep ==
  ASSUME DirInv, ToRead, NEW single, single.ok => IsTrace(single), Take(single),
         ParserInv', Idle'
  PROVE  DirInv'
<1>1. CASE single.ok
  <2>1. /\ combined' = Merge(combined, single) /\ read' = Append(read, single)
        /\ todo' = Some(todo[1] \ {File}) /\ outcome' = outcome /\ dir' = dir
    BY <1>1 DEF Take
  <2>2. Loaded'
    BY <1>1, <2>1, LoadedTurn DEF DirInv
  <2>3. \E U \in SUBSET ListTraceFiles(dir) : todo' = Some(U)
    BY <2>1, FileFacts
  <2> QED
    BY <2>1, <2>2, <2>3 DEF DirInv, Idle
<1>2. CASE ~single.ok
  <2>1. outcome' = "error" /\ UNCHANGED <<combined, read, todo, dir>>
    BY <1>2 DEF Take
  <2>2. Loaded'
    BY <2>1, LoadedFrame DEF DirInv
  <2> QED
    BY <2>1, <2>2 DEF DirInv, Idle
<1> QED
  BY <1>1, <1>2

\* from_dir starts with nothing listed, read or merged.
LEMMA InitDir == Init => DirInv
<1> SUFFICES ASSUME Init PROVE DirInv
  OBVIOUS
<1>1. ParserInv /\ Idle
  BY StartsIdle DEF Init, ParserInit, Idle, NoStem
<1>2. combined = Empty /\ read = <<>> /\ dir \in Directories /\ todo = None /\ outcome = "loading"
  BY DEF Init
<1>3. <<>> \in Seq(ToSet(<<>>)) /\ DOMAIN <<>> = {}
  OBVIOUS
<1>4. IsCombined(Empty) /\ DOMAIN Empty.ranks = {}
  BY <1>3 DEF IsCombined, Empty
<1>5. Loaded
  BY <1>2, <1>3, <1>4 DEF Loaded, OwnRankIsKept, LastOfRankIsWhole
<1> QED
  BY <1>1, <1>2, <1>5 DEF DirInv

\* Every step of from_dir keeps the invariant.
LEMMA NextDir == DirInv /\ [Next]_vars => DirInv'
<1> SUFFICES ASSUME DirInv, [Next]_vars PROVE DirInv'
  OBVIOUS
<1>1. CASE List
  <2>1. /\ todo = None /\ todo' = Some(ListTraceFiles(dir))
        /\ UNCHANGED <<dir, combined, read, outcome, parserVars>>
    BY <1>1 DEF List
  <2>2. ParserInv' /\ Loaded'
    BY <2>1, ParserFrame, LoadedFrame DEF DirInv
  <2>3. Idle'
    BY <2>1 DEF DirInv, ToRead, Loading, Idle, parserVars
  <2>4. \E T \in SUBSET ListTraceFiles(dir) : todo' = Some(T)
    BY <2>1
  <2> QED
    BY <2>1, <2>2, <2>3, <2>4 DEF DirInv
<1>2. CASE ReadTree
  <2> DEFINE single == SimdRead(File.doc, Text(File.stem))
  <2>1. ToRead /\ Take(single) /\ UNCHANGED parserVars
    BY <1>2 DEF ReadTree
  <2>2. single.ok => IsTrace(single)
    BY <2>1, FileFacts, SimdReturns
  <2>3. ParserInv'
    BY <2>1, ParserFrame DEF DirInv
  <2>4. Idle'
    BY <1>2, <2>1 DEF DirInv, ReadTree, Idle, parserVars
  <2> HIDE DEF single
  <2> QED
    BY <2>1, <2>2, <2>3, <2>4, TakeStep
<1>3. CASE OpenStream
  <2>1. /\ ToRead /\ Streamed(File) /\ Open(File.doc, Text(File.stem))
        /\ UNCHANGED <<dir, todo, combined, read, outcome>>
    BY <1>3 DEF OpenStream, loadVars
  <2>2. ParserInv'
    BY <2>1, FileFacts, TextIsNoStem, OpensAtStart DEF DirInv
  <2>3. doc' = File.doc /\ File' = File
    BY <2>1 DEF Open, File
  <2>4. ToRead' /\ Streamed(File)'
    BY <2>1, <2>3 DEF ToRead, Loading, Streamed
  <2>5. Loaded'
    BY <2>1, LoadedFrame DEF DirInv
  <2> QED
    BY <2>1, <2>2, <2>3, <2>4, <2>5 DEF DirInv
<1>4. CASE ReadStream
  <2>1. ParserStep /\ UNCHANGED <<dir, todo, combined, read, outcome>>
    BY <1>4 DEF ReadStream, loadVars
  <2>2. ParserInv'
    BY <2>1, ParserStepKeeps DEF DirInv
  <2>3. doc' = doc /\ stem' = stem
    BY <2>1 DEF ParserStep, DistributedInfo, OtherEntry, TraceEvents, NextElement, EndOfArray,
                EndOfText
  <2>4. File' = File /\ ToRead' = ToRead /\ Streamed(File)' = Streamed(File) /\ Idle' = Idle
    BY <2>1, <2>3 DEF File, ToRead, Loading, Streamed, Idle
  <2>5. Loaded'
    BY <2>1, LoadedFrame DEF DirInv
  <2> QED
    BY <2>1, <2>2, <2>3, <2>4, <2>5 DEF DirInv
<1>5. CASE StreamEnds
  <2>1. result # None /\ Take(result[1]) /\ Close
    BY <1>5 DEF StreamEnds
  <2>2. ToRead
    BY <2>1 DEF DirInv, ParserInv
  <2>3. result[1].ok => IsTrace(result[1])
    BY <2>1, StreamReturns DEF DirInv
  <2>4. ParserInv' /\ Idle'
    BY <2>1, ClosesIdle DEF Close, Idle
  <2> QED
    BY <2>1, <2>2, <2>3, <2>4, TakeStep
<1>6. CASE ReadFails
  <2>1. outcome' = "error" /\ Close /\ UNCHANGED <<dir, todo, combined, read>>
    BY <1>6 DEF ReadFails
  <2>2. ParserInv' /\ Idle' /\ Loaded'
    BY <2>1, ClosesIdle, LoadedFrame DEF Close, Idle, DirInv
  <2> QED
    BY <2>1, <2>2 DEF DirInv
<1>7. CASE Done
  <2>1. /\ Loading /\ todo[1] = {} /\ outcome' = "ok"
        /\ UNCHANGED <<dir, todo, combined, read, parserVars>>
    BY <1>7 DEF Done
  <2>2. ParserInv' /\ Loaded'
    BY <2>1, ParserFrame, LoadedFrame DEF DirInv
  <2>3. Idle'
    BY <2>1 DEF DirInv, ToRead, Idle, parserVars
  <2> QED
    BY <2>1, <2>2, <2>3 DEF DirInv
<1>8. CASE UNCHANGED vars
  <2>1. UNCHANGED <<dir, todo, combined, read, outcome>> /\ UNCHANGED parserVars
    BY <1>8 DEF vars, loadVars
  <2>2. ParserInv' /\ Loaded'
    BY <2>1, ParserFrame, LoadedFrame DEF DirInv
  <2>3. File' = File /\ ToRead' = ToRead /\ Streamed(File)' = Streamed(File) /\ Idle' = Idle
    BY <2>1 DEF File, ToRead, Loading, Streamed, Idle, parserVars
  <2>4. doc' = doc
    BY <2>1 DEF parserVars
  <2> QED
    BY <2>1, <2>2, <2>3, <2>4 DEF DirInv
<1> QED
  BY <1>1, <1>2, <1>3, <1>4, <1>5, <1>6, <1>7, <1>8 DEF Next

-----------------------------------------------------------------------------
(* The theorems.                                                            *)

\* The inductive invariant of from_dir: the parse under way is that of the next file,
\* and what is merged are whole traces, each rank as its files left it.
THEOREM DirInvariant == Spec => []DirInv
<1> QED
  BY InitDir, NextDir, PTL DEF Spec

\* The parser's invariant gives its type invariant.
LEMMA AbsorbedTypes ==
  ASSUME ParserInv
  PROVE  ParserTypeOK
<1> DEFINE s == Staged("stream", Taken)
<1>1. /\ state.streams = PushAll(s.staging, 0) /\ Minimum(state.minTs, s.staging)
      /\ \A i \in DOMAIN s.staging : Shiftable(s.staging[i])
  BY DEF ParserInv, Absorbed
<1>2. Taken \in Seq(ToSet(Taken))
  <2>1. CASE element > 0
    <3>1. /\ Array(doc) \in Seq(ToSet(Array(doc))) /\ element \in Nat
          /\ element <= Len(Array(doc)) + 1
      BY <2>1, InArray DEF ParserInv
    <3>2. element - 1 \in 0..Len(Array(doc))
      BY <2>1, <3>1
    <3> QED
      BY <2>1, <3>1, <3>2, PrefixLaws DEF Taken
  <2>2. CASE ~(element > 0) /\ Past("traceEvents")
    <3>1. HasArray(doc) /\ IsDocument(doc)
      BY <2>2 DEF ParserInv
    <3> QED
      BY <2>2, <3>1, ArrayFacts DEF Taken
  <2>3. CASE ~(element > 0) /\ ~Past("traceEvents")
    BY <2>3 DEF Taken
  <2> QED
    BY <2>1, <2>2, <2>3
<1>3. s.staging \in Seq(ToSet(s.staging))
  BY <1>2, StagedSequences
<1> HIDE DEF s
<1> DEFINE E == ShiftedSet(s.staging, 0)
<1>4. state.streams \in StreamSet(Keys(E), E)
  BY <1>1, <1>3, PushAllType
<1>5. \A e \in E : e.ts \in Int64
  BY <1>1 DEF ShiftedSet, Shiftable, Minimum
<1> HIDE DEF E
<1>6. \A e \in EventsOf(state.streams) : e.ts \in Int64
  <2>1. \A k \in DOMAIN state.streams : state.streams[k] \in Seq(E)
    BY <1>4, StreamsAreFunctions
  <2>2. \A k \in DOMAIN state.streams : ToSet(state.streams[k]) \subseteq E
    BY <2>1 DEF ToSet
  <2> QED
    BY <1>5, <2>2 DEF EventsOf
<1>7. result # None => ~Idle /\ result[1].ok \in BOOLEAN
  BY StreamReturns DEF ParserInv
<1>8. entry \in 1 .. Len(doc) + 1 /\ element \in Nat /\ state.minTs \in Int64
  BY <1>1 DEF ParserInv, Minimum
<1> QED
  BY <1>6, <1>7, <1>8 DEF ParserTypeOK

\* The reader's state and the combined trace are well-formed: a file is being
\* streamed only while it is the next one to read, and the three maps of the
\* combined trace have an entry for every rank read, and no other.
THEOREM TypesOK == Spec => []TypeOK
<1>1. DirInv => TypeOK
  BY AbsorbedTypes DEF DirInv, Loaded, IsCombined, TypeOK
<1> QED
  BY <1>1, DirInvariant, PTL

\* A rank that one file only has read is in the combined trace as that file
\* holds it, for every directory and every order of the files.
THEOREM RanksKept == Spec => []OwnRankIsKept
<1>1. DirInv => OwnRankIsKept
  BY DEF DirInv, Loaded
<1> QED
  BY <1>1, DirInvariant, PTL

\* Of the files that share a rank the last one is whole, in step with the
\* origin of the rank, and its metadata are there.
THEOREM LastKept == Spec => []LastOfRankIsWhole
<1>1. DirInv => LastOfRankIsWhole
  BY DEF DirInv, Loaded
<1> QED
  BY <1>1, DirInvariant, PTL

\* The streaming reader, which keeps a running minimum and shifts at the end,
\* returns what the simd-json reader builds from the whole tree, for every
\* document of the trace format.
THEOREM StreamingAgrees == Spec => []SameAsFullTree
<1>1. DirInv => SameAsFullTree
  BY StreamedAsTree DEF DirInv, SameAsFullTree
<1> QED
  BY <1>1, DirInvariant, PTL

\* Of any document with events that the streaming reader accepts the full-tree
\* reader keeps as many events, and the same records in the metadata.
THEOREM StreamingIsStricter == Spec => []StricterThanFullTree
<1>1. DirInv => StricterThanFullTree
  BY StreamedIsStricter DEF DirInv, StricterThanFullTree, HasEvents
<1> QED
  BY <1>1, DirInvariant, PTL

\* The serde_json reader builds the trace of the simd-json reader, for every
\* document of the format without floats or texts where an i64 is kept.
THEOREM SerdeAgrees == Spec => []SerdeMirrorsSimd
<1>1. DirInv => SerdeMirrorsSimd
  BY SerdeAsSimd DEF DirInv, SerdeMirrorsSimd
<1> QED
  BY <1>1, DirInvariant, PTL
=============================================================================
