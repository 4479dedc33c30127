--------------------------- MODULE CommandsProofs ---------------------------
(***************************************************************************)
(* The comparison of two traces, for every two; and the command line, for   *)
(* every input and every order of the commands.                             *)
(*                                                                         *)
(* What compare_traces adds up are the events of the two traces, counted.   *)
(* A trace that was read is then followed through the artifact and the      *)
(* restored file, field by field, back to the readers.  The last part reads *)
(* the text of a fingerprint back into the fields of its event.             *)
(***************************************************************************)
EXTENDS RoundTrip, TracesProofs

-----------------------------------------------------------------------------
(* The comparison of two traces.  A fold over a set takes an element of its *)
(* own choice at every turn; it is well defined whatever the choice.        *)

\* g[T] folds step over T, the next element being pick[T].
IsSetFold(g, D, base, step, pick) ==
  \A T \in SUBSET D : g[T] = IF T = {} THEN base ELSE step[<<pick[T], g[T \ {pick[T]}]>>]

\* Such a fold exists on every finite set, and its values have the type of its steps.
LEMMA SetFoldExists ==
  ASSUME NEW D, IsFiniteSet(D), NEW V, NEW base \in V, NEW step \in [D \X V -> V],
         NEW pick, \A T \in SUBSET D : T # {} => pick[T] \in T
  PROVE  \E g \in [SUBSET D -> V] : IsSetFold(g, D, base, step, pick)
<1> DEFINE Small(m) == {T \in SUBSET D : Cardinality(T) <= m}
           Folds(g, m) ==
             \A T \in Small(m) :
               g[T] = IF T = {} THEN base ELSE step[<<pick[T], g[T \ {pick[T]}]>>]
           S == {m \in Nat : \E g \in [Small(m) -> V] : Folds(g, m)}
<1>1. \A T \in SUBSET D : IsFiniteSet(T) /\ Cardinality(T) \in Nat /\ (Cardinality(T) = 0 <=> T = {})
  BY FS_Subset, FS_CardinalityType, FS_EmptySet
<1>2. 0 \in S
  <2> DEFINE g == [T \in Small(0) |-> base]
  <2>1. \A T \in Small(0) : T = {}
    BY <1>1
  <2>2. g \in [Small(0) -> V] /\ Folds(g, 0)
    BY <2>1
  <2> HIDE DEF g, Folds, Small
  <2> QED
    BY <2>2
<1>3. ASSUME NEW m \in Nat, m \in S PROVE m + 1 \in S
  <2>1. PICK g \in [Small(m) -> V] : Folds(g, m)
    BY <1>3
  <2>2. ASSUME NEW T \in Small(m + 1), T # {}
        PROVE  T \ {pick[T]} \in Small(m) /\ pick[T] \in D
    <3>1. T \in SUBSET D /\ Cardinality(T) <= m + 1 /\ pick[T] \in T
      BY <2>2
    <3>2. Cardinality(T \ {pick[T]}) = Cardinality(T) - 1
      BY <1>1, <3>1, FS_RemoveElement
    <3>3. Cardinality(T \ {pick[T]}) <= m
      BY <1>1, <3>1, <3>2
    <3> QED
      BY <3>1, <3>3
  <2> DEFINE h == [T \in Small(m + 1) |->
                     IF T = {} THEN base ELSE step[<<pick[T], g[T \ {pick[T]}]>>]]
  <2>3. h \in [Small(m + 1) -> V]
    <3> SUFFICES ASSUME NEW T \in Small(m + 1) PROVE h[T] \in V
      OBVIOUS
    <3>1. CASE T = {}
      BY <3>1
    <3>2. CASE T # {}
      <4>1. T \ {pick[T]} \in Small(m) /\ pick[T] \in D
        BY <2>2, <3>2
      <4> HIDE DEF Small
      <4>2. g[T \ {pick[T]}] \in V
        BY <4>1
      <4>3. <<pick[T], g[T \ {pick[T]}]>> \in D \X V
        BY <4>1, <4>2
      <4> QED
        BY <3>2, <4>3
    <3> QED
      BY <3>1, <3>2
  <2>4. \A T \in Small(m) : T \in Small(m + 1) /\ h[T] = g[T]
    <3> SUFFICES ASSUME NEW T \in Small(m) PROVE T \in Small(m + 1) /\ h[T] = g[T]
      OBVIOUS
    <3>1. T \in Small(m + 1)
      BY <1>1
    <3> HIDE DEF Small
    <3> QED
      BY <2>1, <3>1
  <2>5. Folds(h, m + 1)
    <3> SUFFICES ASSUME NEW T \in Small(m + 1)
                 PROVE  h[T] = IF T = {} THEN base ELSE step[<<pick[T], h[T \ {pick[T]}]>>]
      OBVIOUS
    <3>1. T # {} => h[T \ {pick[T]}] = g[T \ {pick[T]}]
      BY <2>2, <2>4
    <3>2. h[T] = IF T = {} THEN base ELSE step[<<pick[T], g[T \ {pick[T]}]>>]
      OBVIOUS
    <3> HIDE DEF h, Small
    <3> QED
      BY <3>1, <3>2
  <2> HIDE DEF h, Folds, Small
  <2> QED
    BY <2>3, <2>5
<1>4. Nat \subseteq S
  <2> HIDE DEF S
  <2> QED
    BY <1>2, <1>3, Induction
<1>5. Small(Cardinality(D)) = SUBSET D
  <2> SUFFICES ASSUME NEW T \in SUBSET D PROVE Cardinality(T) <= Cardinality(D)
    OBVIOUS
  <2> QED
    BY FS_Subset
<1>6. Cardinality(D) \in S
  BY <1>4, FS_CardinalityType
<1>7. PICK g \in [Small(Cardinality(D)) -> V] : Folds(g, Cardinality(D))
  BY <1>6
<1> QED
  BY <1>5, <1>7 DEF IsSetFold

\* Two sequences, one after the other.
LEMMA TwoSequences ==
  \A S : \A p, q \in Seq(S) : p \o q \in Seq(S) /\ Len(p \o q) = Len(p) + Len(q)
OBVIOUS

\* The coordinates of the streams of a trace, the stream at each, its length.
Coords(tr) == UNION {{<<rank, k>> : k \in DOMAIN tr.ranks[rank]} : rank \in DOMAIN tr.ranks}
At(tr) == [c \in Coords(tr) |-> tr.ranks[c[1]][c[2]]]
Lengths(tr) == [c \in Coords(tr) |-> Len(tr.ranks[c[1]][c[2]])]

\* Where collect_streams puts the stream at each of them, and what it makes of a set
\* of them.
KeyAt(tr) == [c \in Coords(tr) |-> StreamKey(c[1], c[2])]
Concat(tr, T) == FoldSet(LAMBDA c, events : events \o tr.ranks[c[1]][c[2]], <<>>, T)

\* The events of a trace, by the coordinates of its streams.
StreamEvents(tr) == UNION {ToSet(At(tr)[c]) : c \in Coords(tr)}

\* A trace has finitely many streams, each a sequence of its events.
LEMMA CoordsFinite ==
  ASSUME NEW tr, IsTraceValue(tr)
  PROVE  /\ IsFiniteSet(Coords(tr))
         /\ \A c \in Coords(tr) : /\ At(tr)[c] \in Seq(StreamEvents(tr))
                                  /\ Lengths(tr)[c] = Len(At(tr)[c])
                                  /\ Lengths(tr)[c] \in Nat
<1> DEFINE D == DOMAIN tr.ranks
           Of(rank) == {<<rank, k>> : k \in DOMAIN tr.ranks[rank]}
           Over(T) == UNION {Of(rank) : rank \in T}
           P == {T \in SUBSET D : IsFiniteSet(Over(T))}
<1>1. IsFiniteSet(D) /\ \A rank \in D : IsFiniteSet(DOMAIN tr.ranks[rank])
  BY DEF IsTraceValue
<1>2. \A rank \in D : IsFiniteSet(Of(rank))
  <2> SUFFICES ASSUME NEW rank \in D PROVE IsFiniteSet(Of(rank))
    OBVIOUS
  <2> DEFINE X == DOMAIN tr.ranks[rank]
             Y == Of(rank)
             f == [k \in X |-> <<rank, k>>]
  <2>1. f \in Surjection(X, Y)
    BY DEF Surjection
  <2>2. IsFiniteSet(X)
    BY <1>1
  <2> HIDE DEF X, Y, f
  <2>3. IsFiniteSet(Y)
    BY <2>1, <2>2, FS_Surjection
  <2> QED
    BY <2>3 DEF Y
<1>3. {} \in P
  <2>1. Over({}) = {}
    OBVIOUS
  <2> QED
    BY <2>1, FS_EmptySet
<1>4. ASSUME NEW T \in SUBSET D, NEW rank \in T, T \ {rank} \in P PROVE T \in P
  <2>1. Over(T) = Over(T \ {rank}) \cup Of(rank)
    OBVIOUS
  <2>2. IsFiniteSet(Over(T \ {rank})) /\ IsFiniteSet(Of(rank))
    BY <1>2, <1>4
  <2> HIDE DEF Over, Of
  <2>3. IsFiniteSet(Over(T \ {rank}) \cup Of(rank))
    BY <2>2, FS_Union
  <2> QED
    BY <2>1, <2>3
<1>5. IsFiniteSet(Coords(tr))
  <2>1. SUBSET D \subseteq P
    <3> HIDE DEF P, D
    <3> QED
      BY <1>1, <1>3, <1>4, SubsetInduction
  <2>2. D \in P
    BY <2>1
  <2> QED
    BY <2>2 DEF P, Coords
<1>6. ASSUME NEW c \in Coords(tr)
      PROVE  /\ At(tr)[c] \in Seq(StreamEvents(tr))
             /\ Lengths(tr)[c] = Len(At(tr)[c])
             /\ Lengths(tr)[c] \in Nat
  <2>1. PICK rank \in D : \E k \in DOMAIN tr.ranks[rank] : c = <<rank, k>>
    BY DEF Coords
  <2> PICK k \in DOMAIN tr.ranks[rank] : c = <<rank, k>>
    BY <2>1
  <2> DEFINE q == tr.ranks[rank][k]
  <2>2. At(tr)[c] = q /\ Lengths(tr)[c] = Len(q)
    BY DEF At, Lengths
  <2>3. q \in Seq(ToSet(q))
    BY DEF IsTraceValue
  <2>4. ToSet(q) \subseteq StreamEvents(tr)
    BY <2>2 DEF StreamEvents
  <2> HIDE DEF q
  <2>5. q \in Seq(StreamEvents(tr))
    <3> DEFINE X == ToSet(q)
               Y == StreamEvents(tr)
    <3>1. q \in Seq(X) /\ X \subseteq Y
      BY <2>3, <2>4
    <3> HIDE DEF X, Y
    <3>2. q \in Seq(Y)
      BY <3>1
    <3> QED
      BY <3>2 DEF Y
  <2> QED
    BY <2>2, <2>5
<1> QED
  BY <1>5, <1>6

\* The streams under one key, one after the other, in an order of the fold's choice.
Chosen(T) == CHOOSE x \in T : TRUE
ConcatFold(it, tr, C) ==
  /\ Concat(tr, C) = it[C] /\ it[{}] = <<>>
  /\ \A T \in SUBSET C : T # {} => it[T] = it[T \ {Chosen(T)}] \o At(tr)[Chosen(T)]

LEMMA ConcatFolded ==
  ASSUME NEW tr, IsTraceValue(tr), NEW C \in SUBSET Coords(tr)
  PROVE  \E it : ConcatFold(it, tr, C)
<1> DEFINE V == Seq(StreamEvents(tr))
           A == At(tr)
           Pick(T) == CHOOSE x \in T : TRUE
           Eqn(g) == g = [T \in SUBSET C |->
                            IF T = {} THEN <<>>
                            ELSE g[T \ {Pick(T)}] \o tr.ranks[Pick(T)[1]][Pick(T)[2]]]
           iter == CHOOSE g : Eqn(g)
           pick == [T \in SUBSET C |-> Pick(T)]
           step == [p \in C \X V |-> p[2] \o A[p[1]]]
<1>1. Concat(tr, C) = iter[C]
  BY DEF Concat, FoldSet, MapThenFoldSet
<1>2. IsFiniteSet(C) /\ \A c \in C : A[c] \in V
  BY CoordsFinite, FS_Subset
<1>3. \A c \in C : tr.ranks[c[1]][c[2]] = A[c]
  BY DEF At
<1>4. \A T \in SUBSET C : T # {} => Pick(T) \in T /\ T \ {Pick(T)} \in SUBSET C /\ pick[T] = Pick(T)
  OBVIOUS
<1>5. PICK g \in [SUBSET C -> V] : IsSetFold(g, C, <<>>, step, pick)
  <2>1. <<>> \in V
    OBVIOUS
  <2>2. step \in [C \X V -> V]
    <3> SUFFICES ASSUME NEW p \in C \X V PROVE p[2] \o A[p[1]] \in V
      OBVIOUS
    <3>1. p[2] \in V /\ A[p[1]] \in V
      BY <1>2
    <3> QED
      BY <3>1
  <2>3. \A T \in SUBSET C : T # {} => pick[T] \in T
    BY <1>4
  <2> HIDE DEF step, pick, V
  <2> QED
    BY <1>2, <2>1, <2>2, <2>3, SetFoldExists
<1>6. \A T \in SUBSET C :
        T # {} => step[<<pick[T], g[T \ {pick[T]}]>>] = g[T \ {Pick(T)}] \o A[Pick(T)]
  <2> SUFFICES ASSUME NEW T \in SUBSET C, T # {}
               PROVE  step[<<pick[T], g[T \ {pick[T]}]>>] = g[T \ {Pick(T)}] \o A[Pick(T)]
    OBVIOUS
  <2> DEFINE x == Pick(T)
  <2>1. x \in C /\ T \ {x} \in SUBSET C /\ pick[T] = x
    BY <1>4
  <2> HIDE DEF x, V, A
  <2>2. g[T \ {x}] \in V
    BY <2>1
  <2>3. <<x, g[T \ {x}]>> \in C \X V
    BY <2>1, <2>2
  <2>4. step[<<x, g[T \ {x}]>>] = g[T \ {x}] \o A[x]
    BY <2>3
  <2> QED
    BY <2>1, <2>4 DEF x
<1>7. Eqn(g)
  <2>1. \A T \in SUBSET C : T # {} => tr.ranks[Pick(T)[1]][Pick(T)[2]] = A[Pick(T)]
    BY <1>3, <1>4
  <2>2. \A T \in SUBSET C :
          g[T] = IF T = {} THEN <<>>
                 ELSE g[T \ {Pick(T)}] \o tr.ranks[Pick(T)[1]][Pick(T)[2]]
    BY <1>5, <1>6, <2>1, ZenonT(40) DEF IsSetFold
  <2>3. g = [T \in SUBSET C |-> g[T]]
    OBVIOUS
  <2> HIDE DEF Pick
  <2> QED
    BY <2>2, <2>3
<1>8. Eqn(iter)
  BY <1>7
<1>9. iter[{}] = <<>>
  <2>1. {} \in SUBSET C
    OBVIOUS
  <2> HIDE DEF Pick
  <2> QED
    BY <1>8, <2>1
<1>10. ASSUME NEW T \in SUBSET C, T # {} PROVE iter[T] = iter[T \ {Chosen(T)}] \o A[Chosen(T)]
  <2>1. Chosen(T) = Pick(T) /\ Pick(T) \in C
    BY <1>4, <1>10 DEF Chosen
  <2> HIDE DEF Pick
  <2>2. iter[T] = iter[T \ {Pick(T)}] \o tr.ranks[Pick(T)[1]][Pick(T)[2]]
    BY <1>8, <1>10
  <2> QED
    BY <1>3, <2>1, <2>2
<1> HIDE DEF iter
<1> QED
  BY <1>1, <1>9, <1>10 DEF ConcatFold

\* No event is lost.
LEMMA ConcatLaws ==
  ASSUME NEW tr, IsTraceValue(tr), NEW C \in SUBSET Coords(tr)
  PROVE  /\ Concat(tr, C) \in Seq(StreamEvents(tr))
         /\ Len(Concat(tr, C)) = SumFunctionOnSet(Lengths(tr), C)
<1> DEFINE V == Seq(StreamEvents(tr))
           L == Lengths(tr)
           A == At(tr)
<1>1. PICK iter : ConcatFold(iter, tr, C)
  BY ConcatFolded
<1>2. IsFiniteSet(C) /\ \A c \in C : A[c] \in V /\ L[c] = Len(A[c]) /\ L[c] \in Nat
  BY CoordsFinite, FS_Subset
<1> DEFINE P == {T \in SUBSET C : iter[T] \in V /\ Len(iter[T]) = SumFunctionOnSet(L, T)}
<1> HIDE DEF V, L, A
<1>3. ASSUME NEW T \in SUBSET C, \A x \in T : T \ {x} \in P PROVE T \in P
  <2>1. CASE T = {}
    <3>1. iter[T] = <<>>
      BY <1>1, <2>1 DEF ConcatFold
    <3>2. SumFunctionOnSet(L, {}) = 0
      BY <1>2, SumLaws
    <3>3. <<>> \in V /\ Len(<<>>) = 0
      BY DEF V
    <3> QED
      BY <2>1, <3>1, <3>2, <3>3
  <2>2. CASE T # {}
    <3> DEFINE x == Chosen(T)
               U == T \ {x}
    <3>1. x \in T /\ x \in C /\ U \in P
      BY <1>3, <2>2 DEF Chosen
    <3>3. iter[T] = iter[U] \o A[x]
      BY <1>1, <2>2 DEF ConcatFold, A
    <3>4. iter[U] \in V /\ Len(iter[U]) = SumFunctionOnSet(L, U)
      BY <3>1
    <3>5. A[x] \in V /\ L[x] = Len(A[x])
      BY <1>2, <3>1
    <3> HIDE DEF x
    <3>6. SumFunctionOnSet(L, T) = SumFunctionOnSet(L, U) + L[x]
      BY <1>2, <3>1, SumLaws
    <3> HIDE DEF U
    <3>7. iter[T] \in V /\ Len(iter[T]) = Len(iter[U]) + Len(A[x])
      <4> DEFINE E == StreamEvents(tr)
                 p == iter[U]
                 q == A[x]
      <4>1. p \in Seq(E) /\ q \in Seq(E)
        BY <3>4, <3>5 DEF V
      <4> HIDE DEF E, p, q
      <4>2. p \o q \in Seq(E) /\ Len(p \o q) = Len(p) + Len(q)
        BY <4>1, TwoSequences
      <4> QED
        BY <3>3, <4>2 DEF E, p, q, V
    <3> QED
      BY <3>4, <3>5, <3>6, <3>7
  <2> QED
    BY <2>1, <2>2
<1>4. C \in P
  <2> HIDE DEF P
  <2>1. Inductive(C, P)
    BY <1>3 DEF Inductive
  <2> QED
    BY <1>2, <2>1, FiniteInduction
<1> QED
  BY <1>1, <1>4 DEF ConcatFold, V, L

\* The coordinates of the streams X of one rank.
CoordsOf(rank, X) == {<<rank, k>> : k \in X}

\* A sum does not depend on how its summands are named.
LEMMA SumRenamed ==
  ASSUME NEW X, IsFiniteSet(X), NEW f, NEW L, NEW rank,
         \A k \in X : f[k] \in Nat /\ L[<<rank, k>>] = f[k]
  PROVE  SumFunctionOnSet(L, CoordsOf(rank, X)) = SumFunctionOnSet(f, X)
<1> DEFINE Pairs(T) == {<<rank, k>> : k \in T}
           P == {T \in SUBSET X : /\ IsFiniteSet(Pairs(T))
                                  /\ SumFunctionOnSet(L, Pairs(T)) = SumFunctionOnSet(f, T)}
<1>1. \A T \in SUBSET X : \A c \in Pairs(T) : L[c] \in Nat
  OBVIOUS
<1>2. {} \in P
  <2>1. Pairs({}) = {}
    OBVIOUS
  <2>2. SumFunctionOnSet(f, {}) = 0
    BY SumLaws
  <2>3. IsFiniteSet({}) /\ \A c \in {} : L[c] \in Nat
    BY FS_EmptySet
  <2>4. SumFunctionOnSet(L, {}) = 0
    BY <2>3, SumLaws
  <2> QED
    BY <2>1, <2>2, <2>3, <2>4
<1>3. ASSUME NEW T \in SUBSET X, NEW x \in T, T \ {x} \in P PROVE T \in P
  <2> DEFINE c == <<rank, x>>
             A == Pairs(T)
             B == Pairs(T \ {x})
  <2>1. A = B \cup {c} /\ A \ {c} = B /\ c \in A
    OBVIOUS
  <2>2. IsFiniteSet(B) /\ SumFunctionOnSet(L, B) = SumFunctionOnSet(f, T \ {x})
    BY <1>3
  <2>3. \A d \in A : L[d] \in Nat
    BY <1>1
  <2>4. L[c] = f[x]
    OBVIOUS
  <2> HIDE DEF A, B, c
  <2>5. IsFiniteSet(A)
    BY <2>1, <2>2, FS_AddElement
  <2>6. SumFunctionOnSet(L, A) = SumFunctionOnSet(L, A \ {c}) + L[c]
    <3>1. A \in SUBSET A
      OBVIOUS
    <3> QED
      BY <2>1, <2>3, <2>5, <3>1, SumLaws
  <2>7. SumFunctionOnSet(f, T) = SumFunctionOnSet(f, T \ {x}) + f[x]
    BY SumLaws
  <2> QED
    BY <2>1, <2>2, <2>4, <2>5, <2>6, <2>7 DEF A
<1> HIDE DEF P
<1>4. SUBSET X \subseteq P
  BY <1>2, <1>3, SubsetInduction
<1> QED
  BY <1>4 DEF P, CoordsOf

\* The events of a trace are those of its streams, counted at their coordinates.
LEMMA EventsAtCoordinates ==
  ASSUME NEW tr, IsTraceValue(tr)
  PROVE  EventCount(tr) = SumFunctionOnSet(Lengths(tr), Coords(tr)) /\ EventCount(tr) \in Nat
<1> DEFINE D == DOMAIN tr.ranks
           C == Coords(tr)
           L == Lengths(tr)
           rankAt == [c \in C |-> c[1]]
           h == [rank \in D |-> Total(tr.ranks[rank])]
<1>1. IsFiniteSet(D) /\ IsFiniteSet(C) /\ \A c \in C : L[c] \in Nat
  BY CoordsFinite DEF IsTraceValue
<1>2. \A c \in C : rankAt[c] \in D
  BY DEF Coords
<1>3. ASSUME NEW rank \in D PROVE h[rank] = SumFunctionOnSet(L, Fibre(C, rankAt, rank))
  <2> DEFINE X == DOMAIN tr.ranks[rank]
             f == [k \in X |-> Len(tr.ranks[rank][k])]
             R == CoordsOf(rank, X)
  <2>1. h[rank] = SumFunctionOnSet(f, X)
    BY DEF Total, SumFunction
  <2>2. Fibre(C, rankAt, rank) = R
    BY DEF Fibre, Coords, CoordsOf
  <2>3. IsFiniteSet(X)
    BY DEF IsTraceValue
  <2>4. \A k \in X : f[k] \in Nat /\ L[<<rank, k>>] = f[k]
    <3>1. \A k \in X : <<rank, k>> \in C
      BY DEF Coords
    <3>2. \A k \in X : L[<<rank, k>>] = f[k]
      BY <3>1 DEF Lengths
    <3> QED
      BY <1>1, <3>1, <3>2
  <2> HIDE DEF X, f, h, L, C, rankAt
  <2>5. SumFunctionOnSet(L, R) = SumFunctionOnSet(f, X)
    BY <2>3, <2>4, SumRenamed
  <2> QED
    BY <2>1, <2>2, <2>5
<1>4. EventCount(tr) = SumFunctionOnSet(h, D)
  BY DEF EventCount, SumFunction
<1> HIDE DEF D, C, L, rankAt, h
<1>5. SumFunctionOnSet(h, D) = SumFunctionOnSet(L, C)
  BY <1>1, <1>2, <1>3, SumOfFibres
<1>6. SumFunctionOnSet(L, C) \in Nat
  <2>1. C \in SUBSET C
    OBVIOUS
  <2> QED
    BY <1>1, <2>1, SumLaws
<1> QED
  BY <1>4, <1>5, <1>6 DEF L, C

\* What collect_streams makes of a trace: finitely many sequences of its events, of as
\* many events as the trace has.
LEMMA Collected ==
  ASSUME NEW tr, IsTraceValue(tr)
  PROVE  LET streams == CollectStreams(tr) IN
         /\ IsFiniteSet(DOMAIN streams)
         /\ \A key \in DOMAIN streams : streams[key] \in Seq(StreamEvents(tr))
         /\ SumFunction([key \in DOMAIN streams |-> Len(streams[key])]) = EventCount(tr)
<1> DEFINE C == Coords(tr)
           L == Lengths(tr)
           keyAt == KeyAt(tr)
           K == {StreamKey(c[1], c[2]) : c \in C}
           streams == CollectStreams(tr)
           h == [key \in K |-> Len(streams[key])]
<1>1. IsFiniteSet(C) /\ \A c \in C : L[c] \in Nat
  BY CoordsFinite
<1>2. \A c \in C : keyAt[c] \in K
  BY DEF KeyAt
<1>3. IsFiniteSet(K)
  <2>1. keyAt \in Surjection(C, K)
    BY DEF KeyAt, Surjection
  <2> HIDE DEF C, K, keyAt
  <2> QED
    BY <1>1, <2>1, FS_Surjection
<1>4. \A key : {c \in C : StreamKey(c[1], c[2]) = key} = Fibre(C, keyAt, key)
  BY DEF Fibre, KeyAt
<1>5. streams = [key \in K |-> Concat(tr, {c \in C : StreamKey(c[1], c[2]) = key})]
  BY DEF CollectStreams, Concat, Coords
<1>6. DOMAIN streams = K /\ \A key \in K : streams[key] = Concat(tr, Fibre(C, keyAt, key))
  <2> HIDE DEF K, streams, keyAt, C
  <2> QED
    BY <1>4, <1>5 DEF C
<1>7. \A key \in K : /\ streams[key] \in Seq(StreamEvents(tr))
                     /\ Len(streams[key]) = SumFunctionOnSet(L, Fibre(C, keyAt, key))
  <2> SUFFICES ASSUME NEW key \in K
               PROVE  /\ streams[key] \in Seq(StreamEvents(tr))
                      /\ Len(streams[key]) = SumFunctionOnSet(L, Fibre(C, keyAt, key))
    OBVIOUS
  <2> DEFINE F == Fibre(C, keyAt, key)
  <2>1. F \in SUBSET Coords(tr)
    BY DEF Fibre
  <2>2. streams[key] = Concat(tr, F)
    BY <1>6
  <2> HIDE DEF F, streams, K
  <2>3. Concat(tr, F) \in Seq(StreamEvents(tr)) /\ Len(Concat(tr, F)) = SumFunctionOnSet(L, F)
    BY <2>1, ConcatLaws
  <2> QED
    BY <2>2, <2>3 DEF F
<1>8. \A key \in K : h[key] = SumFunctionOnSet(L, Fibre(C, keyAt, key))
  BY <1>7
<1>9. SumFunction([key \in DOMAIN streams |-> Len(streams[key])]) = SumFunctionOnSet(h, K)
  BY <1>6 DEF SumFunction
<1> HIDE DEF C, L, keyAt, K, streams, h
<1>10. SumFunctionOnSet(h, K) = SumFunctionOnSet(L, C)
  BY <1>1, <1>2, <1>3, <1>8, SumOfFibres
<1>11. EventCount(tr) = SumFunctionOnSet(L, C)
  BY EventsAtCoordinates DEF L, C
<1> QED
  BY <1>3, <1>6, <1>7, <1>9, <1>10, <1>11 DEF streams

\* Two counts: what pairs up and what is left over.
LEMMA TwoCounts ==
  ASSUME NEW n \in Nat, NEW m \in Nat
  PROVE  /\ Matched(n, m) \in Nat /\ Surplus(n, m) \in Nat
         /\ Matched(n, m) + Matched(n, m) + Surplus(n, m) = n + m
         /\ Surplus(n, m) = 0 <=> n = m
<1>1. \E x \in {n, m} : \A y \in {n, m} : x <= y
  OBVIOUS
<1>2. \E x \in {n, m} : \A y \in {n, m} : x >= y
  OBVIOUS
<1> DEFINE low == Min({n, m})
           high == Max({n, m})
<1>3. low \in {n, m} /\ low <= n /\ low <= m
  BY <1>1 DEF Min
<1>4. high \in {n, m} /\ high >= n /\ high >= m
  BY <1>2 DEF Max
<1>5. Matched(n, m) = low /\ Surplus(n, m) = high - low
  BY DEF Matched, Surplus
<1> HIDE DEF low, high
<1> QED
  BY <1>3, <1>4, <1>5

\* The fingerprints of a stream count it.
LEMMA FingerprintsCount ==
  ASSUME NEW E, NEW p \in Seq(E), NEW F, IsFiniteSet(F), Fingerprints(p) \subseteq F
  PROVE  /\ SumFunctionOnSet([fp \in F |-> Count(p, fp)], F) = Len(p)
         /\ \A fp : Count(p, fp) \in Nat
<1> DEFINE D == DOMAIN p
           g == [i \in D |-> Fingerprint(p[i])]
           h == [fp \in F |-> Count(p, fp)]
<1>1. D = 1..Len(p) /\ Len(p) \in Nat
  OBVIOUS
<1>2. IsFiniteSet(D) /\ Cardinality(D) = Len(p)
  BY <1>1, FS_Interval
<1>3. \A i \in D : g[i] \in F
  BY DEF Fingerprints
<1>4. \A fp : Count(p, fp) = Cardinality(Fibre(D, g, fp))
  <2> SUFFICES ASSUME NEW fp PROVE Count(p, fp) = Cardinality(Fibre(D, g, fp))
    OBVIOUS
  <2>1. {i \in D : Fingerprint(p[i]) = fp} = Fibre(D, g, fp)
    BY DEF Fibre
  <2> QED
    BY <2>1 DEF Count
<1>5. \A fp \in F : h[fp] = Cardinality(Fibre(D, g, fp))
  BY <1>4
<1>6. \A fp : Count(p, fp) \in Nat
  <2> SUFFICES ASSUME NEW fp PROVE Count(p, fp) \in Nat
    OBVIOUS
  <2>1. Fibre(D, g, fp) \in SUBSET D
    BY DEF Fibre
  <2>2. IsFiniteSet(Fibre(D, g, fp))
    BY <1>2, <2>1, FS_Subset
  <2> QED
    BY <1>4, <2>2, FS_CardinalityType
<1> HIDE DEF D, g, h
<1>7. SumFunctionOnSet(h, F) = Cardinality(D)
  BY <1>2, <1>3, <1>5, CountOfClasses
<1> QED
  BY <1>2, <1>6, <1>7 DEF h

\* A stream has finitely many fingerprints.
LEMMA FingerprintsFinite ==
  ASSUME NEW E, NEW p \in Seq(E)
  PROVE  IsFiniteSet(Fingerprints(p))
<1> DEFINE D == DOMAIN p
           X == Fingerprints(p)
           g == [i \in D |-> Fingerprint(p[i])]
<1>1. D = 1..Len(p) /\ Len(p) \in Nat
  OBVIOUS
<1>2. IsFiniteSet(D)
  BY <1>1, FS_Interval
<1>3. g \in Surjection(D, X)
  BY DEF Surjection, Fingerprints
<1> HIDE DEF D, X, g
<1> QED
  BY <1>2, <1>3, FS_Surjection DEF X

\* What compare_stream adds to the report for the streams p and q.
MatchedOf(p, q) ==
  SumFunction([fp \in AllFingerprints(p, q) |-> Matched(Count(p, fp), Count(q, fp))])
SurplusOf(p, q) ==
  SumFunction([fp \in AllFingerprints(p, q) |-> Surplus(Count(p, fp), Count(q, fp))])

\* Twice the matches and the mismatches are the events of both streams, and there
\* are no mismatches just when every fingerprint occurs as often in both.
LEMMA StreamsCompared ==
  ASSUME NEW E, NEW p \in Seq(E), NEW q \in Seq(E)
  PROVE  /\ MatchedOf(p, q) \in Nat /\ SurplusOf(p, q) \in Nat
         /\ 2 * MatchedOf(p, q) + SurplusOf(p, q) = Len(p) + Len(q)
         /\ SurplusOf(p, q) = 0 <=> \A fp \in AllFingerprints(p, q) : Count(p, fp) = Count(q, fp)
<1> DEFINE F == AllFingerprints(p, q)
           a == [fp \in F |-> Count(p, fp)]
           b == [fp \in F |-> Count(q, fp)]
           m == [fp \in F |-> Matched(Count(p, fp), Count(q, fp))]
           s == [fp \in F |-> Surplus(Count(p, fp), Count(q, fp))]
           mm == [fp \in F |-> m[fp] + m[fp]]
           all == [fp \in F |-> mm[fp] + s[fp]]
           sum == [fp \in F |-> a[fp] + b[fp]]
<1>1. IsFiniteSet(Fingerprints(p)) /\ IsFiniteSet(Fingerprints(q))
  BY FingerprintsFinite
<1>2. IsFiniteSet(F) /\ Fingerprints(p) \subseteq F /\ Fingerprints(q) \subseteq F
  BY <1>1, FS_Union DEF AllFingerprints
<1>3. /\ SumFunctionOnSet(a, F) = Len(p) /\ SumFunctionOnSet(b, F) = Len(q)
      /\ \A fp : Count(p, fp) \in Nat /\ Count(q, fp) \in Nat
  <2> HIDE DEF F
  <2> QED
    BY <1>2, FingerprintsCount
<1>4. \A fp \in F : /\ a[fp] \in Nat /\ b[fp] \in Nat /\ m[fp] \in Nat /\ s[fp] \in Nat
                    /\ m[fp] + m[fp] + s[fp] = a[fp] + b[fp]
                    /\ s[fp] = 0 <=> Count(p, fp) = Count(q, fp)
  <2> SUFFICES ASSUME NEW fp \in F
               PROVE  /\ a[fp] \in Nat /\ b[fp] \in Nat /\ m[fp] \in Nat /\ s[fp] \in Nat
                      /\ m[fp] + m[fp] + s[fp] = a[fp] + b[fp]
                      /\ s[fp] = 0 <=> Count(p, fp) = Count(q, fp)
    OBVIOUS
  <2> DEFINE x == Count(p, fp)
             y == Count(q, fp)
  <2>1. x \in Nat /\ y \in Nat
    BY <1>3
  <2>2. a[fp] = x /\ b[fp] = y /\ m[fp] = Matched(x, y) /\ s[fp] = Surplus(x, y)
    OBVIOUS
  <2> HIDE DEF x, y, a, b, m, s
  <2> QED
    <3>1. /\ Matched(x, y) \in Nat /\ Surplus(x, y) \in Nat
          /\ Matched(x, y) + Matched(x, y) + Surplus(x, y) = x + y
          /\ Surplus(x, y) = 0 <=> x = y
      BY <2>1, TwoCounts
    <3>2. s[fp] = 0 <=> x = y
      BY <2>2, <3>1
    <3>3. m[fp] + m[fp] + s[fp] = a[fp] + b[fp]
      BY <2>2, <3>1
    <3> QED
      BY <2>1, <2>2, <3>1, <3>2, <3>3 DEF x, y
<1>5. /\ \A fp \in F : m[fp] \in Nat /\ m[fp] \in Nat /\ mm[fp] = m[fp] + m[fp]
      /\ \A fp \in F : mm[fp] \in Nat /\ s[fp] \in Nat /\ all[fp] = mm[fp] + s[fp]
      /\ \A fp \in F : a[fp] \in Nat /\ b[fp] \in Nat /\ sum[fp] = a[fp] + b[fp]
      /\ \A fp \in F : all[fp] \in Nat /\ all[fp] = sum[fp]
  <2> HIDE DEF a, b, m, s
  <2> QED
    BY <1>4
<1>6. MatchedOf(p, q) = SumFunctionOnSet(m, F) /\ SurplusOf(p, q) = SumFunctionOnSet(s, F)
  BY DEF MatchedOf, SurplusOf, SumFunction
<1> HIDE DEF F, a, b, m, s, mm, all, sum
<1>7. /\ SumFunctionOnSet(mm, F) = SumFunctionOnSet(m, F) + SumFunctionOnSet(m, F)
      /\ SumFunctionOnSet(all, F) = SumFunctionOnSet(mm, F) + SumFunctionOnSet(s, F)
      /\ SumFunctionOnSet(sum, F) = SumFunctionOnSet(a, F) + SumFunctionOnSet(b, F)
  BY <1>2, <1>5, SumOfSums, ZenonT(40)
<1>8. SumFunctionOnSet(all, F) = SumFunctionOnSet(sum, F)
  BY <1>2, <1>5, SumOfEqual
<1>9. SumFunctionOnSet(m, F) \in Nat /\ SumFunctionOnSet(s, F) \in Nat
  <2>1. F \in SUBSET F
    OBVIOUS
  <2> QED
    BY <1>2, <1>4, <2>1, SumLaws
<1>10. SumFunctionOnSet(s, F) = 0 <=> \A fp \in F : s[fp] = 0
  BY <1>2, <1>4, SumIsZero
<1> QED
  BY <1>3, <1>4, <1>6, <1>7, <1>8, <1>9, <1>10 DEF F

\* It is enough to look at the fingerprints of one of two streams of equal length.
LEMMA SameFingerprints ==
  ASSUME NEW E, NEW p \in Seq(E), NEW q \in Seq(E)
  PROVE  SurplusOf(p, q) = 0 <=>
           Len(p) = Len(q) /\ \A fp \in Fingerprints(p) : Count(p, fp) = Count(q, fp)
<1> DEFINE F == AllFingerprints(p, q)
           X == Fingerprints(p)
           Y == F \ X
           a == [fp \in F |-> Count(p, fp)]
           b == [fp \in F |-> Count(q, fp)]
<1>1. IsFiniteSet(F) /\ IsFiniteSet(X) /\ IsFiniteSet(Y)
  <2>1. IsFiniteSet(X) /\ IsFiniteSet(Fingerprints(q))
    BY FingerprintsFinite
  <2>2. IsFiniteSet(F)
    BY <2>1, FS_Union DEF AllFingerprints
  <2>3. Y \in SUBSET F
    OBVIOUS
  <2> QED
    BY <2>1, <2>2, <2>3, FS_Subset
<1>2. X \subseteq F /\ Fingerprints(q) \subseteq F /\ X \cap Y = {} /\ X \cup Y = F
  BY DEF AllFingerprints
<1>3. /\ SumFunctionOnSet(a, F) = Len(p) /\ SumFunctionOnSet(b, F) = Len(q)
      /\ \A fp : Count(p, fp) \in Nat /\ Count(q, fp) \in Nat
  <2> HIDE DEF F
  <2> QED
    BY <1>1, <1>2, FingerprintsCount
<1>4. \A fp \in F : /\ a[fp] \in Nat /\ b[fp] \in Nat
                    /\ a[fp] = Count(p, fp) /\ b[fp] = Count(q, fp)
  BY <1>3
<1>5. \A fp \in Y : a[fp] = 0
  <2> SUFFICES ASSUME NEW fp \in Y PROVE Count(p, fp) = 0
    OBVIOUS
  <2>1. {i \in DOMAIN p : Fingerprint(p[i]) = fp} = {}
    BY DEF Fingerprints
  <2> QED
    BY <2>1, FS_EmptySet DEF Count
<1>6. SurplusOf(p, q) = 0 <=> \A fp \in F : Count(p, fp) = Count(q, fp)
  BY StreamsCompared
<1> HIDE DEF F, X, Y, a, b
<1>7. ASSUME \A fp \in F : Count(p, fp) = Count(q, fp)
      PROVE  Len(p) = Len(q) /\ \A fp \in X : Count(p, fp) = Count(q, fp)
  <2>1. \A fp \in F : a[fp] \in Nat /\ a[fp] = b[fp]
    BY <1>4, <1>7
  <2>2. SumFunctionOnSet(a, F) = SumFunctionOnSet(b, F)
    BY <1>1, <2>1, SumOfEqual
  <2> QED
    BY <1>2, <1>3, <1>7, <2>2
<1>8. ASSUME Len(p) = Len(q), \A fp \in X : Count(p, fp) = Count(q, fp)
      PROVE  \A fp \in F : Count(p, fp) = Count(q, fp)
  <2>1. /\ SumFunctionOnSet(a, F) = SumFunctionOnSet(a, X) + SumFunctionOnSet(a, Y)
        /\ SumFunctionOnSet(b, F) = SumFunctionOnSet(b, X) + SumFunctionOnSet(b, Y)
    BY <1>1, <1>2, <1>4, SumOfUnion
  <2>2. \A fp \in X : a[fp] \in Nat /\ a[fp] = b[fp]
    BY <1>2, <1>4, <1>8
  <2>3. SumFunctionOnSet(a, X) = SumFunctionOnSet(b, X)
    BY <1>1, <2>2, SumOfEqual
  <2>4. (\A fp \in Y : a[fp] \in Nat) /\ \A fp \in Y : b[fp] \in Nat
    BY <1>2, <1>4
  <2>5. SumFunctionOnSet(a, Y) = 0
    BY <1>1, <1>5, <2>4, SumIsZero
  <2>6. SumFunctionOnSet(b, Y) = SumFunctionOnSet(a, Y)
    <3>1. /\ SumFunctionOnSet(a, X) \in Nat /\ SumFunctionOnSet(b, X) \in Nat
          /\ SumFunctionOnSet(a, Y) \in Nat /\ SumFunctionOnSet(b, Y) \in Nat
      <4>1. /\ X \in SUBSET F /\ Y \in SUBSET F
            /\ (\A fp \in F : a[fp] \in Nat) /\ (\A fp \in F : b[fp] \in Nat)
        BY <1>2, <1>4
      <4> QED
        BY <1>1, <4>1, SumLaws
    <3> QED
      BY <1>3, <1>8, <2>1, <2>3, <3>1
  <2>7. \A fp \in Y : b[fp] = 0
    BY <1>1, <2>4, <2>5, <2>6, SumIsZero
  <2> QED
    BY <1>2, <1>4, <1>5, <1>8, <2>7
<1> QED
  BY <1>6, <1>7, <1>8 DEF X

\* The streams both traces have, and what comparing each of them adds.
Common(o, r) == DOMAIN CollectStreams(o) \cap DOMAIN CollectStreams(r)
Matches(o, r) ==
  [key \in Common(o, r) |-> MatchedOf(CollectStreams(o)[key], CollectStreams(r)[key])]
Surpluses(o, r) ==
  [key \in Common(o, r) |-> SurplusOf(CollectStreams(o)[key], CollectStreams(r)[key])]

\* The events of some streams of a collection.
InStreams(streams, keys) == SumFunction([k \in keys |-> Len(streams[k])])

\* What comparing any of them adds: numbers that account for the events of both.
LEMMA CommonFacts ==
  ASSUME NEW o, NEW r, IsTraceValue(o), IsTraceValue(r)
  PROVE  /\ IsFiniteSet(Common(o, r))
         /\ \A key \in Common(o, r) :
              LET p == CollectStreams(o)[key]
                  q == CollectStreams(r)[key]
                  E == StreamEvents(o) \cup StreamEvents(r)
              IN  /\ p \in Seq(E) /\ q \in Seq(E)
                  /\ Len(p) \in Nat /\ Len(q) \in Nat
                  /\ Matches(o, r)[key] = MatchedOf(p, q) /\ Matches(o, r)[key] \in Nat
                  /\ Surpluses(o, r)[key] = SurplusOf(p, q) /\ Surpluses(o, r)[key] \in Nat
                  /\ 2 * Matches(o, r)[key] + Surpluses(o, r)[key] = Len(p) + Len(q)
<1> DEFINE A == CollectStreams(o)
           B == CollectStreams(r)
           E == StreamEvents(o) \cup StreamEvents(r)
<1>1. /\ IsFiniteSet(DOMAIN A) /\ IsFiniteSet(DOMAIN B)
      /\ \A key \in DOMAIN A : A[key] \in Seq(StreamEvents(o))
      /\ \A key \in DOMAIN B : B[key] \in Seq(StreamEvents(r))
  BY Collected
<1>2. IsFiniteSet(Common(o, r))
  <2>1. Common(o, r) \in SUBSET DOMAIN A
    BY DEF Common
  <2> QED
    BY <1>1, <2>1, FS_Subset
<1>3. ASSUME NEW key \in Common(o, r)
      PROVE  /\ A[key] \in Seq(E) /\ B[key] \in Seq(E)
             /\ Len(A[key]) \in Nat /\ Len(B[key]) \in Nat
             /\ Matches(o, r)[key] = MatchedOf(A[key], B[key]) /\ Matches(o, r)[key] \in Nat
             /\ Surpluses(o, r)[key] = SurplusOf(A[key], B[key]) /\ Surpluses(o, r)[key] \in Nat
             /\ 2 * Matches(o, r)[key] + Surpluses(o, r)[key] = Len(A[key]) + Len(B[key])
  <2> DEFINE p == A[key]
             q == B[key]
             X == StreamEvents(o)
             Y == StreamEvents(r)
  <2>1. p \in Seq(X) /\ q \in Seq(Y)
    BY <1>1 DEF Common
  <2>2. Matches(o, r)[key] = MatchedOf(p, q) /\ Surpluses(o, r)[key] = SurplusOf(p, q)
    BY DEF Matches, Surpluses
  <2> HIDE DEF p, q, X, Y
  <2>3. p \in Seq(X \cup Y) /\ q \in Seq(X \cup Y)
    BY <2>1
  <2>4. /\ MatchedOf(p, q) \in Nat /\ SurplusOf(p, q) \in Nat
        /\ 2 * MatchedOf(p, q) + SurplusOf(p, q) = Len(p) + Len(q)
    BY <2>3, StreamsCompared
  <2>5. Len(p) \in Nat /\ Len(q) \in Nat
    BY <2>3
  <2> QED
    BY <2>2, <2>3, <2>4, <2>5 DEF p, q, X, Y
<1> QED
  BY <1>2, <1>3

\* Over any of them: twice the matches and the mismatches are the events of both.
LEMMA EventsOfCompared ==
  ASSUME NEW o, NEW r, IsTraceValue(o), IsTraceValue(r), NEW K \in SUBSET Common(o, r)
  PROVE  /\ SumFunctionOnSet(Matches(o, r), K) \in Nat
         /\ SumFunctionOnSet(Surpluses(o, r), K) \in Nat
         /\ 2 * SumFunctionOnSet(Matches(o, r), K) + SumFunctionOnSet(Surpluses(o, r), K)
              = InStreams(CollectStreams(o), K) + InStreams(CollectStreams(r), K)
<1> DEFINE m == Matches(o, r)
           s == Surpluses(o, r)
           a == [k \in K |-> Len(CollectStreams(o)[k])]
           b == [k \in K |-> Len(CollectStreams(r)[k])]
           mm == [k \in K |-> m[k] + m[k]]
           all == [k \in K |-> mm[k] + s[k]]
           sum == [k \in K |-> a[k] + b[k]]
<1>1. IsFiniteSet(K)
  BY CommonFacts, FS_Subset
<1>2. \A k \in K : /\ a[k] \in Nat /\ b[k] \in Nat /\ m[k] \in Nat /\ s[k] \in Nat
                   /\ 2 * m[k] + s[k] = a[k] + b[k]
  <2> SUFFICES ASSUME NEW k \in K
               PROVE  /\ a[k] \in Nat /\ b[k] \in Nat /\ m[k] \in Nat /\ s[k] \in Nat
                      /\ 2 * m[k] + s[k] = a[k] + b[k]
    OBVIOUS
  <2>1. k \in Common(o, r)
    OBVIOUS
  <2>2. a[k] = Len(CollectStreams(o)[k]) /\ b[k] = Len(CollectStreams(r)[k])
    OBVIOUS
  <2> HIDE DEF a, b
  <2> QED
    BY <2>1, <2>2, CommonFacts, ZenonT(40)
<1>3. InStreams(CollectStreams(o), K) = SumFunctionOnSet(a, K)
      /\ InStreams(CollectStreams(r), K) = SumFunctionOnSet(b, K)
  BY DEF InStreams, SumFunction
<1> HIDE DEF m, s, a, b
<1>4. /\ \A k \in K : m[k] \in Nat /\ m[k] \in Nat /\ mm[k] = m[k] + m[k]
      /\ \A k \in K : mm[k] \in Nat /\ s[k] \in Nat /\ all[k] = mm[k] + s[k]
      /\ \A k \in K : a[k] \in Nat /\ b[k] \in Nat /\ sum[k] = a[k] + b[k]
      /\ \A k \in K : all[k] \in Nat /\ all[k] = sum[k]
  BY <1>2
<1> HIDE DEF mm, all, sum
<1>5. /\ SumFunctionOnSet(mm, K) = SumFunctionOnSet(m, K) + SumFunctionOnSet(m, K)
      /\ SumFunctionOnSet(all, K) = SumFunctionOnSet(mm, K) + SumFunctionOnSet(s, K)
      /\ SumFunctionOnSet(sum, K) = SumFunctionOnSet(a, K) + SumFunctionOnSet(b, K)
  BY <1>1, <1>4, SumOfSums
<1>6. SumFunctionOnSet(all, K) = SumFunctionOnSet(sum, K)
  BY <1>1, <1>4, SumOfEqual
<1>7. SumFunctionOnSet(m, K) \in Nat /\ SumFunctionOnSet(s, K) \in Nat
  <2>1. K \in SUBSET K
    OBVIOUS
  <2> QED
    BY <1>1, <1>2, <2>1, SumLaws
<1> QED
  BY <1>3, <1>5, <1>6, <1>7 DEF m, s

\* The streams of a collection in two parts.
LEMMA StreamsInParts ==
  ASSUME NEW tr, IsTraceValue(tr), NEW K, NEW J, K \cap J = {},
         K \cup J \in SUBSET DOMAIN CollectStreams(tr)
  PROVE  LET streams == CollectStreams(tr) IN
         /\ InStreams(streams, K \cup J) = InStreams(streams, K) + InStreams(streams, J)
         /\ InStreams(streams, K) \in Nat /\ InStreams(streams, J) \in Nat
         /\ InStreams(streams, DOMAIN streams) = EventCount(tr)
<1> DEFINE streams == CollectStreams(tr)
           D == DOMAIN streams
           f == [k \in D |-> Len(streams[k])]
<1>1. IsFiniteSet(D) /\ (\A k \in D : streams[k] \in Seq(StreamEvents(tr)))
      /\ InStreams(streams, D) = EventCount(tr)
  BY Collected DEF InStreams
<1>2. \A k \in D : f[k] \in Nat
  BY <1>1
<1>3. ASSUME NEW T \in SUBSET D
      PROVE  /\ InStreams(streams, T) = SumFunctionOnSet(f, T)
             /\ IsFiniteSet(T) /\ SumFunctionOnSet(f, T) \in Nat
  <2> DEFINE g == [k \in T |-> Len(streams[k])]
  <2>1. InStreams(streams, T) = SumFunctionOnSet(g, T)
    BY DEF InStreams, SumFunction
  <2>2. IsFiniteSet(T)
    BY <1>1, FS_Subset
  <2>3. \A k \in T : f[k] \in Nat /\ f[k] = g[k]
    BY <1>2
  <2> HIDE DEF f, g, streams
  <2>4. SumFunctionOnSet(f, T) = SumFunctionOnSet(g, T)
    BY <2>2, <2>3, SumOfEqual
  <2>5. SumFunctionOnSet(f, T) \in Nat
    BY <1>1, <1>2, SumLaws
  <2> QED
    BY <2>1, <2>2, <2>4, <2>5
<1>4. K \in SUBSET D /\ J \in SUBSET D /\ K \cup J \in SUBSET D
  OBVIOUS
<1> HIDE DEF f, streams
<1>5. SumFunctionOnSet(f, K \cup J) = SumFunctionOnSet(f, K) + SumFunctionOnSet(f, J)
  <2>1. \A k \in K \cup J : f[k] \in Nat
    BY <1>2, <1>4
  <2>2. IsFiniteSet(K) /\ IsFiniteSet(J)
    BY <1>3, <1>4
  <2> QED
    BY <2>1, <2>2, SumOfUnion
<1> QED
  BY <1>1, <1>3, <1>4, <1>5 DEF streams

-----------------------------------------------------------------------------
(* The invariant: the report is what the streams compared so far add up to. *)

DifferingMetadata(o, r) ==
  {rank \in DOMAIN o.metadata \cup DOMAIN r.metadata : Get(o.metadata, rank) # Get(r.metadata, rank)}

NotComparing ==
  /\ original = NoTrace /\ reconstructed = NoTrace
  /\ pending = None /\ report = EmptyReport /\ verdict = None

\* The streams P of both sides are still to be compared; the report adds up the others.
Listed(P) ==
  LET done == Common(original, reconstructed) \ P IN
  /\ pending = Some(P) /\ P \in SUBSET Common(original, reconstructed)
  /\ report = [matching   |-> SumFunctionOnSet(Matches(original, reconstructed), done),
               mismatched |-> SumFunctionOnSet(Surpluses(original, reconstructed), done),
               missing    |-> DOMAIN OrigStreams \ DOMAIN ReconStreams,
               extra      |-> DOMAIN ReconStreams \ DOMAIN OrigStreams,
               metadata   |-> report.metadata]
  /\ \/ verdict = None /\ report.metadata = {}
     \/ /\ verdict = Some(IsOk(report)) /\ P = {}
        /\ report.metadata = DifferingMetadata(original, reconstructed)

\* A comparison runs or has its verdict.
ComparingInv ==
  /\ IsTraceValue(original) /\ IsTraceValue(reconstructed)
  /\ \/ pending = None /\ report = EmptyReport /\ verdict = None
     \/ \E P : Listed(P)

VerifyInv == NotComparing \/ ComparingInv

\* At first no comparison runs.
LEMMA VerifyStarts == VerifyInit => VerifyInv
BY DEF VerifyInit, VerifyInv, NotComparing

\* Listing the streams of one side leaves every common stream to compare.
LEMMA ListStreamsStep == VerifyInv /\ ListStreams => VerifyInv'
<1> SUFFICES ASSUME VerifyInv, ListStreams PROVE ComparingInv'
  BY DEF VerifyInv
<1>1. original.ok /\ verdict = None /\ pending = None
  BY DEF ListStreams, Comparing
<1>2. NoTrace.ok = FALSE
  BY DEF NoTrace
<1>3. ComparingInv
  BY <1>1, <1>2 DEF VerifyInv, NotComparing
<1> DEFINE C == Common(original, reconstructed)
<1>4. report = EmptyReport
  BY <1>1, <1>3, Options DEF ComparingInv, Listed
<1>5. C \ C = {} /\ C \in SUBSET C
  OBVIOUS
<1>6. /\ SumFunctionOnSet(Matches(original, reconstructed), {}) = 0
      /\ SumFunctionOnSet(Surpluses(original, reconstructed), {}) = 0
  <2> DEFINE m == Matches(original, reconstructed)
             s == Surpluses(original, reconstructed)
  <2>1. IsFiniteSet(C) /\ (\A k \in C : m[k] \in Nat) /\ \A k \in C : s[k] \in Nat
    BY <1>3, CommonFacts DEF ComparingInv
  <2> HIDE DEF C, m, s
  <2>2. SumFunctionOnSet(m, {}) = 0 /\ SumFunctionOnSet(s, {}) = 0
    BY <2>1, SumLaws
  <2> QED
    BY <2>2 DEF m, s
<1>7. /\ original' = original /\ reconstructed' = reconstructed /\ verdict' = None
      /\ pending' = Some(C)
  BY <1>1 DEF ListStreams, Common, OrigStreams, ReconStreams
<1>8. report' = [matching |-> 0, mismatched |-> 0,
                 missing |-> DOMAIN OrigStreams \ DOMAIN ReconStreams,
                 extra |-> DOMAIN ReconStreams \ DOMAIN OrigStreams, metadata |-> {}]
  BY <1>4 DEF ListStreams, EmptyReport
<1>9. Listed(C)'
  BY <1>5, <1>6, <1>7, <1>8 DEF Listed, OrigStreams, ReconStreams
<1> QED
  BY <1>3, <1>7, <1>9 DEF ComparingInv

\* Comparing a stream moves its share from what is pending to the report.
LEMMA CompareStreamStep ==
  ASSUME NEW key, VerifyInv, CompareStream(key)
  PROVE  VerifyInv'
<1>1. original.ok /\ verdict = None /\ pending # None /\ key \in pending[1]
  BY DEF CompareStream, Comparing
<1>2. NoTrace.ok = FALSE
  BY DEF NoTrace
<1>3. ComparingInv
  BY <1>1, <1>2 DEF VerifyInv, NotComparing
<1>4. PICK P : Listed(P)
  BY <1>1, <1>3 DEF ComparingInv
<1> DEFINE C == Common(original, reconstructed)
           m == Matches(original, reconstructed)
           s == Surpluses(original, reconstructed)
           done == C \ P
           more == C \ (P \ {key})
<1>5. pending = Some(P) /\ P \in SUBSET C /\ key \in P /\ key \in C
  BY <1>1, <1>4, Options DEF Listed
<1>6. report.metadata = {}
  BY <1>1, <1>4, Options DEF Listed
<1>7. report = [matching   |-> SumFunctionOnSet(m, done),
                mismatched |-> SumFunctionOnSet(s, done),
                missing    |-> DOMAIN OrigStreams \ DOMAIN ReconStreams,
                extra      |-> DOMAIN ReconStreams \ DOMAIN OrigStreams,
                metadata   |-> {}]
  BY <1>4, <1>6 DEF Listed
<1>8. /\ original' = original /\ reconstructed' = reconstructed /\ verdict' = None
      /\ pending' = Some(P \ {key})
  BY <1>1, <1>5, Options DEF CompareStream
<1>9. report' = [report EXCEPT !.matching = @ + MatchedOf(OrigStreams[key], ReconStreams[key]),
                               !.mismatched = @ + SurplusOf(OrigStreams[key], ReconStreams[key])]
  BY DEF CompareStream, MatchedOf, SurplusOf
<1>10. m[key] = MatchedOf(OrigStreams[key], ReconStreams[key])
       /\ s[key] = SurplusOf(OrigStreams[key], ReconStreams[key])
  BY <1>5 DEF Matches, Surpluses, OrigStreams, ReconStreams
<1>11. SumFunctionOnSet(m, more) = SumFunctionOnSet(m, done) + m[key]
       /\ SumFunctionOnSet(s, more) = SumFunctionOnSet(s, done) + s[key]
  <2>1. IsFiniteSet(C) /\ (\A k \in C : m[k] \in Nat) /\ \A k \in C : s[k] \in Nat
    BY <1>3, CommonFacts DEF ComparingInv
  <2>2. more \in SUBSET C /\ key \in more /\ more \ {key} = done
    BY <1>5
  <2> HIDE DEF C, m, s, more, done
  <2>3. SumFunctionOnSet(m, more) = SumFunctionOnSet(m, more \ {key}) + m[key]
        /\ SumFunctionOnSet(s, more) = SumFunctionOnSet(s, more \ {key}) + s[key]
    BY <2>1, <2>2, SumLaws
  <2> QED
    BY <2>2, <2>3
<1>12. report' = [matching   |-> SumFunctionOnSet(m, more),
                  mismatched |-> SumFunctionOnSet(s, more),
                  missing    |-> DOMAIN OrigStreams \ DOMAIN ReconStreams,
                  extra      |-> DOMAIN ReconStreams \ DOMAIN OrigStreams,
                  metadata   |-> {}]
  <2> HIDE DEF m, s, more, done
  <2> QED
    BY <1>7, <1>9, <1>10, <1>11
<1>13. Listed(P \ {key})'
  BY <1>5, <1>8, <1>12 DEF Listed, OrigStreams, ReconStreams
<1> QED
  BY <1>3, <1>8, <1>13 DEF ComparingInv, VerifyInv

\* Comparing the metadata ends the comparison with the report complete.
LEMMA CompareMetadataStep == VerifyInv /\ CompareMetadata => VerifyInv'
<1> SUFFICES ASSUME VerifyInv, CompareMetadata PROVE VerifyInv'
  OBVIOUS
<1>1. original.ok /\ verdict = None /\ pending = Some({})
  BY DEF CompareMetadata, Comparing
<1>2. NoTrace.ok = FALSE
  BY DEF NoTrace
<1>3. ComparingInv
  BY <1>1, <1>2 DEF VerifyInv, NotComparing
<1>4. Listed({})
  <2>1. PICK P : Listed(P)
    BY <1>1, <1>3, Options DEF ComparingInv
  <2>2. P = {}
    BY <1>1, <2>1, Options DEF Listed
  <2> QED
    BY <2>1, <2>2
<1> DEFINE M == DifferingMetadata(original, reconstructed)
<1>5. report' = [report EXCEPT !.metadata = M] /\ verdict' = Some(IsOk(report'))
  BY DEF CompareMetadata, DifferingMetadata
<1>6. UNCHANGED <<original, reconstructed, pending>>
  BY DEF CompareMetadata
<1> DEFINE done == Common(original, reconstructed) \ {}
           fresh == [matching   |-> SumFunctionOnSet(Matches(original, reconstructed), done),
                     mismatched |-> SumFunctionOnSet(Surpluses(original, reconstructed), done),
                     missing    |-> DOMAIN OrigStreams \ DOMAIN ReconStreams,
                     extra      |-> DOMAIN ReconStreams \ DOMAIN OrigStreams,
                     metadata   |-> M]
<1>7. report' = fresh
  <2> HIDE DEF M
  <2> QED
    BY <1>4, <1>5 DEF Listed
<1>8. report'.metadata = M
  BY <1>7
<1>9. verdict' = Some(IsOk(report)')
  BY <1>5, <1>6 DEF IsOk
<1>10. report' = [fresh EXCEPT !.metadata = report'.metadata]
  BY <1>7, <1>8
<1>11. Listed({})'
  <2>1. pending' = Some({}) /\ {} \in SUBSET Common(original, reconstructed)
    BY <1>4, <1>6 DEF Listed
  <2>2. report' = [matching   |-> SumFunctionOnSet(Matches(original, reconstructed), done),
                   mismatched |-> SumFunctionOnSet(Surpluses(original, reconstructed), done),
                   missing    |-> DOMAIN OrigStreams \ DOMAIN ReconStreams,
                   extra      |-> DOMAIN ReconStreams \ DOMAIN OrigStreams,
                   metadata   |-> report'.metadata]
    BY <1>7, <1>8
  <2> HIDE DEF M, done, fresh
  <2> QED
    BY <1>6, <1>8, <1>9, <2>1, <2>2 DEF Listed, OrigStreams, ReconStreams, M, done
<1> QED
  BY <1>3, <1>6, <1>11 DEF ComparingInv, VerifyInv

\* Every step of compare_traces keeps the invariant.
LEMMA NextVerify == VerifyInv /\ [VerifyNext]_verifyVars => VerifyInv'
<1> SUFFICES ASSUME VerifyInv, [VerifyNext]_verifyVars PROVE VerifyInv'
  OBVIOUS
<1>1. CASE Called
  <2>1. ~original.ok
    BY <1>1 DEF Called
  <2>2. NotComparing
    BY <2>1 DEF VerifyInv, ComparingInv, IsTraceValue
  <2>3. IsTraceValue(original') /\ IsTraceValue(reconstructed')
        /\ UNCHANGED <<pending, report, verdict>>
    BY <1>1 DEF Called, CompareTraces
  <2> QED
    BY <2>2, <2>3 DEF NotComparing, VerifyInv, ComparingInv
<1>2. CASE ListStreams
  BY <1>2, ListStreamsStep
<1>3. ASSUME NEW key, CompareStream(key) PROVE VerifyInv'
  BY <1>3, CompareStreamStep
<1>4. CASE CompareMetadata
  BY <1>4, CompareMetadataStep
<1>5. CASE Returned
  BY <1>5 DEF Returned, VerifyInv, NotComparing
<1>6. CASE UNCHANGED verifyVars
  BY <1>6 DEF verifyVars, VerifyInv, NotComparing, ComparingInv, Listed, OrigStreams, ReconStreams, IsOk
<1> QED
  BY <1>1, <1>2, <1>3, <1>4, <1>5, <1>6 DEF VerifyNext, VerifyStep

\* What VerifyInv says of every state in which the tool compares anything.
LEMMA VerifyInvariant == VerifySpec => []VerifyInv
BY VerifyStarts, NextVerify, PTL DEF VerifySpec

\* No event of either trace goes uncounted, whatever the traces: once every common
\* stream is compared, each one is half of a match, a mismatch, or in a stream of
\* one side only.
THEOREM EventsCounted == VerifySpec => []EveryEventCounted
<1>1. VerifyInv => EveryEventCounted
  <2> SUFFICES ASSUME VerifyInv, pending = Some({})
               PROVE  2 * report.matching + report.mismatched
                        + InStreams(OrigStreams, report.missing)
                        + InStreams(ReconStreams, report.extra)
                        = EventCount(original) + EventCount(reconstructed)
    BY DEF EveryEventCounted, InStreams
  <2>1. ComparingInv
    BY Options DEF VerifyInv, NotComparing
  <2>2. Listed({})
    <3>1. PICK P : Listed(P)
      BY <2>1, Options DEF ComparingInv
    <3>2. P = {}
      BY <3>1, Options DEF Listed
    <3> QED
      BY <3>1, <3>2
  <2> DEFINE K == Common(original, reconstructed)
             A == DOMAIN OrigStreams \ DOMAIN ReconStreams
             B == DOMAIN ReconStreams \ DOMAIN OrigStreams
             m == SumFunctionOnSet(Matches(original, reconstructed), K)
             s == SumFunctionOnSet(Surpluses(original, reconstructed), K)
  <2>3. /\ report.matching = m /\ report.mismatched = s
        /\ report.missing = A /\ report.extra = B
    <3>1. K \ {} = K
      OBVIOUS
    <3> QED
      BY <2>2, <3>1 DEF Listed
  <2>4. IsTraceValue(original) /\ IsTraceValue(reconstructed)
    BY <2>1 DEF ComparingInv
  <2>5. /\ K \cap A = {} /\ K \cup A = DOMAIN CollectStreams(original)
        /\ K \cap B = {} /\ K \cup B = DOMAIN CollectStreams(reconstructed)
        /\ K \in SUBSET K
    BY DEF Common, OrigStreams, ReconStreams
  <2> HIDE DEF K, A, B
  <2>6. /\ m \in Nat /\ s \in Nat
        /\ 2 * m + s = InStreams(OrigStreams, K) + InStreams(ReconStreams, K)
    BY <2>4, <2>5, EventsOfCompared DEF K, OrigStreams, ReconStreams
  <2>7. /\ InStreams(OrigStreams, K) + InStreams(OrigStreams, A) = EventCount(original)
        /\ InStreams(OrigStreams, K) \in Nat /\ InStreams(OrigStreams, A) \in Nat
    <3>1. K \cup A \in SUBSET DOMAIN CollectStreams(original)
      BY <2>5
    <3> QED
      BY <2>4, <2>5, <3>1, StreamsInParts, ZenonT(40) DEF OrigStreams
  <2>8. /\ InStreams(ReconStreams, K) + InStreams(ReconStreams, B) = EventCount(reconstructed)
        /\ InStreams(ReconStreams, K) \in Nat /\ InStreams(ReconStreams, B) \in Nat
    <3>1. K \cup B \in SUBSET DOMAIN CollectStreams(reconstructed)
      BY <2>5
    <3> QED
      BY <2>4, <2>5, <3>1, StreamsInParts DEF ReconStreams
  <2> HIDE DEF m, s
  <2> QED
    BY <2>3, <2>6, <2>7, <2>8
<1> QED
  BY <1>1, VerifyInvariant, PTL

-----------------------------------------------------------------------------
(* The verdict.  The tool compares fingerprints; that they tell the events  *)
(* of the two traces apart is a hypothesis here.  The end of the module     *)
(* derives it from what the texts of the events are.                        *)

\* What the code makes out of an event: it drops an empty category and empty arguments.
Observed(e) == [e EXCEPT !.args = OrNone(@), !.cat = OrNone(@)]
ObservedContent ==
  SameMultisets(Observed) /\ original.metadata = reconstructed.metadata

Faithful ==
  \A e, f \in StreamEvents(original) \cup StreamEvents(reconstructed) :
    Fingerprint(e) = Fingerprint(f) <=> Observed(e) = Observed(f)

\* The events of a stream that read like e.
Alike(p, e) == Cardinality({i \in DOMAIN p : Observed(p[i]) = Observed(e)})

\* Counting events by what is observed of them is counting fingerprints.
LEMMA AlikeIsCount ==
  ASSUME Faithful,
         NEW p \in Seq(StreamEvents(original) \cup StreamEvents(reconstructed)),
         NEW e \in StreamEvents(original) \cup StreamEvents(reconstructed)
  PROVE  Alike(p, e) = Count(p, Fingerprint(e))
<1> DEFINE E == StreamEvents(original) \cup StreamEvents(reconstructed)
<1>1. \A i \in DOMAIN p : p[i] \in E
  <2> HIDE DEF E
  <2> QED
    BY DEF E
<1>2. {i \in DOMAIN p : Observed(p[i]) = Observed(e)}
        = {i \in DOMAIN p : Fingerprint(p[i]) = Fingerprint(e)}
  BY <1>1 DEF Faithful
<1> QED
  BY <1>2 DEF Alike, Count

\* A stream of both traces compares without a mismatch just when it holds the same
\* events as often.
LEMMA StreamAgrees ==
  ASSUME ComparingInv, Faithful, NEW key \in Common(original, reconstructed)
  PROVE  Surpluses(original, reconstructed)[key] = 0 <=>
           /\ Len(OrigStreams[key]) = Len(ReconStreams[key])
           /\ \A e \in ToSet(OrigStreams[key]) :
                Alike(OrigStreams[key], e) = Alike(ReconStreams[key], e)
<1> DEFINE p == OrigStreams[key]
           q == ReconStreams[key]
           E == StreamEvents(original) \cup StreamEvents(reconstructed)
<1>1. /\ p \in Seq(E) /\ q \in Seq(E)
      /\ Surpluses(original, reconstructed)[key] = SurplusOf(p, q)
  BY CommonFacts DEF ComparingInv, OrigStreams, ReconStreams
<1>2. ToSet(p) \subseteq E /\ Fingerprints(p) = {Fingerprint(e) : e \in ToSet(p)}
  <2> HIDE DEF p, E
  <2>1. \A i \in DOMAIN p : p[i] \in E
    BY <1>1
  <2> QED
    BY <2>1 DEF ToSet, Fingerprints
<1>3. \A e \in E : Alike(p, e) = Count(p, Fingerprint(e)) /\ Alike(q, e) = Count(q, Fingerprint(e))
  <2> SUFFICES ASSUME NEW e \in E
               PROVE  Alike(p, e) = Count(p, Fingerprint(e)) /\ Alike(q, e) = Count(q, Fingerprint(e))
    OBVIOUS
  <2> HIDE DEF p, q
  <2> QED
    BY <1>1, AlikeIsCount
<1>4. SurplusOf(p, q) = 0 <=>
        Len(p) = Len(q) /\ \A fp \in Fingerprints(p) : Count(p, fp) = Count(q, fp)
  <2> HIDE DEF p, q, E
  <2> QED
    BY <1>1, SameFingerprints
<1> HIDE DEF p, q, E
<1>5. (\A fp \in Fingerprints(p) : Count(p, fp) = Count(q, fp))
        <=> \A e \in ToSet(p) : Alike(p, e) = Alike(q, e)
  BY <1>2, <1>3
<1> QED
  BY <1>1, <1>4, <1>5 DEF p, q

\* No rank's metadata differ just when the two maps are the same.
LEMMA MetadataAgree ==
  ASSUME NEW o, NEW r, IsTraceValue(o), IsTraceValue(r)
  PROVE  DifferingMetadata(o, r) = {} <=> o.metadata = r.metadata
<1> DEFINE a == o.metadata
           b == r.metadata
<1>1. a = [rank \in DOMAIN a |-> a[rank]] /\ b = [rank \in DOMAIN b |-> b[rank]]
  BY DEF IsTraceValue
<1>2. ASSUME a = b PROVE DifferingMetadata(o, r) = {}
  BY <1>2 DEF DifferingMetadata
<1>3. ASSUME DifferingMetadata(o, r) = {} PROVE a = b
  <2>1. \A rank \in DOMAIN a \cup DOMAIN b : Get(a, rank) = Get(b, rank)
    BY <1>3 DEF DifferingMetadata
  <2> HIDE DEF a, b
  <2>2. \A rank \in DOMAIN a \cup DOMAIN b :
          (rank \in DOMAIN a <=> rank \in DOMAIN b) /\ (rank \in DOMAIN a => a[rank] = b[rank])
    <3> SUFFICES ASSUME NEW rank \in DOMAIN a \cup DOMAIN b
                 PROVE  /\ rank \in DOMAIN a <=> rank \in DOMAIN b
                        /\ rank \in DOMAIN a => a[rank] = b[rank]
      OBVIOUS
    <3>1. Get(a, rank) = Get(b, rank)
      BY <2>1
    <3>2. /\ rank \in DOMAIN a => Get(a, rank) = Some(a[rank])
          /\ rank \notin DOMAIN a => Get(a, rank) = None
          /\ rank \in DOMAIN b => Get(b, rank) = Some(b[rank])
          /\ rank \notin DOMAIN b => Get(b, rank) = None
      BY DEF Get
    <3>3. Some(a[rank]) # None /\ Some(b[rank]) # None
          /\ Some(a[rank])[1] = a[rank] /\ Some(b[rank])[1] = b[rank]
      BY Options
    <3> QED
      BY <3>1, <3>2, <3>3
  <2>3. DOMAIN a = DOMAIN b
    BY <2>2
  <2>4. \A rank \in DOMAIN a : a[rank] = b[rank]
    BY <2>2
  <2> QED
    BY <1>1, <2>3, <2>4
<1> QED
  BY <1>2, <1>3

\* What a verdict says: the same streams, none with a surplus, the same metadata.
LEMMA VerdictInParts ==
  ASSUME ComparingInv, verdict # None
  PROVE  verdict[1] <=>
           /\ DOMAIN OrigStreams = DOMAIN ReconStreams
           /\ \A key \in Common(original, reconstructed) : Surpluses(original, reconstructed)[key] = 0
           /\ original.metadata = reconstructed.metadata
           /\ EventCount(original) = EventCount(reconstructed)
<1>1. Listed({})
  <2>1. PICK P : Listed(P)
    BY DEF ComparingInv
  <2>2. P = {}
    BY <2>1 DEF Listed
  <2> QED
    BY <2>1, <2>2
<1> DEFINE C == Common(original, reconstructed)
           A == DOMAIN OrigStreams
           B == DOMAIN ReconStreams
           s == Surpluses(original, reconstructed)
<1>2. /\ report.mismatched = SumFunctionOnSet(s, C)
      /\ report.missing = A \ B /\ report.extra = B \ A
      /\ report.metadata = DifferingMetadata(original, reconstructed)
      /\ verdict = Some(IsOk(report))
  <2>1. C \ {} = C
    OBVIOUS
  <2>2. verdict = Some(IsOk(report))
        /\ report.metadata = DifferingMetadata(original, reconstructed)
    BY <1>1 DEF Listed
  <2> QED
    BY <1>1, <2>1, <2>2 DEF Listed
<1>3. IsTraceValue(original) /\ IsTraceValue(reconstructed)
  BY DEF ComparingInv
<1>4. verdict[1] <=>
        /\ SumFunctionOnSet(s, C) = 0 /\ A \ B = {} /\ B \ A = {}
        /\ DifferingMetadata(original, reconstructed) = {}
        /\ EventCount(original) = EventCount(reconstructed)
  <2>1. verdict[1] = IsOk(report)
    BY <1>2, Options
  <2> HIDE DEF A, B, C, s
  <2> QED
    BY <1>2, <2>1 DEF IsOk
<1>5. IsFiniteSet(C) /\ \A key \in C : s[key] \in Nat
  BY <1>3, CommonFacts
<1>6. DifferingMetadata(original, reconstructed) = {} <=> original.metadata = reconstructed.metadata
  BY <1>3, MetadataAgree
<1>7. A = B <=> A \ B = {} /\ B \ A = {}
  OBVIOUS
<1> HIDE DEF A, B, C, s
<1>8. SumFunctionOnSet(s, C) = 0 <=> \A key \in C : s[key] = 0
  BY <1>5, SumIsZero
<1> QED
  BY <1>4, <1>6, <1>7, <1>8 DEF A, B, C, s

\* The traces agree on the stream of this key.
Agree(key) ==
  /\ Len(OrigStreams[key]) = Len(ReconStreams[key])
  /\ \A e \in ToSet(OrigStreams[key]) : Alike(OrigStreams[key], e) = Alike(ReconStreams[key], e)

\* The same observed content in parts; streams that agree hold as many events.
LEMMA ContentInParts ==
  ASSUME ComparingInv
  PROVE  /\ ObservedContent <=>
              /\ DOMAIN OrigStreams = DOMAIN ReconStreams
              /\ \A key \in Common(original, reconstructed) : Agree(key)
              /\ original.metadata = reconstructed.metadata
         /\ ObservedContent => EventCount(original) = EventCount(reconstructed)
<1> DEFINE C == Common(original, reconstructed)
           A == DOMAIN OrigStreams
           B == DOMAIN ReconStreams
<1>1. IsTraceValue(original) /\ IsTraceValue(reconstructed)
  BY DEF ComparingInv
<1>2. A = B => C = A
  BY DEF Common, OrigStreams, ReconStreams
<1>3. ObservedContent <=>
        A = B /\ (\A key \in A : Agree(key)) /\ original.metadata = reconstructed.metadata
  BY DEF ObservedContent, SameMultisets, Alike, Agree
<1>4. ASSUME A = B, \A key \in A : Agree(key)
      PROVE  EventCount(original) = EventCount(reconstructed)
  <2> DEFINE f == [key \in A |-> Len(OrigStreams[key])]
             g == [key \in B |-> Len(ReconStreams[key])]
  <2>1. /\ EventCount(original) = SumFunction(f)
        /\ EventCount(reconstructed) = SumFunction(g)
    BY <1>1, Collected DEF OrigStreams, ReconStreams
  <2>2. f = g
    BY <1>4 DEF Agree
  <2> QED
    BY <2>1, <2>2
<1> HIDE DEF A, B, C
<1> QED
  BY <1>2, <1>3, <1>4 DEF A, B, C

\* Where fingerprints tell apart what is observed of events, the verdict is yes exactly
\* when the same is observed of both traces, whatever these are and in whatever order the
\* streams are walked.
THEOREM VerdictIsExact ==
  VerifySpec => [](verdict # None /\ Faithful => (verdict[1] <=> ObservedContent))
<1>1. ASSUME VerifyInv, verdict # None, Faithful PROVE verdict[1] <=> ObservedContent
  <2>1. ComparingInv
    BY <1>1 DEF VerifyInv, NotComparing
  <2>2. \A key \in Common(original, reconstructed) :
          Surpluses(original, reconstructed)[key] = 0 <=> Agree(key)
    BY <1>1, <2>1, StreamAgrees DEF Agree
  <2> QED
    BY <1>1, <2>1, <2>2, VerdictInParts, ContentInParts
<1>2. VerifyInv => (verdict # None /\ Faithful => (verdict[1] <=> ObservedContent))
  BY <1>1
<1> QED
  BY <1>2, VerifyInvariant, PTL

\* What is documented to count is never split by fingerprints.
Coarse(E) ==
  \A e, f \in E : Documented(e) = Documented(f) => Fingerprint(e) = Fingerprint(f)

\* The events of a stream that are documented to be alike.
Doubles(p, e) == Cardinality({i \in DOMAIN p : Documented(p[i]) = Documented(e)})

\* The same content in parts, and as many events.
LEMMA DocumentedInParts ==
  ASSUME ComparingInv, SameContent
  PROVE  /\ DOMAIN OrigStreams = DOMAIN ReconStreams
         /\ original.metadata = reconstructed.metadata
         /\ \A key \in Common(original, reconstructed) :
              /\ Len(OrigStreams[key]) = Len(ReconStreams[key])
              /\ \A e \in ToSet(OrigStreams[key]) :
                   Doubles(OrigStreams[key], e) = Doubles(ReconStreams[key], e)
         /\ EventCount(original) = EventCount(reconstructed)
<1> DEFINE A == DOMAIN OrigStreams
           B == DOMAIN ReconStreams
<1>1. IsTraceValue(original) /\ IsTraceValue(reconstructed)
  BY DEF ComparingInv
<1>2. /\ A = B /\ original.metadata = reconstructed.metadata
      /\ \A key \in A : /\ Len(OrigStreams[key]) = Len(ReconStreams[key])
                        /\ \A e \in ToSet(OrigStreams[key]) :
                             Doubles(OrigStreams[key], e) = Doubles(ReconStreams[key], e)
  BY DEF SameContent, SameMultisets, Doubles
<1>3. Common(original, reconstructed) \subseteq A
  BY DEF Common, OrigStreams, ReconStreams
<1>4. EventCount(original) = EventCount(reconstructed)
  <2> DEFINE f == [key \in A |-> Len(OrigStreams[key])]
             g == [key \in B |-> Len(ReconStreams[key])]
  <2>1. /\ EventCount(original) = SumFunction(f)
        /\ EventCount(reconstructed) = SumFunction(g)
    BY <1>1, Collected DEF OrigStreams, ReconStreams
  <2>2. f = g
    BY <1>2
  <2> QED
    BY <2>1, <2>2
<1> QED
  BY <1>2, <1>3, <1>4

\* If a stream holds each event of another as often as that one, it holds each of its
\* fingerprints at least as often.
LEMMA CoarseCounts ==
  ASSUME NEW E, Coarse(E), NEW p \in Seq(E), NEW q \in Seq(E),
         \A e \in ToSet(p) : Doubles(p, e) = Doubles(q, e), NEW fp
  PROVE  Count(p, fp) <= Count(q, fp)
<1> DEFINE T == {i \in DOMAIN p : Fingerprint(p[i]) = fp}
           U == {i \in DOMAIN q : Fingerprint(q[i]) = fp}
           O == {Documented(p[i]) : i \in T}
           W == {i \in DOMAIN q : Documented(q[i]) \in O}
           g == [i \in T |-> Documented(p[i])]
           k == [i \in W |-> Documented(q[i])]
           a == [o \in O |-> Cardinality(Fibre(T, g, o))]
           b == [o \in O |-> Cardinality(Fibre(W, k, o))]
<1>1. /\ DOMAIN p = 1..Len(p) /\ Len(p) \in Nat /\ DOMAIN q = 1..Len(q) /\ Len(q) \in Nat
      /\ \A i \in DOMAIN p : p[i] \in E
      /\ \A i \in DOMAIN q : q[i] \in E
  OBVIOUS
<1>2. IsFiniteSet(DOMAIN p) /\ IsFiniteSet(DOMAIN q)
  BY <1>1, FS_Interval
<1>3. W \subseteq U
  <2> SUFFICES ASSUME NEW i \in W PROVE i \in U
    OBVIOUS
  <2>1. PICK j \in T : Documented(q[i]) = Documented(p[j])
    OBVIOUS
  <2>2. Fingerprint(q[i]) = Fingerprint(p[j])
    BY <1>1, <2>1 DEF Coarse
  <2> QED
    BY <2>2
<1>4. IsFiniteSet(T) /\ IsFiniteSet(U) /\ IsFiniteSet(W) /\ Cardinality(W) <= Cardinality(U)
  <2>1. T \in SUBSET DOMAIN p /\ U \in SUBSET DOMAIN q
    OBVIOUS
  <2> HIDE DEF T, U, W
  <2>2. IsFiniteSet(T) /\ IsFiniteSet(U)
    BY <1>2, <2>1, FS_Subset
  <2> QED
    BY <1>3, <2>2, FS_Subset
<1>5. g \in Surjection(T, O)
  BY DEF Surjection
<1>6. IsFiniteSet(O)
  <2> HIDE DEF g, T, O
  <2> QED
    BY <1>4, <1>5, FS_Surjection
<1>7. \A o \in O : Fibre(T, g, o) = {i \in DOMAIN p : Documented(p[i]) = o}
                   /\ Fibre(W, k, o) = {i \in DOMAIN q : Documented(q[i]) = o}
  <2> SUFFICES ASSUME NEW o \in O
               PROVE  Fibre(T, g, o) = {i \in DOMAIN p : Documented(p[i]) = o}
                      /\ Fibre(W, k, o) = {i \in DOMAIN q : Documented(q[i]) = o}
    OBVIOUS
  <2>1. PICK j \in T : o = Documented(p[j])
    OBVIOUS
  <2>2. \A i \in DOMAIN p : Documented(p[i]) = o => Fingerprint(p[i]) = fp
    BY <1>1, <2>1 DEF Coarse
  <2> QED
    BY <2>2 DEF Fibre
<1>8. \A o \in O : a[o] = b[o]
  <2> SUFFICES ASSUME NEW o \in O PROVE a[o] = b[o]
    OBVIOUS
  <2>1. PICK j \in T : o = Documented(p[j])
    OBVIOUS
  <2>2. a[o] = Doubles(p, p[j]) /\ b[o] = Doubles(q, p[j])
    BY <1>7, <2>1 DEF Doubles
  <2>3. p[j] \in ToSet(p)
    BY DEF ToSet
  <2> QED
    BY <2>2, <2>3
<1>9. \A o \in O : a[o] = Cardinality(Fibre(T, g, o)) /\ b[o] = Cardinality(Fibre(W, k, o))
  OBVIOUS
<1>10. (\A i \in T : g[i] \in O) /\ \A i \in W : k[i] \in O
  OBVIOUS
<1>11. Count(p, fp) = Cardinality(T) /\ Count(q, fp) = Cardinality(U)
  BY DEF Count
<1> HIDE DEF T, U, O, W, g, k, a, b
<1>12. SumFunctionOnSet(a, O) = Cardinality(T) /\ SumFunctionOnSet(b, O) = Cardinality(W)
  BY <1>4, <1>6, <1>9, <1>10, CountOfClasses
<1>13. SumFunctionOnSet(a, O) = SumFunctionOnSet(b, O)
  <2>1. \A o \in O : a[o] \in Nat
    <3> SUFFICES ASSUME NEW o \in O PROVE a[o] \in Nat
      OBVIOUS
    <3>1. Fibre(T, g, o) \in SUBSET T
      BY DEF Fibre
    <3> QED
      BY <1>4, <1>9, <3>1, FS_Subset, FS_CardinalityType
  <2> QED
    BY <1>6, <1>8, <2>1, SumOfEqual
<1> QED
  BY <1>4, <1>11, <1>12, <1>13

\* Then streams of one length that hold the same events as often leave no surplus.
LEMMA CoarseAgrees ==
  ASSUME NEW E, Coarse(E), NEW p \in Seq(E), NEW q \in Seq(E), Len(p) = Len(q),
         \A e \in ToSet(p) : Doubles(p, e) = Doubles(q, e)
  PROVE  SurplusOf(p, q) = 0
<1> DEFINE F == AllFingerprints(p, q)
           a == [fp \in F |-> Count(p, fp)]
           b == [fp \in F |-> Count(q, fp)]
           d == [fp \in F |-> b[fp] - a[fp]]
<1>1. IsFiniteSet(F) /\ Fingerprints(p) \subseteq F /\ Fingerprints(q) \subseteq F
  BY FingerprintsFinite, FS_Union DEF AllFingerprints
<1>2. /\ SumFunctionOnSet(a, F) = Len(p) /\ SumFunctionOnSet(b, F) = Len(q)
      /\ \A fp : Count(p, fp) \in Nat /\ Count(q, fp) \in Nat
  <2> HIDE DEF F
  <2> QED
    BY <1>1, FingerprintsCount
<1>3. \A fp \in F : a[fp] \in Nat /\ d[fp] \in Nat /\ b[fp] = a[fp] + d[fp]
  <2> SUFFICES ASSUME NEW fp \in F PROVE a[fp] \in Nat /\ d[fp] \in Nat /\ b[fp] = a[fp] + d[fp]
    OBVIOUS
  <2>1. Count(p, fp) <= Count(q, fp)
    BY CoarseCounts
  <2>2. Count(p, fp) \in Nat /\ Count(q, fp) \in Nat
    BY <1>2
  <2> HIDE DEF F
  <2> QED
    BY <2>1, <2>2
<1>4. Len(p) \in Nat
  OBVIOUS
<1>5. (\A fp \in F : d[fp] = 0) => \A fp \in F : Count(p, fp) = Count(q, fp)
  BY <1>2
<1> HIDE DEF F, a, b, d
<1>6. SumFunctionOnSet(b, F) = SumFunctionOnSet(a, F) + SumFunctionOnSet(d, F)
  BY <1>1, <1>3, SumOfSums
<1>7. SumFunctionOnSet(d, F) \in Nat
  <2>1. F \in SUBSET F
    OBVIOUS
  <2> QED
    BY <1>1, <1>3, <2>1, SumLaws
<1>8. SumFunctionOnSet(d, F) = 0
  BY <1>2, <1>4, <1>6, <1>7
<1>9. \A fp \in F : d[fp] = 0
  BY <1>1, <1>3, <1>8, SumIsZero
<1> QED
  BY <1>5, <1>9, StreamsCompared DEF F

\* Two traces with the same content pass.
LEMMA SameContentPasses ==
  ASSUME ComparingInv, verdict # None, SameContent,
         Coarse(StreamEvents(original) \cup StreamEvents(reconstructed))
  PROVE  verdict[1]
<1> DEFINE C == Common(original, reconstructed)
           E == StreamEvents(original) \cup StreamEvents(reconstructed)
<1>1. IsTraceValue(original) /\ IsTraceValue(reconstructed)
  BY DEF ComparingInv
<1>2. ASSUME NEW key \in C PROVE Surpluses(original, reconstructed)[key] = 0
  <2> DEFINE p == OrigStreams[key]
             q == ReconStreams[key]
  <2>1. /\ p \in Seq(E) /\ q \in Seq(E)
        /\ Surpluses(original, reconstructed)[key] = SurplusOf(p, q)
    BY <1>1, CommonFacts DEF OrigStreams, ReconStreams
  <2>2. Len(p) = Len(q) /\ \A e \in ToSet(p) : Doubles(p, e) = Doubles(q, e)
    BY DocumentedInParts
  <2> HIDE DEF p, q, E
  <2>3. Coarse(E)
    BY DEF E
  <2> QED
    BY <2>1, <2>2, <2>3, CoarseAgrees
<1> QED
  BY <1>2, VerdictInParts, DocumentedInParts

-----------------------------------------------------------------------------
(* The command line.  What the readers hand over: streams of events whose   *)
(* numbers fit, none of them a metadata record, and metadata records.       *)

IsOption(opt) == opt = None \/ \E x : opt = Some(x)

\* An event as the readers build it: its lane is one Lane gives.
SoundEvent(e) ==
  /\ e = [name |-> e.name, ts |-> e.ts, dur |-> e.dur, cat |-> e.cat, ph |-> e.ph,
          pid |-> e.pid, tid |-> e.tid, args |-> e.args]
  /\ e.ts \in Int64 /\ e.pid \in Int64 /\ e.dur \in Opt64 /\ e.ph # "M"
  /\ IsOption(e.cat) /\ IsOption(e.args) /\ \E raw : e.tid = Lane(raw, e.args, e.cat)

SoundRecord(m) ==
  /\ m = [name |-> m.name, pid |-> m.pid, tid |-> m.tid, args |-> m.args]
  /\ m.pid \in Int64
  /\ m.args = None \/ \E v : m.args = Some(v) /\ IsNumeric(v)

\* No stream is empty, and the events of a stream have its coordinates.
WellKeyed(streams) ==
  \A k \in DOMAIN streams :
    streams[k] # <<>> /\ \A i \in DOMAIN streams[k] : KeyOf(streams[k][i]) = k

SoundStreams(streams) ==
  /\ WellKeyed(streams)
  /\ streams = [k \in DOMAIN streams |-> streams[k]] /\ IsFiniteSet(DOMAIN streams)
  /\ \A k \in DOMAIN streams : /\ streams[k] \in Seq(ToSet(streams[k]))
                               /\ \A i \in DOMAIN streams[k] : SoundEvent(streams[k][i])

SoundRecords(metadata) ==
  metadata \in Seq(ToSet(metadata)) /\ \A i \in DOMAIN metadata : SoundRecord(metadata[i])

\* The timestamps of the streams are those of the input less the origin, which none of
\* the input's precedes.  The origin is one of them, unless there are none or all are at
\* the end of time, where the streaming reader sees none.
Based(streams, t) ==
  LET E == EventsOf(streams) IN
  /\ \A e \in E : \E a \in Int64 : t <= a /\ e.ts = Wrap64(a - t)
  /\ \/ E = {} \/ \E e \in E : e.ts = 0
     \/ t = 0 /\ \A e \in E : e.ts = MaxInt64

\* A trace as a reader returns it, of one rank, with its origin.
SoundTrace(tr, rank, streams, metadata, t) ==
  /\ tr = Trace(rank, streams, metadata, t)
  /\ SoundStreams(streams) /\ SoundRecords(metadata) /\ t \in Int64 /\ Based(streams, t)

\* The pid of an object is an i64.
LEMMA PidType ==
  ASSUME NEW reader \in AllReaders, NEW opt, opt = None \/ \E v : opt = Some(v) /\ IsNumeric(v)
  PROVE  Pid(reader, opt) \in Int64
<1>1. LossyI64(reader, opt) \in Opt64
  BY LossyType
<1>2. reader = "simd" => SimdI64(opt) \in Opt64
  BY <1>1 DEF LossyI64
<1> DEFINE s == AsStr(opt)
           parsed == IF s = None THEN None ELSE ParseI64(s[1])
<1>3. parsed \in Opt64
  BY ParsedType DEF Opt64
<1>4. 0 \in Int64
  BY MaxInt64Assumption DEF Int64
<1>5. \A a \in Opt64 : UnwrapOr(a, 0) \in Int64
  BY <1>4, Options DEF Opt64
<1>6. Pid(reader, opt) = UnwrapOr(IF reader # "simd" THEN LossyI64(reader, opt)
                                  ELSE OrElse(SimdI64(opt), parsed), 0)
  BY DEF Pid
<1>7. reader = "simd" => OrElse(SimdI64(opt), parsed) \in Opt64
  BY <1>2, <1>3 DEF OrElse
<1> HIDE DEF parsed
<1> QED
  BY <1>1, <1>5, <1>6, <1>7

\* An event built of an object that is no metadata record is sound.
LEMMA EventIsSound ==
  ASSUME NEW reader \in AllReaders, NEW obj, NumericFields(obj), ~IsMetadata(obj)
  PROVE  SoundEvent(Event(reader, obj))
<1> DEFINE e == Event(reader, obj)
<1>1. \A f : Get(obj, f) = None \/ \E v : Get(obj, f) = Some(v) /\ IsNumeric(v)
  BY DEF Get, NumericFields
<1>2. e.ts \in Int64
  BY EventType
<1>3. e.pid \in Int64
  BY <1>1, PidType DEF Event
<1>4. e.dur \in Opt64
  BY <1>1, LossyType DEF Event
<1>5. e.ph # "M"
  BY DEF Event, IsMetadata
<1>6. IsOption(e.cat) /\ IsOption(e.args)
  BY DEF Event, IsOption, AsStr, Args
<1>7. e = [name |-> e.name, ts |-> e.ts, dur |-> e.dur, cat |-> e.cat, ph |-> e.ph,
           pid |-> e.pid, tid |-> e.tid, args |-> e.args]
  BY DEF Event
<1>8. \E raw : e.tid = Lane(raw, e.args, e.cat)
  BY DEF Event
<1> HIDE DEF e
<1> QED
  BY <1>2, <1>3, <1>4, <1>5, <1>6, <1>7, <1>8 DEF SoundEvent, e

\* So is a metadata record, as a record.
LEMMA RecordIsSound ==
  ASSUME NEW reader \in AllReaders, NEW obj, NumericFields(obj)
  PROVE  SoundRecord(MetadataEvent(reader, obj))
<1> DEFINE m == MetadataEvent(reader, obj)
<1>1. \A f : Get(obj, f) = None \/ \E v : Get(obj, f) = Some(v) /\ IsNumeric(v)
  BY DEF Get, NumericFields
<1>2. m.pid \in Int64
  BY <1>1, PidType DEF MetadataEvent
<1>3. m.args = None \/ \E v : m.args = Some(v) /\ IsNumeric(v)
  BY <1>1 DEF MetadataEvent
<1>4. m = [name |-> m.name, pid |-> m.pid, tid |-> m.tid, args |-> m.args]
  BY DEF MetadataEvent
<1> HIDE DEF m
<1> QED
  BY <1>2, <1>3, <1>4 DEF SoundRecord, m

\* A shifted event is sound: the subtraction wraps.
LEMMA ShiftedIsSound ==
  ASSUME NEW e, SoundEvent(e), NEW t \in Int64
  PROVE  SoundEvent(Shifted(e, t)) /\ Shifted(e, t).ts = Wrap64(e.ts - t)
<1> DEFINE d == Shifted(e, t)
<1>1. e.ts - t \in Int
  BY DEF SoundEvent, Int64
<1>2. Wrap64(e.ts - t) \in Int64
  BY <1>1, Wrapped
<1>3. d = [e EXCEPT !.ts = Wrap64(e.ts - t)]
  BY DEF Shifted
<1>4. d = [name |-> e.name, ts |-> Wrap64(e.ts - t), dur |-> e.dur, cat |-> e.cat, ph |-> e.ph,
           pid |-> e.pid, tid |-> e.tid, args |-> e.args]
  BY <1>3 DEF SoundEvent
<1> HIDE DEF d
<1> QED
  BY <1>2, <1>4 DEF SoundEvent, d

\* The least timestamp of a staging area is an i64, and no timestamp is less.
LEMMA LeastTsType ==
  ASSUME NEW s, s \in Seq(ToSet(s)), \A i \in DOMAIN s : s[i].ts \in Int64
  PROVE  /\ LeastTs(s) \in Int64 /\ \A i \in DOMAIN s : LeastTs(s) <= s[i].ts
         /\ s = <<>> \/ \E i \in DOMAIN s : s[i].ts = LeastTs(s)
<1>1. CASE s = <<>>
  <2>1. LeastTs(s) = 0 /\ DOMAIN s = {}
    BY <1>1 DEF LeastTs
  <2> QED
    BY <1>1, <2>1, MaxInt64Assumption DEF Int64
<1>2. CASE s # <<>>
  <2> DEFINE T == {s[i].ts : i \in DOMAIN s}
             low == -MaxInt64 - 1
             S == {x - low : x \in T}
  <2>1. low \in Int /\ T \subseteq Int64 /\ \A x \in Int64 : x \in Int /\ x >= low
    BY MaxInt64Assumption DEF Int64
  <2>2. DOMAIN s # {}
    BY <1>2
  <2>3. T # {}
    BY <2>2
  <2> HIDE DEF T, low
  <2>4. S # {} /\ S \in SUBSET Nat
    <3> SUFFICES ASSUME NEW x \in T PROVE x - low \in Nat
      BY <2>3
    <3>1. x \in Int /\ x >= low
      BY <2>1
    <3> QED
      BY <2>1, <3>1
  <2>5. PICK m \in S : \A n \in S : m <= n
    BY <2>4, LeastNumber
  <2>6. PICK x \in T : m = x - low
    BY <2>5
  <2>7. \A y \in T : x <= y
    <3> SUFFICES ASSUME NEW y \in T PROVE x <= y
      OBVIOUS
    <3>1. y - low \in S
      OBVIOUS
    <3>2. x - low <= y - low /\ x \in Int /\ y \in Int
      BY <2>1, <2>5, <2>6, <3>1
    <3> QED
      BY <2>1, <3>2
  <2>8. Min(T) \in T /\ \A y \in T : Min(T) <= y
    BY <2>6, <2>7 DEF Min
  <2>9. LeastTs(s) = Min(T)
    BY <1>2 DEF LeastTs, T
  <2>10. \A i \in DOMAIN s : s[i].ts \in T
    BY DEF T
  <2>11. \A y \in T : \E i \in DOMAIN s : s[i].ts = y
    BY DEF T
  <2> QED
    BY <2>1, <2>8, <2>9, <2>10, <2>11
<1> QED
  BY <1>1, <1>2

\* The elements of an array that are no metadata records.
Records(arr) == {i \in Objects(arr) : ~IsMetadata(arr[i].obj)}
EventsRead(reader, arr) == {Event(reader, arr[i].obj) : i \in Records(arr)}
MetadataRead(reader, arr) == {MetadataEvent(reader, arr[i].obj) : i \in Objects(arr)}
NumericArray(arr) ==
  arr \in Seq(ToSet(arr)) /\ \A i \in Objects(arr) : NumericFields(arr[i].obj)

\* They are sound, and finitely many.
LEMMA ReadIsSound ==
  ASSUME NEW reader \in AllReaders, NEW arr, NumericArray(arr)
  PROVE  /\ \A e \in EventsRead(reader, arr) : SoundEvent(e)
         /\ \A m \in MetadataRead(reader, arr) : SoundRecord(m)
         /\ IsFiniteSet(EventsRead(reader, arr))
<1>1. \A i \in Records(arr) : NumericFields(arr[i].obj) /\ ~IsMetadata(arr[i].obj)
  BY DEF Records, NumericArray
<1>2. \A e \in EventsRead(reader, arr) : SoundEvent(e)
  BY <1>1, EventIsSound DEF EventsRead
<1>3. \A m \in MetadataRead(reader, arr) : SoundRecord(m)
  BY RecordIsSound DEF MetadataRead, NumericArray
<1>4. IsFiniteSet(EventsRead(reader, arr))
  <2> DEFINE D == Records(arr)
             X == EventsRead(reader, arr)
             g == [i \in D |-> Event(reader, arr[i].obj)]
  <2>1. DOMAIN arr = 1..Len(arr) /\ Len(arr) \in Nat
    BY DEF NumericArray
  <2>2. IsFiniteSet(1..Len(arr)) /\ D \in SUBSET (1..Len(arr))
    BY <2>1, FS_Interval DEF Records, Objects
  <2>3. IsFiniteSet(D)
    BY <2>2, FS_Subset
  <2>4. g \in Surjection(D, X)
    BY DEF Surjection, EventsRead
  <2> HIDE DEF D, X, g
  <2>5. IsFiniteSet(X)
    BY <2>3, <2>4, FS_Surjection
  <2> QED
    BY <2>5 DEF X
<1> QED
  BY <1>2, <1>3, <1>4

\* The full-tree readers stage them.
LEMMA StagedIsRead ==
  ASSUME NEW reader \in AllReaders, NEW arr, NumericArray(arr)
  PROVE  /\ Staged(reader, arr).staging \in Seq(EventsRead(reader, arr))
         /\ Staged(reader, arr).metadata \in Seq(MetadataRead(reader, arr))
<1> DEFINE E == EventsRead(reader, arr)
           M == MetadataRead(reader, arr)
           W == [staging : Seq(E), metadata : Seq(M)]
           n == Len(arr)
<1>1. n \in Nat /\ DOMAIN arr = 1..n
  BY DEF NumericArray
<1>2. PICK h : StageHistory(h, reader, arr) /\ Staged(reader, arr) = h[n]
  BY StagedHistory DEF NumericArray
<1> DEFINE S == {k \in 0..n : h[k] \in W}
<1>3. 0 \in S
  <2>1. StageStart \in W
    BY DEF StageStart
  <2> HIDE DEF W
  <2> QED
    BY <1>1, <1>2, <2>1 DEF StageHistory
<1>4. ASSUME NEW k \in 0..n, k \in S, k < n PROVE k + 1 \in S
  <2>1. k + 1 \in 1..n /\ k + 1 \in 0..n /\ (k + 1) - 1 = k /\ k + 1 \in DOMAIN arr
    BY <1>1, <1>4
  <2> DEFINE v == arr[k + 1]
             st == h[k]
  <2>2. h[k + 1] = Stage(reader, st, v)
    BY <1>2, <2>1 DEF StageHistory
  <2>3. st \in W
    BY <1>4
  <2>4. IsObject(v) => MetadataEvent(reader, v.obj) \in M
    BY <2>1 DEF MetadataRead, Objects
  <2>5. IsObject(v) /\ ~IsMetadata(v.obj) => Event(reader, v.obj) \in E
    BY <2>1 DEF EventsRead, Records, Objects
  <2> HIDE DEF v, st, E, M
  <2>6. Stage(reader, st, v) \in W
    <3>1. \A e \in E : [st EXCEPT !.staging = Append(@, e)] \in W
      BY <2>3, SMTT(30)
    <3>2. \A m \in M : [st EXCEPT !.metadata = Append(@, m)] \in W
      BY <2>3, SMTT(30)
    <3> QED
      BY <2>3, <2>4, <2>5, <3>1, <3>2 DEF Stage
  <2> HIDE DEF W
  <2> QED
    BY <2>1, <2>2, <2>6
<1>5. n \in 0..n
  BY <1>1
<1> HIDE DEF S
<1>6. 0..n \subseteq S
  BY <1>1, <1>3, <1>4, BoundedInduction
<1>7. Staged(reader, arr) \in W
  <2> HIDE DEF W
  <2> QED
    BY <1>2, <1>5, <1>6 DEF S
<1> HIDE DEF E, M
<1>8. Staged(reader, arr).staging \in Seq(E) /\ Staged(reader, arr).metadata \in Seq(M)
  BY <1>7
<1> QED
  BY <1>8 DEF E, M

\* Every element of the array is an object.
AllObjects(arr) == \A i \in DOMAIN arr : IsObject(arr[i])

\* The states the streaming reader passes through on an array, the rank being known.
StreamStates(rank, arr) ==
  LET E == EventsRead("stream", arr)
  IN  [rank : {rank}, streams : StreamSet(Keys(E), E), metadata : Seq(MetadataRead("stream", arr)),
       minTs : Int64]

\* Absorbing an element keeps to them.
LEMMA AbsorbType ==
  ASSUME NEW arr, NumericArray(arr), NEW i \in DOMAIN arr, IsObject(arr[i]), NEW rank,
         NEW st \in StreamStates(rank, arr)
  PROVE  Absorb(st, arr[i].obj) \in StreamStates(rank, arr)
<1> DEFINE E == EventsRead("stream", arr)
           M == MetadataRead("stream", arr)
           K == Keys(E)
           V == [rank : {rank}, streams : StreamSet(K, E), metadata : Seq(M), minTs : Int64]
           obj == arr[i].obj
           m == MetadataEvent("stream", obj)
           e == Event("stream", obj)
<1>1. st \in V
  BY DEF StreamStates
<1>2. m \in M
  BY DEF MetadataRead, Objects
<1>3. ~IsMetadata(obj) => e \in E
  BY DEF EventsRead, Records, Objects
<1>4. ~IsMetadata(obj) => KeyOf(e) \in K
  <2> HIDE DEF E, e
  <2> QED
    BY <1>3 DEF Keys
<1>5. ~IsMetadata(obj) => e.ts \in Int64
  BY <1>3, ReadIsSound DEF SoundEvent, AllReaders
<1> HIDE DEF E, M, K, m, e
<1>6. CASE IsMetadata(obj)
  <2>1. Absorb(st, obj) = [st EXCEPT !.metadata = Append(@, m)]
    BY <1>6 DEF Absorb, m
  <2>2. Append(st.metadata, m) \in Seq(M)
    BY <1>1, <1>2
  <2>3. Absorb(st, obj) \in V
    BY <1>1, <2>1, <2>2
  <2> QED
    BY <2>3 DEF StreamStates, E, M, K
<1>7. CASE ~IsMetadata(obj)
  <2>1. Absorb(st, obj) = [st EXCEPT !.streams = Push(@, e), !.minTs = Min({@, e.ts})]
    BY <1>7 DEF Absorb, e
  <2>2. st.streams \in StreamSet(K, E) /\ st.minTs \in Int64
    BY <1>1
  <2>3. Push(st.streams, e) \in StreamSet(K, E)
    BY <1>3, <1>4, <1>7, <2>2, PushType
  <2>4. Min({st.minTs, e.ts}) \in Int64
    <3>1. st.minTs \in Int /\ e.ts \in Int
      BY <1>5, <1>7, <2>2, MaxInt64Assumption DEF Int64
    <3>2. Min({st.minTs, e.ts}) = IF st.minTs <= e.ts THEN st.minTs ELSE e.ts
      BY <3>1, MinOfTwo
    <3> QED
      BY <1>5, <1>7, <2>2, <3>2
  <2>5. Absorb(st, obj) \in V
    BY <1>1, <2>1, <2>3, <2>4
  <2> QED
    BY <2>5 DEF StreamStates, E, M, K
<1> QED
  BY <1>6, <1>7

\* h is the history of the loop of the streaming reader.
StreamHistory(h, ranked, arr) ==
  /\ h \in [0..Len(arr) -> StreamStates(ranked.rank, arr)]
  /\ h[0] = ranked
  /\ \A k \in 1..Len(arr) : h[k] = Absorb(h[k - 1], arr[k].obj)

StreamFold(ranked, arr) ==
  LET AbsorbValue(st, v) == Absorb(st, v.obj) IN FoldLeft(AbsorbValue, ranked, arr)

\* The loop has a history.
LEMMA StreamFoldHistory ==
  ASSUME NEW arr, NumericArray(arr), AllObjects(arr), NEW ranked,
         ranked \in StreamStates(ranked.rank, arr)
  PROVE  \E h : StreamHistory(h, ranked, arr) /\ StreamFold(ranked, arr) = h[Len(arr)]
<1> DEFINE n == Len(arr)
           V == StreamStates(ranked.rank, arr)
           step == [p \in (1..n) \X V |-> Absorb(p[2], arr[p[1]].obj)]
           Eqn(g) == g = [T \in SUBSET DOMAIN arr |->
                            IF T = {} THEN ranked
                            ELSE Absorb(g[T \ {Max(T)}], arr[Max(T)].obj)]
           iter == CHOOSE g : Eqn(g)
           h == [k \in 0..n |-> iter[1..k]]
<1>1. n \in Nat /\ DOMAIN arr = 1..n
  BY DEF NumericArray
<1>2. ranked \in V
  OBVIOUS
<1>3. \A k \in 1..n, x \in V : Absorb(x, arr[k].obj) \in V
  <2> SUFFICES ASSUME NEW k \in 1..n, NEW x \in V PROVE Absorb(x, arr[k].obj) \in V
    OBVIOUS
  <2>1. k \in DOMAIN arr /\ IsObject(arr[k])
    BY <1>1 DEF AllObjects
  <2> QED
    BY <2>1, AbsorbType
<1>4. step \in [(1..n) \X V -> V]
  <2> HIDE DEF V
  <2> QED
    BY <1>3
<1>5. StreamFold(ranked, arr) = iter[DOMAIN arr]
  BY DEF StreamFold, FoldLeft, MapThenFoldSet
<1>6. \A T \in SUBSET (1..n) : T # {} => Max(T) \in 1..n /\ T \ {Max(T)} \in SUBSET (1..n)
  BY <1>1, GreatestExists
<1>7. PICK g \in [SUBSET (1..n) -> V] : IsFold(g, n, ranked, step)
  <2> HIDE DEF n, V, step, iter
  <2> QED
    BY <1>1, <1>2, <1>4, FoldExists
<1>8. Eqn(g)
  <2> HIDE DEF V
  <2>1. \A T \in SUBSET (1..n) :
          g[T] = IF T = {} THEN ranked ELSE Absorb(g[T \ {Max(T)}], arr[Max(T)].obj)
    BY <1>6, <1>7 DEF IsFold
  <2>2. g = [T \in SUBSET (1..n) |-> g[T]]
    BY <1>7
  <2> QED
    BY <1>1, <2>1, <2>2
<1>9. Eqn(iter)
  BY <1>8
<1>10. h[0] = ranked /\ h[n] = iter[DOMAIN arr]
  <2>1. 1..0 = {} /\ 0 \in 0..n /\ n \in 0..n
    BY <1>1
  <2> HIDE DEF iter
  <2> QED
    BY <1>1, <1>9, <2>1
<1>11. ASSUME NEW k \in 1..n PROVE h[k] = Absorb(h[k - 1], arr[k].obj)
  <2>1. k \in 0..n /\ k - 1 \in 0..n
    BY <1>1
  <2>2. /\ 1..k \in SUBSET DOMAIN arr /\ 1..k # {}
        /\ Max(1..k) = k /\ (1..k) \ {Max(1..k)} = 1..(k - 1)
    BY <1>1, Turn
  <2>3. iter[1..k] = Absorb(iter[(1..k) \ {Max(1..k)}], arr[Max(1..k)].obj)
    <3> HIDE DEF iter
    <3> QED
      BY <1>9, <2>2
  <2> HIDE DEF iter
  <2> QED
    BY <2>1, <2>2, <2>3
<1>12. \A k \in 0..n : h[k] \in V
  <2> DEFINE S == {k \in 0..n : h[k] \in V}
  <2>1. 0 \in S
    BY <1>1, <1>2, <1>10
  <2>2. ASSUME NEW k \in 0..n, k \in S, k < n PROVE k + 1 \in S
    <3>1. k + 1 \in 1..n /\ k + 1 \in 0..n /\ (k + 1) - 1 = k /\ h[k] \in V
      BY <1>1, <2>2
    <3> HIDE DEF h, V
    <3>2. h[k + 1] \in V
      BY <1>1, <1>3, <1>11, <3>1
    <3> QED
      BY <3>1, <3>2
  <2> HIDE DEF S, h
  <2>3. 0..n \subseteq S
    BY <1>1, <2>1, <2>2, BoundedInduction
  <2> QED
    BY <2>3 DEF S
<1> QED
  <2> HIDE DEF iter
  <2>1. h \in [0..n -> V]
    BY <1>12
  <2>2. StreamHistory(h, ranked, arr)
    <3> HIDE DEF h
    <3> QED
      BY <1>10, <1>11, <2>1 DEF StreamHistory
  <2> QED
    BY <1>5, <1>10, <2>2

\* It ends with what the full-tree readers stage, the running minimum besides.
LEMMA StreamFoldAbsorbs ==
  ASSUME NEW arr, NumericArray(arr), AllObjects(arr), NEW rank
  PROVE  LET st == StreamFold([ParserStart EXCEPT !.rank = rank], arr)
         IN  Absorbed(st, arr) /\ st.rank = rank
<1> DEFINE ranked == [ParserStart EXCEPT !.rank = rank]
           n == Len(arr)
           V == StreamStates(rank, arr)
<1>1. n \in Nat /\ DOMAIN arr = 1..n /\ arr \in Seq(ToSet(arr))
  BY DEF NumericArray
<1>2. /\ ranked = [rank |-> rank, streams |-> NoStreams, metadata |-> <<>>, minTs |-> MaxInt64]
      /\ ranked.rank = rank
  BY DEF ParserStart
<1>3. ranked \in V
  <2> DEFINE E == EventsRead("stream", arr)
             M == MetadataRead("stream", arr)
             K == Keys(E)
  <2> HIDE DEF E, M, K
  <2>1. NoStreams \in StreamSet(K, E) /\ <<>> \in Seq(M) /\ MaxInt64 \in Int64
    BY NoStreamsType, MaxInt64Assumption DEF Int64
  <2>2. ranked \in [rank : {rank}, streams : StreamSet(K, E), metadata : Seq(M), minTs : Int64]
    BY <1>2, <2>1
  <2> QED
    BY <2>2 DEF StreamStates, E, M, K
<1>4. Absorbed(ranked, <<>>)
  <2>1. IsState(ranked)
    BY <1>2 DEF IsState
  <2> HIDE DEF ranked
  <2> QED
    BY <1>2, <2>1, NothingAbsorbed DEF Absorbed, ParserStart
<1> HIDE DEF ranked
<1>5. PICK h : StreamHistory(h, ranked, arr) /\ StreamFold(ranked, arr) = h[n]
  BY <1>2, <1>3, StreamFoldHistory
<1>6. /\ h \in [0..n -> V] /\ h[0] = ranked
      /\ \A k \in 1..n : h[k] = Absorb(h[k - 1], arr[k].obj)
  BY <1>2, <1>5 DEF StreamHistory
<1> DEFINE S == {k \in 0..n : Absorbed(h[k], Prefix(arr, k))}
<1>7. 0 \in S
  BY <1>1, <1>4, <1>6, PrefixLaws
<1>8. ASSUME NEW k \in 0..n, k \in S, k < n PROVE k + 1 \in S
  <2>1. k + 1 \in 1..n /\ k + 1 \in 0..n /\ (k + 1) - 1 = k /\ k + 1 \in DOMAIN arr
    BY <1>1, <1>8
  <2> DEFINE p == Prefix(arr, k)
             v == arr[k + 1]
             st == h[k]
  <2>2. p \in Seq(ToSet(p)) /\ Prefix(arr, k + 1) = Append(p, v)
    BY <1>1, <1>8, PrefixLaws
  <2>3. IsObject(v) /\ NumericFields(v.obj)
    BY <2>1 DEF AllObjects, NumericArray, Objects
  <2>4. h[k + 1] = Absorb(st, v.obj)
    BY <1>6, <2>1
  <2>5. Absorbed(st, p)
    BY <1>8
  <2> HIDE DEF p, v, st
  <2>6. Absorbed(Absorb(st, v.obj), Append(p, v))
    BY <2>2, <2>3, <2>5, AbsorbedTurn
  <2> QED
    BY <2>1, <2>2, <2>4, <2>6
<1> HIDE DEF S
<1>9. 0..n \subseteq S
  BY <1>1, <1>7, <1>8, BoundedInduction
<1>10. Absorbed(h[n], Prefix(arr, n)) /\ Prefix(arr, n) = arr
  BY <1>1, <1>9, PrefixLaws DEF S
<1>11. h[n].rank = rank
  <2>1. n \in 0..n
    BY <1>1
  <2> QED
    BY <1>6, <2>1 DEF StreamStates
<1> QED
  BY <1>5, <1>10, <1>11 DEF ranked

\* The elements of "traceEvents" of any document are numeric.
LEMMA TreeIsNumeric ==
  ASSUME NEW d, IsDocument(d), HasEvents(d) => HasArray(d)
  PROVE  NumericArray(Tree(d))
<1>1. CASE HasEvents(d)
  BY <1>1, ArrayFacts DEF Tree, NumericArray, Objects
<1>2. CASE ~HasEvents(d)
  BY <1>2 DEF Tree, NumericArray, Objects, ToSet
<1> QED
  BY <1>1, <1>2

\* The streaming reader fails or returns a trace of what a full-tree reader with its
\* conversions stages, shifted by the origin it kept.
LEMMA StreamReadTrace ==
  ASSUME NEW d, IsDocument(d), NEW name
  PROVE  /\ ~Readable(d) => StreamRead(d, name) = Failed
         /\ Readable(d) =>
              LET s == Staged("stream", Tree(d)) IN
              \E st : /\ Minimum(st.minTs, s.staging)
                      /\ StreamRead(d, name) =
                           Trace(UnwrapOr(RankOf(Entry(d, "distributedInfo")), name),
                                 PushAll(s.staging, StartTs(st)), s.metadata, StartTs(st))
<1> DEFINE events == Entry(d, "traceEvents")
           objs == IF events = None \/ ~Is(events[1], "arr") THEN <<>> ELSE events[1].arr
           rank == RankOf(Entry(d, "distributedInfo"))
           ranked == [ParserStart EXCEPT !.rank = rank]
           bad == \/ events # None /\ ~Is(events[1], "arr")
                  \/ \E i \in DOMAIN objs : ~IsRawEvent(objs[i])
<1>1. StreamRead(d, name) = IF bad THEN Failed ELSE Finished(StreamFold(ranked, objs), name)
  BY DEF StreamRead, StreamFold
<1>2. ~bad <=> Readable(d)
  <2>1. CASE HasEvents(d) /\ HasArray(d)
    BY <2>1 DEF HasEvents, HasArray, Readable, Array
  <2>2. CASE HasEvents(d) /\ ~HasArray(d)
    BY <2>2 DEF HasEvents, HasArray, Readable
  <2>3. CASE ~HasEvents(d)
    BY <2>3 DEF HasEvents, Readable
  <2> QED
    BY <2>1, <2>2, <2>3
<1>3. Readable(d) => objs = Tree(d)
  BY DEF HasEvents, HasArray, Readable, Array, Tree
<1>4. Readable(d) => NumericArray(Tree(d)) /\ AllObjects(Tree(d))
  <2> SUFFICES ASSUME Readable(d) PROVE NumericArray(Tree(d)) /\ AllObjects(Tree(d))
    OBVIOUS
  <2>1. NumericArray(Tree(d))
    BY TreeIsNumeric DEF Readable
  <2>2. \A i \in DOMAIN Tree(d) : IsRawEvent(Tree(d)[i])
    BY DEF Readable, Tree
  <2> QED
    BY <2>1, <2>2 DEF AllObjects, IsRawEvent
<1> HIDE DEF objs, rank, bad, ranked, events
<1>5. ASSUME Readable(d)
      PROVE  LET s == Staged("stream", Tree(d)) IN
             \E st : /\ Minimum(st.minTs, s.staging)
                     /\ StreamRead(d, name) =
                          Trace(UnwrapOr(rank, name),
                                PushAll(s.staging, StartTs(st)), s.metadata, StartTs(st))
  <2> DEFINE s == Staged("stream", Tree(d))
             st == StreamFold(ranked, Tree(d))
             t == StartTs(st)
  <2>1. Absorbed(st, Tree(d)) /\ st.rank = rank
    BY <1>4, <1>5, StreamFoldAbsorbs DEF ranked
  <2>2. s.staging \in Seq(ToSet(s.staging))
    BY <1>4, <1>5, StagedSequences DEF NumericArray
  <2>3. /\ st.streams = PushAll(s.staging, 0) /\ st.metadata = s.metadata
        /\ Minimum(st.minTs, s.staging) /\ \A i \in DOMAIN s.staging : Shiftable(s.staging[i])
    BY <2>1 DEF Absorbed
  <2> HIDE DEF st, s
  <2>4. Finished(st, name) = Trace(UnwrapOr(st.rank, name), Rebased(st.streams, t),
                                   st.metadata, t)
    BY DEF Finished, Rebased
  <2> HIDE DEF t
  <2>5. PushAll(s.staging, t) = Rebased(st.streams, t)
    BY <2>2, <2>3, Rebase
  <2>6. StreamRead(d, name) = Finished(st, name)
    BY <1>1, <1>2, <1>3, <1>5 DEF st
  <2>7. StreamRead(d, name) = Trace(UnwrapOr(rank, name), PushAll(s.staging, t), s.metadata, t)
    BY <2>1, <2>3, <2>4, <2>5, <2>6
  <2> QED
    BY <2>3, <2>7 DEF s, t
<1> QED
  BY <1>1, <1>2, <1>5 DEF rank

\* Pushing an event keeps streams by their coordinates, and loses no event.
LEMMA PushKeeps ==
  ASSUME NEW K, NEW E, NEW streams \in StreamSet(K, E), WellKeyed(streams), NEW e
  PROVE  WellKeyed(Push(streams, e)) /\ EventsOf(streams) \cup {e} \subseteq EventsOf(Push(streams, e))
<1> DEFINE key == KeyOf(e)
           old == UnwrapOr(Get(streams, key), <<>>)
           q == Append(old, e)
           pushed == Push(streams, e)
<1>1. /\ old \in Seq(E) /\ (key \in DOMAIN streams => old = streams[key])
      /\ (key \notin DOMAIN streams => old = <<>>)
  BY StreamOrNothing
<1>2. /\ DOMAIN pushed = DOMAIN streams \cup {key} /\ pushed[key] = q
      /\ \A k \in DOMAIN streams : k # key => pushed[k] = streams[k]
  BY DEF Push
<1> HIDE DEF pushed, key, old
<1>3. /\ Len(old) \in Nat /\ DOMAIN old = 1..Len(old) /\ Len(q) = Len(old) + 1
      /\ DOMAIN q = 1..(Len(old) + 1) /\ q[Len(old) + 1] = e
      /\ \A i \in DOMAIN old : i \in DOMAIN q /\ q[i] = old[i]
  BY <1>1
<1> HIDE DEF q
<1>4. q # <<>> /\ \A i \in DOMAIN q : KeyOf(q[i]) = key
  <2>1. \A i \in DOMAIN old : KeyOf(old[i]) = key
    BY <1>1 DEF WellKeyed
  <2>2. \A i \in DOMAIN q : i \in DOMAIN old \/ i = Len(old) + 1
    BY <1>3
  <2>3. KeyOf(e) = key
    BY DEF key
  <2> QED
    BY <1>3, <2>1, <2>2, <2>3
<1>5. WellKeyed(pushed)
  BY <1>2, <1>4 DEF WellKeyed
<1>6. e \in ToSet(q) /\ ToSet(old) \subseteq ToSet(q)
  <2>1. Len(old) + 1 \in DOMAIN q
    BY <1>3
  <2>2. \A i \in DOMAIN old : q[i] \in ToSet(q)
    BY <1>3 DEF ToSet
  <2> QED
    BY <1>3, <2>1, <2>2 DEF ToSet
<1>7. \A k \in DOMAIN streams : ToSet(streams[k]) \subseteq ToSet(pushed[k]) /\ k \in DOMAIN pushed
  BY <1>1, <1>2, <1>6
<1>8. key \in DOMAIN pushed /\ e \in ToSet(pushed[key])
  BY <1>2, <1>6
<1> QED
  BY <1>5, <1>7, <1>8 DEF EventsOf, pushed

\* So does pushing them all.
LEMMA PushAllKeeps ==
  ASSUME NEW s, s \in Seq(ToSet(s)), NEW t
  PROVE  /\ WellKeyed(PushAll(s, t))
         /\ \A i \in DOMAIN s : Shifted(s[i], t) \in EventsOf(PushAll(s, t))
<1> DEFINE n == Len(s)
           Kept(k) == LET f == PushAll(Prefix(s, k), t) IN
                      WellKeyed(f) /\ \A i \in 1..k : Shifted(s[i], t) \in EventsOf(f)
           S == {k \in 0..n : Kept(k)}
<1>1. n \in Nat /\ DOMAIN s = 1..n
  OBVIOUS
<1>2. 0 \in S
  <2>1. PushAll(Prefix(s, 0), t) = NoStreams
    BY PrefixLaws, PushAllLaws
  <2>2. WellKeyed(NoStreams)
    BY NoStreamsType DEF WellKeyed
  <2> QED
    BY <1>1, <2>1, <2>2
<1>3. ASSUME NEW k \in 0..n, k \in S, k < n PROVE k + 1 \in S
  <2> DEFINE p == Prefix(s, k)
             f == PushAll(p, t)
             e == Shifted(s[k + 1], t)
             E == ShiftedSet(p, t)
  <2>1. PushAll(Prefix(s, k + 1), t) = Push(f, e)
    BY <1>3, PrefixTurns
  <2>2. p \in Seq(ToSet(p))
    BY <1>3, PrefixLaws
  <2>3. f \in StreamSet(Keys(E), E)
    BY <2>2, PushAllType
  <2>4. WellKeyed(f) /\ \A i \in 1..k : Shifted(s[i], t) \in EventsOf(f)
    BY <1>3
  <2> HIDE DEF f, e, E
  <2>5. WellKeyed(Push(f, e)) /\ EventsOf(f) \cup {e} \subseteq EventsOf(Push(f, e))
    BY <2>3, <2>4, PushKeeps
  <2>6. \A i \in 1..(k + 1) : i \in 1..k \/ i = k + 1
    BY <1>1
  <2> QED
    BY <1>1, <1>3, <2>1, <2>4, <2>5, <2>6 DEF e
<1> HIDE DEF S
<1>4. n \in S
  <2>1. n \in 0..n
    BY <1>1
  <2> QED
    BY <1>2, <1>3, <2>1, PrefixInduction
<1> QED
  BY <1>1, <1>4, PrefixLaws DEF S

\* The origin of a staging area: no event of it is earlier, and one is at it, unless
\* there are none or all are at the end of time.
OriginOf(t, s) ==
  /\ \A i \in DOMAIN s : t <= s[i].ts
  /\ s = <<>> \/ (\E i \in DOMAIN s : s[i].ts = t) \/ (t = 0 /\ \A i \in DOMAIN s : s[i].ts = MaxInt64)

\* Streams filled with shifted sound events are sound.
LEMMA FilledIsSound ==
  ASSUME NEW s, s \in Seq(ToSet(s)), \A i \in DOMAIN s : SoundEvent(s[i]),
         NEW t \in Int64, OriginOf(t, s)
  PROVE  SoundStreams(PushAll(s, t)) /\ Based(PushAll(s, t), t)
<1> DEFINE E == ShiftedSet(s, t)
           streams == PushAll(s, t)
<1>1. streams \in StreamSet(Keys(E), E)
  BY PushAllType
<1>2. \A e \in E : SoundEvent(e)
  BY ShiftedIsSound DEF ShiftedSet
<1>2a. \A e \in E : \E a \in Int64 : t <= a /\ e.ts = Wrap64(a - t)
  <2> SUFFICES ASSUME NEW i \in DOMAIN s
               PROVE  s[i].ts \in Int64 /\ t <= s[i].ts /\ Shifted(s[i], t).ts = Wrap64(s[i].ts - t)
    BY DEF ShiftedSet
  <2> QED
    BY ShiftedIsSound DEF SoundEvent, OriginOf
<1>3. IsFiniteSet(Keys(E))
  <2> DEFINE D == DOMAIN s
             K == Keys(E)
             g == [i \in D |-> KeyOf(Shifted(s[i], t))]
  <2>1. D = 1..Len(s) /\ Len(s) \in Nat
    OBVIOUS
  <2>2. IsFiniteSet(D)
    BY <2>1, FS_Interval
  <2>3. K = {KeyOf(Shifted(s[i], t)) : i \in D}
    BY DEF Keys, ShiftedSet
  <2>4. g \in Surjection(D, K)
    <3> HIDE DEF K, D
    <3> QED
      BY <2>3 DEF Surjection
  <2> HIDE DEF D, K, g
  <2>5. IsFiniteSet(K)
    BY <2>2, <2>4, FS_Surjection
  <2> QED
    BY <2>5 DEF K
<1> HIDE DEF E, streams
<1>4. /\ streams = [k \in DOMAIN streams |-> streams[k]] /\ DOMAIN streams \subseteq Keys(E)
      /\ \A k \in DOMAIN streams : streams[k] \in Seq(E)
  BY <1>1, StreamsAreFunctions
<1>5. IsFiniteSet(DOMAIN streams)
  BY <1>3, <1>4, FS_Subset
<1>6. ASSUME NEW k \in DOMAIN streams
      PROVE  streams[k] \in Seq(ToSet(streams[k])) /\ \A i \in DOMAIN streams[k] : SoundEvent(streams[k][i])
  <2> DEFINE q == streams[k]
  <2>1. q \in Seq(E)
    BY <1>4
  <2> HIDE DEF q
  <2>2. q \in Seq(ToSet(q)) /\ \A i \in DOMAIN q : SoundEvent(q[i])
    BY <1>2, <2>1, OwnElements
  <2> QED
    BY <2>2 DEF q
<1>7. SoundStreams(streams)
  <2>1. WellKeyed(streams)
    BY PushAllKeeps DEF streams
  <2> QED
    BY <1>4, <1>5, <1>6, <2>1 DEF SoundStreams
<1>8. \A e \in EventsOf(streams) : e \in E
  <2> SUFFICES ASSUME NEW e \in EventsOf(streams) PROVE e \in E
    OBVIOUS
  <2>1. PICK k \in DOMAIN streams : e \in ToSet(streams[k])
    BY DEF EventsOf
  <2>2. PICK i \in DOMAIN streams[k] : e = streams[k][i]
    BY <2>1 DEF ToSet
  <2> QED
    BY <1>4, <2>2
<1>9. \/ EventsOf(streams) = {} \/ \E e \in EventsOf(streams) : e.ts = 0
      \/ t = 0 /\ \A e \in EventsOf(streams) : e.ts = MaxInt64
  <2>1. \A i \in DOMAIN s : /\ Shifted(s[i], t).ts = Wrap64(s[i].ts - t) /\ s[i].ts \in Int64
                           /\ Shifted(s[i], t) \in EventsOf(streams)
    BY PushAllKeeps, ShiftedIsSound DEF SoundEvent, streams
  <2>2. 0 \in Int64 /\ MaxInt64 \in Int64 /\ MaxInt64 - 0 = MaxInt64
    BY MaxInt64Assumption DEF Int64
  <2>3. t \in Int /\ t - t = 0
    BY DEF Int64
  <2>4. CASE s = <<>>
    <3>1. E = {}
      BY <2>4 DEF E, ShiftedSet
    <3> QED
      BY <1>8, <3>1
  <2>5. ASSUME NEW i \in DOMAIN s, s[i].ts = t PROVE \E e \in EventsOf(streams) : e.ts = 0
    <3>1. Shifted(s[i], t).ts = 0
      BY <2>1, <2>2, <2>3, <2>5, Wrapped
    <3> QED
      BY <2>1, <3>1
  <2>6. CASE t = 0 /\ \A i \in DOMAIN s : s[i].ts = MaxInt64
    <3>1. \A i \in DOMAIN s : Shifted(s[i], t).ts = MaxInt64
      BY <2>1, <2>2, <2>6, Wrapped
    <3>2. \A e \in E : e.ts = MaxInt64
      BY <3>1 DEF E, ShiftedSet
    <3> QED
      BY <1>8, <2>6, <3>2
  <2> QED
    BY <2>4, <2>5, <2>6 DEF OriginOf
<1>10. Based(streams, t)
  BY <1>2a, <1>8, <1>9 DEF Based
<1> QED
  BY <1>7, <1>10 DEF streams

\* What a reader stages is sound.
LEMMA StagedIsSound ==
  ASSUME NEW reader \in AllReaders, NEW arr, NumericArray(arr)
  PROVE  LET s == Staged(reader, arr)
         IN  /\ s.staging \in Seq(ToSet(s.staging))
             /\ \A i \in DOMAIN s.staging : SoundEvent(s.staging[i])
             /\ SoundRecords(s.metadata)
<1> DEFINE s == Staged(reader, arr)
           E == EventsRead(reader, arr)
           M == MetadataRead(reader, arr)
<1>1. s.staging \in Seq(E) /\ s.metadata \in Seq(M)
  BY StagedIsRead
<1>2. (\A e \in E : SoundEvent(e)) /\ (\A m \in M : SoundRecord(m))
  BY ReadIsSound
<1> HIDE DEF s, E, M
<1>3. s.staging \in Seq(ToSet(s.staging)) /\ s.metadata \in Seq(ToSet(s.metadata))
  BY <1>1, OwnElements
<1>4. \A i \in DOMAIN s.staging : SoundEvent(s.staging[i])
  BY <1>1, <1>2
<1>5. \A i \in DOMAIN s.metadata : SoundRecord(s.metadata[i])
  BY <1>1, <1>2
<1> QED
  BY <1>3, <1>4, <1>5 DEF SoundRecords, s

\* Either reader fails or returns a sound trace.
LEMMA ReadersAreSound ==
  ASSUME NEW d, IsDocument(d), NEW name, NEW tr \in {SimdRead(d, name), StreamRead(d, name)}
  PROVE  /\ tr.ok \in BOOLEAN
         /\ tr.ok => LET rank == UnwrapOr(RankOf(Entry(d, "distributedInfo")), name) IN
                     \E streams, metadata, t : SoundTrace(tr, rank, streams, metadata, t)
<1> DEFINE rank == UnwrapOr(RankOf(Entry(d, "distributedInfo")), name)
           Sound == \E streams, metadata, t : SoundTrace(tr, rank, streams, metadata, t)
<1>1. Failed.ok = FALSE
  BY DEF Failed
<1>2. ASSUME NEW reader \in AllReaders, NEW arr, NumericArray(arr), NEW t \in Int64,
             OriginOf(t, Staged(reader, arr).staging),
             tr = Trace(rank, PushAll(Staged(reader, arr).staging, t),
                        Staged(reader, arr).metadata, t)
      PROVE  tr.ok = TRUE /\ Sound
  <2> DEFINE s == Staged(reader, arr)
  <2>1. /\ s.staging \in Seq(ToSet(s.staging)) /\ \A i \in DOMAIN s.staging : SoundEvent(s.staging[i])
        /\ SoundRecords(s.metadata)
    BY <1>2, StagedIsSound
  <2> HIDE DEF s, rank
  <2>2. SoundStreams(PushAll(s.staging, t)) /\ Based(PushAll(s.staging, t), t)
    <3>1. OriginOf(t, s.staging)
      BY <1>2 DEF s
    <3> QED
      BY <1>2, <2>1, <3>1, FilledIsSound
  <2>3. SoundTrace(tr, rank, PushAll(s.staging, t), s.metadata, t)
    BY <1>2, <2>1, <2>2 DEF SoundTrace, s
  <2>4. tr.ok = TRUE
    BY <1>2 DEF Trace
  <2> QED
    BY <2>3, <2>4
<1>3. CASE tr = SimdRead(d, name)
  <2>1. CASE ~HasArray(d)
    BY <1>1, <1>3, <2>1, FullTreeTrace DEF SimdRead
  <2>2. CASE HasArray(d)
    <3> DEFINE s == Staged("simd", Array(d))
               t == LeastTs(s.staging)
    <3>1. NumericArray(Array(d))
      BY <2>2, TreeIsNumeric DEF Tree, HasArray
    <3>2. tr = Trace(rank, PushAll(s.staging, t), s.metadata, t)
      BY <1>3, <2>2, FullTreeTrace DEF SimdRead
    <3>3. /\ s.staging \in Seq(ToSet(s.staging)) /\ \A i \in DOMAIN s.staging : SoundEvent(s.staging[i])
      BY <3>1, StagedIsSound DEF AllReaders
    <3>4. t \in Int64 /\ OriginOf(t, s.staging)
      <4> HIDE DEF s
      <4> QED
        BY <3>3, LeastTsType DEF SoundEvent, OriginOf
    <3> HIDE DEF t, rank, Sound
    <3> QED
      BY <1>2, <3>1, <3>2, <3>4 DEF AllReaders, Sound, rank
  <2> QED
    BY <2>1, <2>2
<1>4. CASE tr = StreamRead(d, name)
  <2>1. CASE ~Readable(d)
    BY <1>1, <1>4, <2>1, StreamReadTrace
  <2>2. CASE Readable(d)
    <3> DEFINE s == Staged("stream", Tree(d))
    <3>1. PICK st : /\ Minimum(st.minTs, s.staging)
                    /\ StreamRead(d, name) =
                         Trace(rank, PushAll(s.staging, StartTs(st)), s.metadata, StartTs(st))
      BY <2>2, StreamReadTrace
    <3>2. NumericArray(Tree(d))
      BY <2>2, TreeIsNumeric DEF Readable
    <3>3. StartTs(st) \in Int64 /\ OriginOf(StartTs(st), s.staging)
      <4>1. Int64 \subseteq Int /\ 0 \in Int64 /\ 0 <= MaxInt64 /\ MaxInt64 \in Int
            /\ \A n \in Int64 : n <= MaxInt64
        BY MaxInt64Assumption DEF Int64
      <4>2. /\ st.minTs \in Int64
            /\ \A i \in DOMAIN s.staging : s.staging[i].ts \in Int64 /\ st.minTs <= s.staging[i].ts
            /\ st.minTs = MaxInt64 \/ \E i \in DOMAIN s.staging : st.minTs = s.staging[i].ts
        BY <3>1 DEF Minimum
      <4> HIDE DEF s
      <4>3. CASE st.minTs = MaxInt64
        <5>1. StartTs(st) = 0
          BY <4>3 DEF StartTs
        <5>2. ASSUME NEW i \in DOMAIN s.staging
              PROVE  s.staging[i].ts = MaxInt64 /\ 0 <= s.staging[i].ts
          <6>1. s.staging[i].ts \in Int /\ MaxInt64 <= s.staging[i].ts /\ s.staging[i].ts <= MaxInt64
            BY <4>1, <4>2, <4>3
          <6> QED
            BY <4>1, <6>1
        <5> QED
          BY <4>1, <5>1, <5>2 DEF OriginOf
      <4>4. CASE st.minTs # MaxInt64
        <5>1. StartTs(st) = st.minTs
          BY <4>4 DEF StartTs
        <5> QED
          BY <4>2, <4>4, <5>1 DEF OriginOf
      <4> QED
        BY <4>3, <4>4
    <3> HIDE DEF rank, Sound
    <3> QED
      BY <1>2, <1>4, <3>1, <3>2, <3>3 DEF AllReaders, Sound, rank
  <2> QED
    BY <2>1, <2>2
<1> QED
  BY <1>3, <1>4

-----------------------------------------------------------------------------
(* The written document.  decompress() and write_chrome_json put the streams *)
(* one after the other; no event is lost and none added.                    *)

EventList(streams) == FoldSet(LAMBDA k, all : all \o streams[k], <<>>, DOMAIN streams)

\* The elements of two sequences, one after the other.
LEMMA ElementsOfTwo ==
  ASSUME NEW S, NEW p \in Seq(S), NEW q \in Seq(S)
  PROVE  p \o q \in Seq(S) /\ ToSet(p \o q) = ToSet(p) \cup ToSet(q)
<1>1. p \o q \in Seq(S) /\ Len(p \o q) = Len(p) + Len(q)
  BY TwoSequences
<1>2. /\ DOMAIN p = 1..Len(p) /\ DOMAIN q = 1..Len(q) /\ DOMAIN (p \o q) = 1..(Len(p) + Len(q))
      /\ Len(p) \in Nat /\ Len(q) \in Nat
  BY <1>1
<1>3. ASSUME NEW i \in DOMAIN p PROVE p[i] \in ToSet(p \o q)
  <2>1. i \in DOMAIN (p \o q) /\ (p \o q)[i] = p[i]
    BY <1>2
  <2> QED
    BY <2>1 DEF ToSet
<1>4. ASSUME NEW i \in DOMAIN q PROVE q[i] \in ToSet(p \o q)
  <2>1. i + Len(p) \in DOMAIN (p \o q) /\ (p \o q)[i + Len(p)] = q[i]
    BY <1>2
  <2> QED
    BY <2>1 DEF ToSet
<1>5. ASSUME NEW i \in DOMAIN (p \o q) PROVE (p \o q)[i] \in ToSet(p) \cup ToSet(q)
  <2>1. CASE i <= Len(p)
    <3>1. i \in DOMAIN p /\ (p \o q)[i] = p[i]
      BY <1>2, <2>1
    <3> QED
      BY <3>1 DEF ToSet
  <2>2. CASE ~(i <= Len(p))
    <3>1. i - Len(p) \in DOMAIN q /\ (p \o q)[i] = q[i - Len(p)]
      BY <1>2, <2>2
    <3> QED
      BY <3>1 DEF ToSet
  <2> QED
    BY <2>1, <2>2
<1> QED
  BY <1>1, <1>3, <1>4, <1>5 DEF ToSet

\* it[T] lists the events of the streams T, one stream after the other.
ListFold(it, streams) ==
  /\ it[{}] = <<>> /\ EventList(streams) = it[DOMAIN streams]
  /\ \A T \in SUBSET DOMAIN streams :
       T # {} => \E k \in T : it[T] = it[T \ {k}] \o streams[k]

\* There is such a list.
LEMMA EventListFold ==
  ASSUME NEW streams, SoundStreams(streams)
  PROVE  \E it : ListFold(it, streams)
<1> DEFINE D == DOMAIN streams
           V == Seq(EventsOf(streams))
           Pick(T) == CHOOSE x \in T : TRUE
           Eqn(g) == g = [T \in SUBSET D |->
                            IF T = {} THEN <<>> ELSE g[T \ {Pick(T)}] \o streams[Pick(T)]]
           iter == CHOOSE g : Eqn(g)
           pick == [T \in SUBSET D |-> Pick(T)]
           step == [p \in D \X V |-> p[2] \o streams[p[1]]]
<1>1. EventList(streams) = iter[D]
  BY DEF EventList, FoldSet, MapThenFoldSet
<1>2. IsFiniteSet(D) /\ \A k \in D : streams[k] \in V
  <2> SUFFICES ASSUME NEW k \in D PROVE streams[k] \in V
    BY DEF SoundStreams
  <2> DEFINE q == streams[k]
             X == ToSet(q)
             Y == EventsOf(streams)
  <2>1. q \in Seq(X)
    BY DEF SoundStreams
  <2>2. X \subseteq Y
    BY DEF EventsOf
  <2> HIDE DEF q, X, Y
  <2>3. q \in Seq(Y)
    BY <2>1, <2>2
  <2> QED
    BY <2>3 DEF q, Y
<1>3. \A T \in SUBSET D : T # {} => Pick(T) \in T /\ T \ {Pick(T)} \in SUBSET D /\ pick[T] = Pick(T)
  OBVIOUS
<1>4. PICK g \in [SUBSET D -> V] : IsSetFold(g, D, <<>>, step, pick)
  <2>1. <<>> \in V
    OBVIOUS
  <2>2. step \in [D \X V -> V]
    <3> SUFFICES ASSUME NEW p \in D \X V PROVE p[2] \o streams[p[1]] \in V
      OBVIOUS
    <3>1. p[2] \in V /\ streams[p[1]] \in V
      BY <1>2
    <3> QED
      BY <3>1
  <2>3. \A T \in SUBSET D : T # {} => pick[T] \in T
    BY <1>3
  <2> HIDE DEF step, pick, V, D
  <2> QED
    BY <1>2, <2>1, <2>2, <2>3, SetFoldExists
<1>5. \A T \in SUBSET D :
        T # {} => step[<<pick[T], g[T \ {pick[T]}]>>] = g[T \ {Pick(T)}] \o streams[Pick(T)]
  <2> SUFFICES ASSUME NEW T \in SUBSET D, T # {}
               PROVE  step[<<pick[T], g[T \ {pick[T]}]>>] = g[T \ {Pick(T)}] \o streams[Pick(T)]
    OBVIOUS
  <2> DEFINE x == Pick(T)
  <2>1. x \in D /\ T \ {x} \in SUBSET D /\ pick[T] = x
    BY <1>3
  <2> HIDE DEF x, V
  <2>2. g[T \ {x}] \in V
    BY <2>1
  <2>3. <<x, g[T \ {x}]>> \in D \X V
    BY <2>1, <2>2
  <2>4. step[<<x, g[T \ {x}]>>] = g[T \ {x}] \o streams[x]
    BY <2>3
  <2> QED
    BY <2>1, <2>4 DEF x
<1>6. Eqn(g)
  <2>1. \A T \in SUBSET D :
          g[T] = IF T = {} THEN <<>> ELSE g[T \ {Pick(T)}] \o streams[Pick(T)]
    BY <1>4, <1>5 DEF IsSetFold
  <2>2. g = [T \in SUBSET D |-> g[T]]
    OBVIOUS
  <2> HIDE DEF Pick
  <2> QED
    BY <2>1, <2>2
<1>7. Eqn(iter)
  BY <1>6
<1> HIDE DEF iter
<1>8. iter[{}] = <<>>
  BY <1>7
<1>9. \A T \in SUBSET D : T # {} => \E k \in T : iter[T] = iter[T \ {k}] \o streams[k]
  <2> SUFFICES ASSUME NEW T \in SUBSET D, T # {}
               PROVE  Pick(T) \in T /\ iter[T] = iter[T \ {Pick(T)}] \o streams[Pick(T)]
    OBVIOUS
  <2>1. \A A \in SUBSET D : iter[A] = IF A = {} THEN <<>> ELSE iter[A \ {Pick(A)}] \o streams[Pick(A)]
    BY <1>7
  <2> QED
    BY <1>3, <2>1
<1> QED
  BY <1>1, <1>8, <1>9 DEF ListFold

\* The events written are those of the streams.
LEMMA EventListLaws ==
  ASSUME NEW streams, SoundStreams(streams)
  PROVE  /\ EventList(streams) \in Seq(EventsOf(streams))
         /\ ToSet(EventList(streams)) = EventsOf(streams)
<1> DEFINE D == DOMAIN streams
           V == Seq(EventsOf(streams))
           Of(T) == UNION {ToSet(streams[k]) : k \in T}
<1>1. PICK iter : ListFold(iter, streams)
  BY EventListFold
<1>2. IsFiniteSet(D) /\ \A k \in D : streams[k] \in V
  <2> SUFFICES ASSUME NEW k \in D PROVE streams[k] \in V
    BY DEF SoundStreams
  <2> DEFINE q == streams[k]
             X == ToSet(q)
             Y == EventsOf(streams)
  <2>1. q \in Seq(X)
    BY DEF SoundStreams
  <2>2. X \subseteq Y
    BY DEF EventsOf
  <2> HIDE DEF q, X, Y
  <2>3. q \in Seq(Y)
    BY <2>1, <2>2
  <2> QED
    BY <2>3 DEF q, Y
<1> DEFINE P == {T \in SUBSET D : iter[T] \in V /\ ToSet(iter[T]) = Of(T)}
<1> HIDE DEF V
<1>8. ASSUME NEW T \in SUBSET D, \A x \in T : T \ {x} \in P PROVE T \in P
  <2>1. CASE T = {}
    <3>1. iter[T] = <<>>
      BY <1>1, <2>1 DEF ListFold
    <3>2. <<>> \in V /\ ToSet(<<>>) = {}
      BY DEF V, ToSet
    <3> QED
      BY <2>1, <3>1, <3>2
  <2>2. CASE T # {}
    <3>0. PICK x \in T : iter[T] = iter[T \ {x}] \o streams[x]
      BY <1>1, <2>2 DEF ListFold
    <3> DEFINE U == T \ {x}
    <3>1. x \in T /\ x \in D /\ U \in P
      BY <1>8, <2>2
    <3>2. iter[T] = iter[U] \o streams[x]
      BY <3>0
    <3>3. iter[U] \in V /\ ToSet(iter[U]) = Of(U) /\ streams[x] \in V
      BY <1>2, <3>1
    <3>4. Of(T) = Of(U) \cup ToSet(streams[x])
      <4>1. ASSUME NEW y \in T
            PROVE  UNION {ToSet(streams[k]) : k \in T}
                     = (UNION {ToSet(streams[k]) : k \in T \ {y}}) \cup ToSet(streams[y])
        <5>1. T = (T \ {y}) \cup {y}
          OBVIOUS
        <5>2. \A e : (\E k \in T : e \in ToSet(streams[k]))
                      <=> (\E k \in T \ {y} : e \in ToSet(streams[k])) \/ e \in ToSet(streams[y])
          BY <5>1
        <5> QED
          BY <5>2
      <4> QED
        BY <3>1, <4>1
    <3> HIDE DEF U, Of
    <3>5. iter[T] \in V /\ ToSet(iter[T]) = ToSet(iter[U]) \cup ToSet(streams[x])
      BY <3>2, <3>3, ElementsOfTwo DEF V
    <3> QED
      BY <3>3, <3>4, <3>5
  <2> QED
    BY <2>1, <2>2
<1>9. D \in P
  <2> HIDE DEF P
  <2>1. Inductive(D, P)
    BY <1>8 DEF Inductive
  <2> QED
    BY <1>2, <2>1, FiniteInduction
<1>10. Of(D) = EventsOf(streams)
  BY DEF EventsOf
<1> HIDE DEF Of
<1> QED
  BY <1>1, <1>9, <1>10 DEF V, ListFold

\* The fields of a written object are those that are there.
LEMMA PresentFields ==
  ASSUME NEW fields
  PROVE  /\ DOMAIN Present(fields) = {f \in DOMAIN fields : fields[f] # None}
         /\ \A f \in DOMAIN Present(fields) : Present(fields)[f] = fields[f][1]
BY DEF Present

\* A text and a number are written as such, and read as numeric fields.
LEMMA WrittenValues ==
  /\ \A text : Is(Str(text), "str") /\ IsNumeric(Str(text)) /\ Str(text).str = text
  /\ \A n \in Int : Is(Num(n), "int") /\ IsNumeric(Num(n)) /\ Num(n).int = n
  /\ \A f : Is(Obj(f), "obj") /\ IsNumeric(Obj(f)) /\ Obj(f).obj = f /\ IsObject(Obj(f))
BY DEF Is, IsNumeric, Str, Num, Obj, IsObject

\* An optional field of an event is absent or a numeric value.
LEMMA TaggedValues ==
  /\ \A kind : Tagged(kind, None) = None
  /\ \A n \in Int : \E v : Tagged("int", Some(n)) = Some(v) /\ IsNumeric(v)
  /\ \A x : \E v : Tagged("str", Some(x)) = Some(v) /\ IsNumeric(v)
  /\ \A x : \E v : Tagged("obj", Some(x)) = Some(v) /\ IsNumeric(v)
<1>1. \A kind : Tagged(kind, None) = None
  BY DEF Tagged, None
<1>2. \A kind, x : Tagged(kind, Some(x)) = Some([k \in {kind} |-> x])
  BY DEF Tagged, Some
<1>3. \A n \in Int : IsNumeric([k \in {"int"} |-> n])
  BY DEF IsNumeric, Is
<1>4. \A x : IsNumeric([k \in {"str"} |-> x])
  BY DEF IsNumeric, Is
<1>5. \A x : IsNumeric([k \in {"obj"} |-> x])
  BY DEF IsNumeric, Is
<1> QED
  BY <1>1, <1>2, <1>3, <1>4, <1>5

\* What the "ph" field says of an object.
LEMMA PhaseOfText ==
  ASSUME NEW p
  PROVE  Phase(Some(Str(<<p>>))) = p
<1>1. AsStr(Some(Str(<<p>>))) = Some(<<p>>)
  BY Options, WrittenValues DEF AsStr
<1>2. Some(<<p>>) # None /\ Some(<<p>>) # Some(<<>>) /\ Some(<<p>>)[1][1] = p
  BY DEF Some, None
<1> QED
  BY <1>1, <1>2 DEF Phase

\* A written metadata record is an object that readers take for one.
LEMMA MetadataWritten ==
  ASSUME NEW m, SoundRecord(m)
  PROVE  /\ IsObject(ChromeMetadata(m)) /\ NumericFields(ChromeMetadata(m).obj)
         /\ IsMetadata(ChromeMetadata(m).obj)
<1> DEFINE fields == [name |-> Some(Str(m.name)), ph |-> Some(Str(<<"M">>)),
                      pid |-> Some(Num(m.pid)), tid |-> Some(Str(m.tid)), args |-> m.args]
           obj == Present(fields)
<1>1. ChromeMetadata(m) = Obj(obj)
  BY DEF ChromeMetadata
<1>2. /\ DOMAIN fields = {"name", "ph", "pid", "tid", "args"}
      /\ fields["name"] = Some(Str(m.name)) /\ fields["ph"] = Some(Str(<<"M">>))
      /\ fields["pid"] = Some(Num(m.pid)) /\ fields["tid"] = Some(Str(m.tid))
      /\ fields["args"] = m.args
  OBVIOUS
<1> HIDE DEF fields
<1>3. /\ DOMAIN obj = {f \in DOMAIN fields : fields[f] # None}
      /\ \A f \in DOMAIN obj : obj[f] = fields[f][1]
  BY PresentFields
<1> HIDE DEF obj
<1>4. m.pid \in Int /\ (m.args = None \/ \E v : m.args = Some(v) /\ IsNumeric(v))
  BY DEF SoundRecord, Int64
<1>5. \A f \in DOMAIN obj : IsNumeric(obj[f])
  <2> SUFFICES ASSUME NEW f \in DOMAIN obj PROVE IsNumeric(obj[f])
    OBVIOUS
  <2>1. \E v : fields[f] = Some(v) /\ IsNumeric(v)
    BY <1>2, <1>3, <1>4, WrittenValues
  <2> QED
    BY <1>3, <2>1, Options
<1>6. "ph" \in DOMAIN obj /\ obj["ph"] = Str(<<"M">>)
  BY <1>2, <1>3, Options
<1>7. IsMetadata(obj)
  BY <1>6, PhaseOfText DEF IsMetadata, Get
<1> QED
  BY <1>1, <1>5, <1>7, WrittenValues DEF NumericFields

\* A written event is an object that readers take for an event, at the origin plus the
\* timestamp it was kept with.
LEMMA EventWritten ==
  ASSUME NEW e, SoundEvent(e), NEW t \in Int64
  PROVE  /\ IsObject(ChromeEvent(e, t)) /\ NumericFields(ChromeEvent(e, t).obj)
         /\ ~IsMetadata(ChromeEvent(e, t).obj)
         /\ ChromeEvent(e, t).obj["ts"].int = e.ts + t
<1> DEFINE fields == [name |-> Some(Str(e.name)), ts |-> Some(Num(e.ts + t)),
                      ph |-> Some(Str(<<e.ph>>)), pid |-> Some(Num(e.pid)),
                      tid |-> Some(Str(e.tid)), dur |-> Tagged("int", e.dur),
                      cat |-> Tagged("str", e.cat), args |-> Tagged("obj", e.args)]
           obj == Present(fields)
<1>1. ChromeEvent(e, t) = Obj(obj)
  BY DEF ChromeEvent
<1>2. /\ DOMAIN fields = {"name", "ts", "ph", "pid", "tid", "dur", "cat", "args"}
      /\ fields["name"] = Some(Str(e.name)) /\ fields["ts"] = Some(Num(e.ts + t))
      /\ fields["ph"] = Some(Str(<<e.ph>>)) /\ fields["pid"] = Some(Num(e.pid))
      /\ fields["tid"] = Some(Str(e.tid)) /\ fields["dur"] = Tagged("int", e.dur)
      /\ fields["cat"] = Tagged("str", e.cat) /\ fields["args"] = Tagged("obj", e.args)
  OBVIOUS
<1> HIDE DEF fields
<1>3. /\ DOMAIN obj = {f \in DOMAIN fields : fields[f] # None}
      /\ \A f \in DOMAIN obj : obj[f] = fields[f][1]
  BY PresentFields
<1> HIDE DEF obj
<1>4. /\ e.pid \in Int /\ e.ts + t \in Int /\ e.ph # "M"
      /\ e.dur = None \/ \E n \in Int : e.dur = Some(n)
      /\ e.cat = None \/ \E x : e.cat = Some(x)
      /\ e.args = None \/ \E x : e.args = Some(x)
  BY DEF SoundEvent, Int64, Opt64, IsOption
<1>5. /\ fields["dur"] = None \/ \E v : fields["dur"] = Some(v) /\ IsNumeric(v)
      /\ fields["cat"] = None \/ \E v : fields["cat"] = Some(v) /\ IsNumeric(v)
      /\ fields["args"] = None \/ \E v : fields["args"] = Some(v) /\ IsNumeric(v)
  BY <1>2, <1>4, TaggedValues
<1>6. \A f \in DOMAIN obj : IsNumeric(obj[f])
  <2> SUFFICES ASSUME NEW f \in DOMAIN obj PROVE IsNumeric(obj[f])
    OBVIOUS
  <2>1. \E v : fields[f] = Some(v) /\ IsNumeric(v)
    BY <1>2, <1>3, <1>4, <1>5, WrittenValues
  <2> QED
    BY <1>3, <2>1, Options
<1>7. "ph" \in DOMAIN obj /\ obj["ph"] = Str(<<e.ph>>)
  BY <1>2, <1>3, Options
<1>8. ~IsMetadata(obj)
  BY <1>4, <1>7, PhaseOfText DEF IsMetadata, Get
<1>9. obj["ts"] = Num(e.ts + t)
  BY <1>2, <1>3, Options
<1> QED
  BY <1>1, <1>4, <1>6, <1>8, <1>9, WrittenValues DEF NumericFields

\* A function from 1 to n is a sequence.
LEMMA ListIsSequence ==
  ASSUME NEW n \in Nat, NEW S, NEW p, p = [i \in 1..n |-> p[i]], \A i \in 1..n : p[i] \in S
  PROVE  p \in Seq(S) /\ Len(p) = n /\ DOMAIN p = 1..n
OBVIOUS

-----------------------------------------------------------------------------
(* Empty arguments.  An artifact has no place for an argument map without   *)
(* keys: it comes back as none, and nothing else of an event changes.       *)

BuiltList(q) == [i \in DOMAIN q |-> Built(q[i])]

\* The lane does not see the difference.
LEMMA NoStreamInNone ==
  \A args : IsOption(args) =>
    IsOption(OrNone(args)) /\ StreamInArgs(OrNone(args)) = StreamInArgs(args)
<1>1. StreamInArgs(Some(<<>>)) = StreamInArgs(None)
  <2>1. Some(<<>>) # None /\ Some(<<>>)[1] = <<>> /\ Get(<<>>, "stream") = None
    BY Options DEF Get
  <2> QED
    BY <2>1 DEF StreamInArgs
<1> QED
  BY <1>1 DEF OrNone, IsOption

\* An event without its empty arguments.
LEMMA BuiltEvent ==
  ASSUME NEW e, SoundEvent(e)
  PROVE  /\ SoundEvent(Built(e)) /\ KeyOf(Built(e)) = KeyOf(e) /\ Documented(Built(e)) = Documented(e)
         /\ Built(e).ts = e.ts /\ Built(e).cat = e.cat
         /\ StreamInArgs(Built(e).args) = StreamInArgs(e.args)
<1> DEFINE args == OrNone(e.args)
<1>1. e = [name |-> e.name, ts |-> e.ts, dur |-> e.dur, cat |-> e.cat, ph |-> e.ph,
           pid |-> e.pid, tid |-> e.tid, args |-> e.args]
  BY DEF SoundEvent
<1>2. Built(e) = [name |-> e.name, ts |-> e.ts, dur |-> e.dur, cat |-> e.cat, ph |-> e.ph,
                  pid |-> e.pid, tid |-> e.tid, args |-> args]
  BY <1>1 DEF Built
<1>3. IsOption(args) /\ StreamInArgs(args) = StreamInArgs(e.args)
  BY NoStreamInNone DEF SoundEvent
<1>4. \A raw : Lane(raw, args, e.cat) = Lane(raw, e.args, e.cat)
  BY <1>3 DEF Lane
<1>5. OrNone(args) = args
  BY Options DEF OrNone
<1>6. Documented(Built(e)) = Documented(e)
  <2> HIDE DEF args
  <2>1. Documented(Built(e)) = [Built(e) EXCEPT !.args = OrNone(args)]
    BY <1>2 DEF Documented
  <2>2. Documented(e) = Built(e)
    BY DEF Documented, Built
  <2>3. Documented(Built(e)) = [Built(e) EXCEPT !.args = args]
    BY <1>5, <2>1
  <2>4. [Built(e) EXCEPT !.args = args] = Built(e)
    BY <1>2
  <2> QED
    BY <2>2, <2>3, <2>4
<1> HIDE DEF args
<1>7. SoundEvent(Built(e))
  <2>1. \E raw : e.tid = Lane(raw, args, e.cat)
    BY <1>4 DEF SoundEvent
  <2> QED
    BY <1>2, <1>3, <2>1 DEF SoundEvent
<1> QED
  BY <1>2, <1>3, <1>6, <1>7 DEF KeyOf

\* A list of events without theirs.
LEMMA BuiltLists ==
  ASSUME NEW E, NEW q \in Seq(E)
  PROVE  /\ BuiltList(q) \in Seq({Built(e) : e \in E}) /\ Len(BuiltList(q)) = Len(q)
         /\ DOMAIN BuiltList(q) = DOMAIN q /\ \A i \in DOMAIN q : BuiltList(q)[i] = Built(q[i])
         /\ ToSet(BuiltList(q)) = {Built(e) : e \in ToSet(q)}
<1> DEFINE n == Len(q)
           B == {Built(e) : e \in E}
           b == BuiltList(q)
<1>1. n \in Nat /\ DOMAIN q = 1..n /\ \A i \in 1..n : q[i] \in E
  OBVIOUS
<1>2. b = [i \in 1..n |-> Built(q[i])] /\ \A i \in 1..n : Built(q[i]) \in B
  BY <1>1 DEF BuiltList
<1> HIDE DEF n, b, B
<1>3. b \in Seq(B) /\ Len(b) = n /\ DOMAIN b = 1..n /\ \A i \in 1..n : b[i] = Built(q[i])
  <2>1. \A i \in 1..n : b[i] = Built(q[i])
    BY <1>2
  <2>2. b = [i \in 1..n |-> b[i]] /\ \A i \in 1..n : b[i] \in B
    BY <1>2, <2>1
  <2> QED
    BY <1>1, <2>1, <2>2, ListIsSequence
<1>4. ToSet(b) = {Built(e) : e \in ToSet(q)}
  BY <1>1, <1>3 DEF ToSet
<1> QED
  BY <1>1, <1>3, <1>4 DEF n, b, B

\* It does not matter whether they are dropped before or after two lists are joined.
LEMMA BuiltJoin ==
  ASSUME NEW E, NEW p \in Seq(E), NEW q \in Seq(E)
  PROVE  BuiltList(p \o q) = BuiltList(p) \o BuiltList(q)
<1> DEFINE B == {Built(e) : e \in E}
           r == p \o q
           a == BuiltList(p)
           b == BuiltList(q)
           c == BuiltList(r)
<1>1. r \in Seq(E) /\ Len(r) = Len(p) + Len(q)
  BY TwoSequences
<1>2. /\ Len(p) \in Nat /\ Len(q) \in Nat /\ DOMAIN p = 1..Len(p) /\ DOMAIN q = 1..Len(q)
      /\ \A i \in 1..(Len(p) + Len(q)) : r[i] = IF i <= Len(p) THEN p[i] ELSE q[i - Len(p)]
  OBVIOUS
<1>3. /\ a \in Seq(B) /\ Len(a) = Len(p) /\ \A i \in 1..Len(p) : a[i] = Built(p[i])
      /\ b \in Seq(B) /\ Len(b) = Len(q) /\ \A i \in 1..Len(q) : b[i] = Built(q[i])
  BY <1>2, BuiltLists
<1> HIDE DEF r, a, b, B
<1>4. DOMAIN r = 1..(Len(p) + Len(q))
  BY <1>1
<1>5. c = [i \in 1..(Len(p) + Len(q)) |-> Built(r[i])]
  BY <1>4 DEF BuiltList
<1>6. /\ a \o b = [i \in 1..(Len(a) + Len(b)) |-> (a \o b)[i]]
      /\ \A i \in 1..(Len(a) + Len(b)) : (a \o b)[i] = IF i <= Len(a) THEN a[i] ELSE b[i - Len(a)]
  <2>1. a \o b \in Seq(B) /\ Len(a \o b) = Len(a) + Len(b)
    BY <1>3, TwoSequences
  <2>2. \A z \in Seq(B) : z = [i \in 1..Len(z) |-> z[i]]
    OBVIOUS
  <2>3. a \o b = [i \in 1..(Len(a) + Len(b)) |-> (a \o b)[i]]
    <3> DEFINE z == a \o b
    <3>1. z \in Seq(B) /\ Len(z) = Len(a) + Len(b)
      BY <2>1
    <3> HIDE DEF z
    <3>2. z = [i \in 1..Len(z) |-> z[i]]
      BY <2>2, <3>1
    <3> QED
      BY <3>1, <3>2 DEF z
  <2>4. \A i \in 1..(Len(a) + Len(b)) : (a \o b)[i] = IF i <= Len(a) THEN a[i] ELSE b[i - Len(a)]
    BY <1>3
  <2> QED
    BY <2>3, <2>4
<1>7. \A i \in 1..(Len(p) + Len(q)) :
        Built(r[i]) = IF i <= Len(p) THEN a[i] ELSE b[i - Len(p)]
  <2> SUFFICES ASSUME NEW i \in 1..(Len(p) + Len(q))
               PROVE  Built(r[i]) = IF i <= Len(p) THEN a[i] ELSE b[i - Len(p)]
    OBVIOUS
  <2>1. CASE i <= Len(p)
    <3>1. i \in 1..Len(p)
      BY <1>2, <2>1
    <3> QED
      BY <1>2, <1>3, <2>1, <3>1
  <2>2. CASE ~(i <= Len(p))
    <3>1. i - Len(p) \in 1..Len(q)
      BY <1>2, <2>2
    <3> QED
      BY <1>2, <1>3, <2>2, <3>1
  <2> QED
    BY <2>1, <2>2
<1> HIDE DEF c
<1> QED
  BY <1>3, <1>5, <1>6, <1>7 DEF a, b, c, r

\* Sound streams stay sound, under the same coordinates, with the same timestamps.
LEMMA BuiltAreSound ==
  ASSUME NEW streams, SoundStreams(streams)
  PROVE  LET b == BuiltStreams(streams) IN
         /\ SoundStreams(b) /\ DOMAIN b = DOMAIN streams
         /\ \A k \in DOMAIN streams : b[k] = BuiltList(streams[k])
         /\ EventsOf(b) = {Built(e) : e \in EventsOf(streams)}
         /\ b = NoStreams <=> streams = NoStreams
<1> DEFINE b == BuiltStreams(streams)
           D == DOMAIN streams
<1>1. /\ IsFiniteSet(D) /\ streams = [k \in D |-> streams[k]]
      /\ \A k \in D : /\ streams[k] \in Seq(ToSet(streams[k])) /\ streams[k] # <<>>
                      /\ \A i \in DOMAIN streams[k] : SoundEvent(streams[k][i]) /\ KeyOf(streams[k][i]) = k
  BY DEF SoundStreams, WellKeyed
<1>2. b = [k \in D |-> BuiltList(streams[k])]
  BY DEF BuiltStreams, BuiltList
<1> HIDE DEF b
<1>3. DOMAIN b = D /\ b = [k \in D |-> b[k]] /\ \A k \in D : b[k] = BuiltList(streams[k])
  BY <1>2
<1>4. ASSUME NEW k \in D
      PROVE  /\ b[k] \in Seq(ToSet(b[k])) /\ b[k] # <<>>
             /\ \A i \in DOMAIN b[k] : SoundEvent(b[k][i]) /\ KeyOf(b[k][i]) = k
             /\ ToSet(b[k]) = {Built(e) : e \in ToSet(streams[k])}
  <2> DEFINE q == streams[k]
             p == BuiltList(q)
             E == ToSet(q)
             B == {Built(e) : e \in E}
  <2>1. q \in Seq(E) /\ q # <<>> /\ \A i \in DOMAIN q : SoundEvent(q[i]) /\ KeyOf(q[i]) = k
    BY <1>1
  <2> HIDE DEF p, q, E
  <2>2. /\ p \in Seq(B) /\ Len(p) = Len(q) /\ DOMAIN p = DOMAIN q
        /\ \A i \in DOMAIN q : p[i] = Built(q[i])
        /\ ToSet(p) = {Built(e) : e \in ToSet(q)}
    BY <2>1, BuiltLists DEF p
  <2>3. \A i \in DOMAIN p : SoundEvent(p[i]) /\ KeyOf(p[i]) = k
    BY <2>1, <2>2, BuiltEvent
  <2>4. p \in Seq(ToSet(p))
    <3> HIDE DEF B
    <3> QED
      BY <2>2, OwnElements
  <2>5. p # <<>>
    <3>1. Len(q) # 0
      BY <2>1
    <3> QED
      BY <2>2, <3>1
  <2> QED
    BY <1>3, <2>2, <2>3, <2>4, <2>5 DEF p, q
<1>5. SoundStreams(b)
  BY <1>1, <1>3, <1>4 DEF SoundStreams, WellKeyed
<1>6. EventsOf(b) = {Built(e) : e \in EventsOf(streams)}
  BY <1>3, <1>4 DEF EventsOf
<1>7. b = NoStreams <=> streams = NoStreams
  <2>1. \A f : f = [k \in DOMAIN f |-> f[k]] => (f = NoStreams <=> DOMAIN f = {})
    <3> SUFFICES ASSUME NEW f, f = [k \in DOMAIN f |-> f[k]] PROVE f = NoStreams <=> DOMAIN f = {}
      OBVIOUS
    <3>1. NoStreams = [k \in {} |-> f[k]] /\ DOMAIN NoStreams = {}
      BY DEF NoStreams
    <3> QED
      BY <3>1
  <2> QED
    BY <1>1, <1>3, <2>1
<1> QED
  BY <1>3, <1>5, <1>6, <1>7 DEF b

-----------------------------------------------------------------------------
(* The artifact, and what is decompressed of it.                            *)

\* What the artifact of a trace holds, and what is decompressed of it.
StoredRecords(metadata) == [i \in DOMAIN metadata |-> NilArgs(metadata[i])]
Reconstruction(tr) == Decompressed(Stored(Compressed(tr)))
Only(rank, x) == [r \in {rank} |-> x]
Kept(rank, streams) == [r \in {r \in {rank} : streams # NoStreams} |-> streams]

\* A map of one entry, and one of at most one.
LEMMA OneEntry ==
  /\ \A rank, x : DOMAIN Only(rank, x) = {rank} /\ Only(rank, x)[rank] = x
  /\ \A rank, streams : streams # NoStreams => Kept(rank, streams) = Only(rank, streams)
  /\ \A rank : DOMAIN Kept(rank, NoStreams) = {}
BY DEF Only, Kept

\* A rank without streams is gone, and so are empty arguments; the metadata and the
\* origin are there.
LEMMA ReconstructionOf ==
  ASSUME NEW rank, NEW streams, SoundStreams(streams), NEW metadata, NEW t, NEW tr,
         tr = Trace(rank, streams, metadata, t)
  PROVE  /\ Reconstruction(tr).ok = TRUE
         /\ Reconstruction(tr).ranks = Kept(rank, BuiltStreams(streams))
         /\ Reconstruction(tr).startTs = Only(rank, t)
         /\ Reconstruction(tr).metadata = Only(rank, StoredRecords(metadata))
<1> DEFINE c == Compressed(tr)
           a == Stored(c)
           b == BuiltStreams(streams)
<1>1. c = [ranks |-> [r \in {rank} |-> streams], startTs |-> [r \in {rank} |-> t],
           metadata |-> [r \in {rank} |-> metadata]]
  BY DEF Compressed, Trace
<1>2. a = [c EXCEPT !.metadata = [r \in DOMAIN c.metadata |->
                                    [i \in DOMAIN c.metadata[r] |-> NilArgs(c.metadata[r][i])]]]
  BY DEF Stored
<1> HIDE DEF c, a
<1>3. [r \in DOMAIN c.metadata |-> [i \in DOMAIN c.metadata[r] |-> NilArgs(c.metadata[r][i])]]
        = [r \in {rank} |-> StoredRecords(metadata)]
  BY <1>1 DEF StoredRecords
<1>4. a = [ranks |-> [r \in {rank} |-> streams], startTs |-> [r \in {rank} |-> t],
           metadata |-> [r \in {rank} |-> StoredRecords(metadata)]]
  BY <1>1, <1>2, <1>3
<1>5. Reconstruction(tr) = Decompressed(a)
  BY DEF Reconstruction, c, a
<1>6. b = NoStreams <=> streams = NoStreams
  BY BuiltAreSound
<1> HIDE DEF b
<1>7. [r \in {r \in DOMAIN a.ranks : a.ranks[r] # NoStreams} |-> BuiltStreams(a.ranks[r])]
        = [r \in {r \in {rank} : b # NoStreams} |-> b]
  BY <1>4, <1>6 DEF b
<1> QED
  BY <1>4, <1>5, <1>7 DEF Decompressed, Kept, Only, b

\* Records stay records in the artifact.
LEMMA StoredIsSound ==
  ASSUME NEW metadata, SoundRecords(metadata)
  PROVE  SoundRecords(StoredRecords(metadata)) /\ Len(StoredRecords(metadata)) = Len(metadata)
<1>1. metadata \in Seq(ToSet(metadata)) /\ \A i \in DOMAIN metadata : SoundRecord(metadata[i])
  BY DEF SoundRecords
<1>2. ASSUME NEW m, SoundRecord(m) PROVE SoundRecord(NilArgs(m))
  <2>1. m = [name |-> m.name, pid |-> m.pid, tid |-> m.tid, args |-> m.args]
    BY <1>2 DEF SoundRecord
  <2> DEFINE args == IF m.args = Some(Null) THEN None ELSE m.args
  <2>2. NilArgs(m) = [name |-> m.name, pid |-> m.pid, tid |-> m.tid, args |-> args]
    BY <2>1 DEF NilArgs
  <2>3. args = None \/ \E v : args = Some(v) /\ IsNumeric(v)
    BY <1>2 DEF SoundRecord
  <2>4. m.pid \in Int64
    BY <1>2 DEF SoundRecord
  <2> HIDE DEF args
  <2> QED
    BY <2>2, <2>3, <2>4 DEF SoundRecord
<1> DEFINE n == Len(metadata)
           q == StoredRecords(metadata)
           X == {NilArgs(metadata[i]) : i \in 1..n}
<1>3. n \in Nat /\ DOMAIN metadata = 1..n
  BY <1>1
<1>4. q = [i \in 1..n |-> NilArgs(metadata[i])]
  BY <1>3 DEF StoredRecords
<1>5. \A i \in 1..n : NilArgs(metadata[i]) \in X
  OBVIOUS
<1>6. \A i \in 1..n : SoundRecord(NilArgs(metadata[i]))
  BY <1>1, <1>2, <1>3
<1> HIDE DEF q, X, n
<1>7. q \in Seq(X) /\ Len(q) = n /\ DOMAIN q = 1..n
  BY <1>3, <1>4, <1>5
<1>8. q \in Seq(ToSet(q))
  BY <1>7, OwnElements
<1>9. \A i \in DOMAIN q : SoundRecord(q[i])
  BY <1>4, <1>6, <1>7
<1> QED
  BY <1>7, <1>8, <1>9 DEF SoundRecords, q, n

\* The elements of "traceEvents" as written.
WrittenArray(metadata, events, t) ==
  [i \in DOMAIN metadata |-> ChromeMetadata(metadata[i])]
    \o [i \in DOMAIN events |-> ChromeEvent(events[i], t)]
WrittenDocument(rank, metadata, events, t) ==
  <<[key |-> "distributedInfo", value |-> Obj([rank |-> ChromeRank(rank)])],
    [key |-> "traceEvents", value |-> [arr |-> WrittenArray(metadata, events, t)]]>>

\* The timestamps of the events of an array, and those of events of an origin t.
EventTimes(arr) == {arr[i].obj["ts"].int : i \in {i \in DOMAIN arr : ~IsMetadata(arr[i].obj)}}
TimesFrom(t, E) == {e.ts + t : e \in E}

\* decompress of an artifact without events fails; of another one it writes every
\* event, unless a timestamp overflows.
LEMMA DocumentOf ==
  ASSUME NEW rank, NEW streams, SoundStreams(streams), NEW metadata, NEW t, NEW tr,
         tr = Trace(rank, streams, metadata, t)
  PROVE  LET events == EventList(BuiltStreams(streams))
             document == ChromeDocument(Reconstruction(tr))
         IN  /\ streams = NoStreams => document = None
             /\ (\E i \in DOMAIN events : events[i].ts + t \notin Int64) => document = None
             /\ streams # NoStreams /\ (\A i \in DOMAIN events : events[i].ts + t \in Int64) =>
                  document = Some(WrittenDocument(rank, StoredRecords(metadata), events, t))
<1> DEFINE b == BuiltStreams(streams)
           d == Reconstruction(tr)
           only == CHOOSE r \in DOMAIN d.ranks : TRUE
           start == UnwrapOr(Get(d.startTs, only), 0)
           kept == d.ranks[only]
           events == EventList(kept)
           meta == UnwrapOr(Get(d.metadata, only), <<>>)
<1>1. ChromeDocument(d) =
        IF \/ Cardinality(DOMAIN d.ranks) # 1
           \/ \E i \in DOMAIN events : events[i].ts + start \notin Int64
        THEN None ELSE Some(WrittenDocument(only, meta, events, start))
  BY DEF ChromeDocument, EventList, WrittenDocument, WrittenArray
<1>2. /\ d.ranks = Kept(rank, b)
      /\ d.startTs = Only(rank, t)
      /\ d.metadata = Only(rank, StoredRecords(metadata))
  BY ReconstructionOf
<1>2a. b = NoStreams <=> streams = NoStreams
  BY BuiltAreSound
<1> HIDE DEF d, b
<1>3. CASE streams = NoStreams
  <2>1. DOMAIN d.ranks = {} /\ Cardinality({}) = 0
    BY <1>2, <1>2a, <1>3, OneEntry, FS_EmptySet
  <2>2. ChromeDocument(d) = None
    BY <1>1, <2>1
  <2> QED
    BY <1>3, <2>2 DEF d
<1>4. CASE streams # NoStreams
  <2>1. DOMAIN d.ranks = {rank} /\ Cardinality({rank}) = 1
    <3>1. d.ranks = Only(rank, b)
      BY <1>2, <1>2a, <1>4, OneEntry
    <3>2. DOMAIN Only(rank, b) = {rank}
      BY DEF Only
    <3> QED
      BY <3>1, <3>2, FS_Singleton
  <2>2. only = rank
    BY <2>1
  <2>3. start = t /\ meta = StoredRecords(metadata) /\ kept = b
    <3>1. Get(d.startTs, rank) = Some(t) /\ Get(d.metadata, rank) = Some(StoredRecords(metadata))
      BY <1>2 DEF Get, Only
    <3>2. d.ranks[rank] = b
      BY <1>2, <1>2a, <1>4, OneEntry
    <3> HIDE DEF only
    <3> QED
      BY <2>2, <3>1, <3>2, Options
  <2> HIDE DEF only, start, kept, meta
  <2> QED
    BY <1>1, <1>4, <2>1, <2>2, <2>3 DEF d, b
<1> QED
  BY <1>3, <1>4

\* A written document is one the readers take, and its events are those written.
LEMMA WrittenFacts ==
  ASSUME NEW rank, NEW metadata, SoundRecords(metadata), NEW t \in Int64,
         NEW events, events \in Seq(ToSet(events)), \A i \in DOMAIN events : SoundEvent(events[i])
  PROVE  LET arr == WrittenArray(metadata, events, t)
             document == WrittenDocument(rank, metadata, events, t)
         IN  /\ IsDocument(document) /\ Entry(document, "traceEvents") = Some([arr |-> arr])
             /\ Entry(document, "distributedInfo") = Some(Obj([rank |-> ChromeRank(rank)]))
             /\ arr \in Seq(ToSet(arr))
             /\ \A i \in DOMAIN arr : IsObject(arr[i])
             /\ EventTimes(arr) = TimesFrom(t, ToSet(events))
<1> DEFINE p == [i \in DOMAIN metadata |-> ChromeMetadata(metadata[i])]
           q == [i \in DOMAIN events |-> ChromeEvent(events[i], t)]
           arr == WrittenArray(metadata, events, t)
           document == WrittenDocument(rank, metadata, events, t)
           n == Len(metadata)
           m == Len(events)
           S == {p[i] : i \in 1..n} \cup {q[i] : i \in 1..m}
<1>1. n \in Nat /\ m \in Nat /\ DOMAIN metadata = 1..n /\ DOMAIN events = 1..m
  BY DEF SoundRecords
<1>2. p \in Seq(S) /\ q \in Seq(S) /\ Len(p) = n /\ Len(q) = m
  <2>1. \A i \in 1..n : p[i] \in S
    OBVIOUS
  <2>2. \A i \in 1..m : q[i] \in S
    OBVIOUS
  <2>3. p = [i \in 1..n |-> p[i]] /\ q = [i \in 1..m |-> q[i]]
    BY <1>1
  <2> HIDE DEF p, q, S, n, m
  <2> QED
    BY <1>1, <2>1, <2>2, <2>3, ListIsSequence
<1>3. \A i \in 1..n : /\ p[i] = ChromeMetadata(metadata[i])
                      /\ IsObject(p[i]) /\ NumericFields(p[i].obj) /\ IsMetadata(p[i].obj)
  BY <1>1, MetadataWritten DEF SoundRecords
<1>4. \A i \in 1..m : /\ IsObject(q[i]) /\ NumericFields(q[i].obj) /\ ~IsMetadata(q[i].obj)
                      /\ q[i].obj["ts"].int = events[i].ts + t
  BY <1>1, EventWritten
<1>5. arr = p \o q
  BY DEF WrittenArray
<1> HIDE DEF p, q, S, n, m, arr
<1>6. /\ arr \in Seq(S) /\ DOMAIN arr = 1..(n + m)
      /\ \A i \in 1..n : arr[i] = p[i]
      /\ \A i \in 1..m : n + i \in 1..(n + m) /\ arr[n + i] = q[i]
  BY <1>1, <1>2, <1>5
<1>7. \A i \in DOMAIN arr : i \in 1..n \/ \E j \in 1..m : i = n + j
  <2> SUFFICES ASSUME NEW i \in 1..(n + m), i \notin 1..n PROVE i - n \in 1..m /\ i = n + (i - n)
    BY <1>6
  <2> QED
    BY <1>1
<1>8. \A i \in DOMAIN arr : IsObject(arr[i]) /\ NumericFields(arr[i].obj)
  BY <1>3, <1>4, <1>6, <1>7
<1>9. EventTimes(arr) = TimesFrom(t, ToSet(events))
  <2>1. ASSUME NEW i \in DOMAIN arr, ~IsMetadata(arr[i].obj)
        PROVE  \E j \in DOMAIN events : arr[i].obj["ts"].int = events[j].ts + t
    <3>1. i \notin 1..n
      BY <1>3, <1>6, <2>1
    <3>2. PICK j \in 1..m : i = n + j
      BY <1>7, <3>1
    <3>3. arr[i] = q[j]
      BY <1>6, <3>2
    <3> QED
      BY <1>1, <1>4, <3>2, <3>3
  <2>2. ASSUME NEW j \in DOMAIN events
        PROVE  \E i \in DOMAIN arr : ~IsMetadata(arr[i].obj) /\ arr[i].obj["ts"].int = events[j].ts + t
    <3>1. n + j \in DOMAIN arr /\ arr[n + j] = q[j]
      BY <1>1, <1>6
    <3> QED
      BY <1>1, <1>4, <3>1
  <2>3. TimesFrom(t, ToSet(events)) = {events[i].ts + t : i \in DOMAIN events}
    BY DEF TimesFrom, ToSet
  <2> QED
    BY <2>1, <2>2, <2>3 DEF EventTimes
<1>10. arr \in Seq(ToSet(arr))
  BY <1>6, OwnElements
<1> DEFINE info == Obj([rank |-> ChromeRank(rank)])
           list == [arr |-> arr]
<1>11. document = <<[key |-> "distributedInfo", value |-> info], [key |-> "traceEvents", value |-> list]>>
  BY DEF WrittenDocument, arr
<1>12. Is(info, "obj") /\ ~Is(info, "arr") /\ list.arr = arr
  BY DEF Obj, Is
<1> HIDE DEF info, list, document
<1>13. /\ DOMAIN document = {1, 2} /\ document \in Seq(ToSet(document))
       /\ document[1].key = "distributedInfo" /\ document[1].value = info
       /\ document[2].key = "traceEvents" /\ document[2].value = list
  <2> DEFINE a == [key |-> "distributedInfo", value |-> info]
             b == [key |-> "traceEvents", value |-> list]
  <2>1. document = <<a, b>>
    BY <1>11
  <2>2. a.key = "distributedInfo" /\ a.value = info /\ b.key = "traceEvents" /\ b.value = list
    OBVIOUS
  <2> HIDE DEF a, b
  <2>3. document \in Seq({a, b}) /\ DOMAIN document = {1, 2} /\ document[1] = a /\ document[2] = b
    BY <2>1
  <2> QED
    BY <2>2, <2>3, OwnElements
<1>14. IsDocument(document)
  <2>1. \A i, j \in DOMAIN document : document[i].key = document[j].key => i = j
    BY <1>13
  <2>2. \A k \in DOMAIN arr : IsObject(arr[k]) => \A f \in DOMAIN arr[k].obj : IsNumeric(arr[k].obj[f])
    BY <1>8 DEF NumericFields
  <2>3. \A i \in DOMAIN document :
          Is(document[i].value, "arr") =>
            /\ document[i].value.arr \in Seq(ToSet(document[i].value.arr))
            /\ \A k \in DOMAIN document[i].value.arr :
                 IsObject(document[i].value.arr[k]) =>
                   \A f \in DOMAIN document[i].value.arr[k].obj :
                     IsNumeric(document[i].value.arr[k].obj[f])
    BY <1>10, <1>12, <1>13, <2>2
  <2> QED
    BY <1>13, <2>1, <2>3 DEF IsDocument
<1>15. Entry(document, "traceEvents") = Some(list)
  <2>1. 2 \in DOMAIN document /\ document[2].key = "traceEvents" /\ document[2].value = list
    BY <1>13
  <2> QED
    BY <1>14, <2>1, EntryFacts
<1>16. Entry(document, "distributedInfo") = Some(info)
  <2>1. 1 \in DOMAIN document /\ document[1].key = "distributedInfo" /\ document[1].value = info
    BY <1>13
  <2> QED
    BY <1>14, <2>1, EntryFacts
<1> QED
  BY <1>8, <1>9, <1>10, <1>14, <1>15, <1>16 DEF document, arr, list, info

-----------------------------------------------------------------------------
(* The commands.  Every trace they handle is sound, or was decompressed of  *)
(* the compression of a sound one.                                          *)

SoundInput(tr) == \E rank, streams, metadata, t : SoundTrace(tr, rank, streams, metadata, t)

\* The trace `verify` without an artifact compares a trace with.
InMemory(tr) == Decompressed(Compressed(tr))

\* It has the metadata as they are.
LEMMA InMemoryOf ==
  ASSUME NEW rank, NEW streams, SoundStreams(streams), NEW metadata, NEW t, NEW tr,
         tr = Trace(rank, streams, metadata, t)
  PROVE  /\ InMemory(tr).ok = TRUE
         /\ InMemory(tr).ranks = Kept(rank, BuiltStreams(streams))
         /\ InMemory(tr).startTs = Only(rank, t)
         /\ InMemory(tr).metadata = Only(rank, metadata)
<1> DEFINE c == Compressed(tr)
           b == BuiltStreams(streams)
<1>1. c = [ranks |-> [r \in {rank} |-> streams], startTs |-> [r \in {rank} |-> t],
           metadata |-> [r \in {rank} |-> metadata]]
  BY DEF Compressed, Trace
<1>2. InMemory(tr) = Decompressed(c)
  BY DEF InMemory
<1>3. b = NoStreams <=> streams = NoStreams
  BY BuiltAreSound
<1> HIDE DEF c, b
<1>4. [r \in {r \in DOMAIN c.ranks : c.ranks[r] # NoStreams} |-> BuiltStreams(c.ranks[r])]
        = [r \in {r \in {rank} : b # NoStreams} |-> b]
  BY <1>1, <1>3 DEF b
<1> QED
  BY <1>1, <1>2, <1>4 DEF Decompressed, Kept, Only, b

\* An event of sound streams is sound.
LEMMA EventsAreSound ==
  ASSUME NEW streams, SoundStreams(streams), NEW e \in EventsOf(streams)
  PROVE  SoundEvent(e)
<1>1. PICK k \in DOMAIN streams : e \in ToSet(streams[k])
  BY DEF EventsOf
<1>2. PICK i \in DOMAIN streams[k] : e = streams[k][i]
  BY <1>1 DEF ToSet
<1> QED
  BY <1>1, <1>2 DEF SoundStreams

\* A trace with the streams of a sound rank, or none, is one verify takes.
LEMMA OneRankIsValue ==
  ASSUME NEW tr, NEW rank, NEW streams, SoundStreams(streams), tr.ok = TRUE,
         tr.ranks = Only(rank, streams) \/ tr.ranks = Kept(rank, streams),
         NEW m, tr.metadata = Only(rank, m)
  PROVE  IsTraceValue(tr)
<1>1. DOMAIN tr.ranks \subseteq {rank} /\ \A r \in DOMAIN tr.ranks : tr.ranks[r] = streams
  BY DEF Only, Kept
<1>2. IsFiniteSet(DOMAIN tr.ranks)
  BY <1>1, FS_Singleton, FS_Subset
<1>3. IsFiniteSet(DOMAIN streams) /\ \A k \in DOMAIN streams : streams[k] \in Seq(ToSet(streams[k]))
  BY DEF SoundStreams
<1>4. tr.metadata = [r \in DOMAIN tr.metadata |-> tr.metadata[r]]
  BY DEF Only
<1>5. \A r \in DOMAIN tr.ranks :
        /\ IsFiniteSet(DOMAIN tr.ranks[r])
        /\ \A k \in DOMAIN tr.ranks[r] : tr.ranks[r][k] \in Seq(ToSet(tr.ranks[r][k]))
  BY <1>1, <1>3
<1> QED
  BY <1>2, <1>4, <1>5 DEF IsTraceValue

\* The traces verify is called on.
LEMMA SoundIsValue ==
  ASSUME NEW tr, SoundInput(tr)
  PROVE  IsTraceValue(tr) /\ IsTraceValue(Reconstruction(tr)) /\ IsTraceValue(InMemory(tr))
<1>1. PICK rank, streams, metadata, t : SoundTrace(tr, rank, streams, metadata, t)
  BY DEF SoundInput
<1>2. tr = Trace(rank, streams, metadata, t) /\ SoundStreams(streams)
  BY <1>1 DEF SoundTrace
<1> DEFINE b == BuiltStreams(streams)
<1>2a. SoundStreams(b)
  BY <1>2, BuiltAreSound
<1>3. IsTraceValue(tr)
  <2>1. tr.ok = TRUE /\ tr.ranks = Only(rank, streams) /\ tr.metadata = Only(rank, metadata)
    BY <1>2 DEF Trace, Only
  <2> QED
    BY <1>2, <2>1, OneRankIsValue
<1>4. IsTraceValue(Reconstruction(tr))
  <2> DEFINE d == Reconstruction(tr)
             m == StoredRecords(metadata)
  <2>1. d.ok = TRUE /\ d.ranks = Kept(rank, b) /\ d.metadata = Only(rank, m)
    BY <1>2, ReconstructionOf
  <2> HIDE DEF d, m, b
  <2>2. IsTraceValue(d)
    BY <1>2a, <2>1, OneRankIsValue
  <2> QED
    BY <2>2 DEF d
<1>5. IsTraceValue(InMemory(tr))
  <2> DEFINE d == InMemory(tr)
  <2>1. d.ok = TRUE /\ d.ranks = Kept(rank, b) /\ d.metadata = Only(rank, metadata)
    BY <1>2, InMemoryOf
  <2> HIDE DEF d, b
  <2>2. IsTraceValue(d)
    BY <1>2a, <2>1, OneRankIsValue
  <2> QED
    BY <2>2 DEF d
<1> QED
  BY <1>3, <1>4, <1>5

\* What from_file hands over.
LEMMA FromFileIsSound ==
  ASSUME readers \in [Files -> Readers], NEW file \in DOMAIN docs, IsDocument(docs[file])
  PROVE  FromFile(file).ok \in BOOLEAN /\ (FromFile(file).ok => SoundInput(FromFile(file)))
<1> DEFINE d == docs[file]
           tr == FromFile(file)
<1>1. tr \in {SimdRead(d, Stem), StreamRead(d, Stem)}
  BY DEF FromFile
<1> HIDE DEF tr, d
<1>2. IsDocument(d)
  BY DEF d
<1>3. tr.ok \in BOOLEAN /\ (tr.ok => \E rank, streams, metadata, t : SoundTrace(tr, rank, streams, metadata, t))
  BY <1>1, <1>2, ReadersAreSound
<1> QED
  BY <1>3 DEF SoundInput, tr

\* What decompress writes of the artifact of a sound trace: a document with every event
\* of the trace at its origin plus the timestamp it was kept with.
LEMMA RestoredFacts ==
  ASSUME NEW tr, NEW rank, NEW streams, NEW metadata, NEW t,
         SoundTrace(tr, rank, streams, metadata, t),
         NEW document, ChromeDocument(Reconstruction(tr)) = Some(document)
  PROVE  /\ IsDocument(document)
         /\ \A e \in EventsOf(streams) : e.ts + t \in Int64
         /\ LET arr == Entry(document, "traceEvents")[1].arr IN
            EventTimes(arr) = TimesFrom(t, EventsOf(streams))
<1> DEFINE b == BuiltStreams(streams)
           events == EventList(b)
           m == StoredRecords(metadata)
           w == WrittenArray(m, events, t)
<1>1. /\ tr = Trace(rank, streams, metadata, t) /\ SoundStreams(streams)
      /\ SoundRecords(metadata) /\ t \in Int64
  BY DEF SoundTrace
<1>2. Some(document) # None /\ Some(document)[1] = document
  BY Options
<1>3. /\ \A i \in DOMAIN events : events[i].ts + t \in Int64
      /\ Some(document) = Some(WrittenDocument(rank, m, events, t))
  BY <1>1, <1>2, DocumentOf
<1>4. document = WrittenDocument(rank, m, events, t)
  BY <1>3 DEF Some
<1>4a. SoundStreams(b) /\ EventsOf(b) = {Built(e) : e \in EventsOf(streams)}
  BY <1>1, BuiltAreSound
<1>4b. \A e \in EventsOf(streams) : Built(e).ts = e.ts
  BY <1>1, EventsAreSound, BuiltEvent
<1> HIDE DEF b
<1>5. events \in Seq(EventsOf(b)) /\ ToSet(events) = EventsOf(b)
  BY <1>4a, EventListLaws
<1>6. SoundRecords(m)
  BY <1>1, StoredIsSound
<1>7. \A e \in EventsOf(b) : SoundEvent(e)
  BY <1>4a, EventsAreSound
<1> HIDE DEF events, m, w
<1>8. events \in Seq(ToSet(events)) /\ \A i \in DOMAIN events : SoundEvent(events[i])
  BY <1>5, <1>7
<1>9. /\ IsDocument(document) /\ Entry(document, "traceEvents") = Some([arr |-> w])
      /\ EventTimes(w) = TimesFrom(t, ToSet(events))
  BY <1>1, <1>4, <1>6, <1>8, WrittenFacts DEF w
<1>10. Entry(document, "traceEvents")[1].arr = w
  BY <1>9, Options
<1>11. \A e \in EventsOf(streams) : e.ts + t \in Int64
  <2>1. \A e \in EventsOf(streams) : \E i \in DOMAIN events : events[i] = Built(e)
    BY <1>4a, <1>5 DEF ToSet
  <2> QED
    BY <1>3, <1>4b, <2>1
<1>12. TimesFrom(t, EventsOf(b)) = TimesFrom(t, EventsOf(streams))
  BY <1>4a, <1>4b DEF TimesFrom
<1> QED
  BY <1>5, <1>9, <1>10, <1>11, <1>12

\* The verification under way.
Verifying ==
  \E file \in DOMAIN docs, against \in {"artifact", "itself"} :
    /\ verifying = Some([file |-> file, against |-> against])
    /\ original = FromFile(file) /\ original.ok
    /\ reconstructed = IF against = "artifact" THEN Reconstruction(Input) ELSE InMemory(original)
    /\ against = "artifact" => artifact # None

\* The invariant of the command line: the artifact is that of the input, the restored
\* document is the one decompress writes of it, and a failed decompress fails again.
RoundTripInv ==
  /\ readers \in [Files -> Readers]
  /\ DOMAIN docs \in {Files, Files \ {"restored"}}
  /\ \A f \in DOMAIN docs : IsDocument(docs[f])
  /\ failure \in BOOLEAN
  /\ artifact # None => Input.ok /\ artifact = Some(Stored(Compressed(Input)))
  /\ Restored => /\ artifact # None
                 /\ ChromeDocument(Reconstruction(Input)) = Some(docs["restored"])
  /\ failure => artifact # None /\ ChromeDocument(Reconstruction(Input)) = None
  /\ verifying = None => NotComparing
  /\ verifying # None => ComparingInv /\ Verifying

\* The input file is always there.
LEMMA InputThere == RoundTripInv => "trace" \in DOMAIN docs
BY DEF RoundTripInv, Files

\* What from_file returns of a file, in terms of the two variables it reads.
LEMMA InputIsSound ==
  ASSUME RoundTripInv, artifact # None
  PROVE  SoundInput(Input) /\ artifact[1] = Stored(Compressed(Input))
<1>1. SoundInput(Input)
  BY InputThere, FromFileIsSound DEF RoundTripInv, Input
<1> QED
  BY <1>1, Options DEF RoundTripInv

\* At first there is neither an artifact nor a restored file, and nothing is compared.
LEMMA StartsRoundTrip == RoundTripInit => RoundTripInv
<1> SUFFICES ASSUME RoundTripInit PROVE RoundTripInv
  OBVIOUS
<1>1. PICK pair \in Inputs : docs = [trace |-> pair[1], other |-> pair[2]]
  BY DEF RoundTripInit
<1>2. DOMAIN docs = {"trace", "other"} /\ docs["trace"] = pair[1] /\ docs["other"] = pair[2]
  BY <1>1
<1>3. DOMAIN docs = Files \ {"restored"} /\ ~Restored
  BY <1>2 DEF Files, Restored
<1>4. \A f \in DOMAIN docs : IsDocument(docs[f])
  BY <1>2, InputAssumption
<1>5. NotComparing
  BY DEF RoundTripInit, VerifyInit, NotComparing
<1> QED
  BY <1>3, <1>4, <1>5 DEF RoundTripInit, RoundTripInv

\* compress_file.
LEMMA CompressStep == RoundTripInv /\ Compress => RoundTripInv'
<1> SUFFICES ASSUME RoundTripInv, Compress PROVE RoundTripInv'
  OBVIOUS
<1>1. /\ verifying = None /\ artifact = None
      /\ Input.ok /\ artifact' = Some(Stored(Compressed(Input)))
      /\ UNCHANGED <<docs, readers, failure, verifying, verifyVars>>
  BY DEF Compress, Input
<1>2. Input' = Input /\ (Restored' <=> Restored) /\ (NotComparing' <=> NotComparing)
  BY <1>1 DEF Input, FromFile, Restored, NotComparing, verifyVars
<1>3. ~Restored /\ ~failure
  BY <1>1 DEF RoundTripInv
<1> QED
  BY <1>1, <1>2, <1>3 DEF RoundTripInv

\* decompress_file.
LEMMA DecompressStep == RoundTripInv /\ Decompress => RoundTripInv'
<1> SUFFICES ASSUME RoundTripInv, Decompress PROVE RoundTripInv'
  OBVIOUS
<1> DEFINE written == ChromeDocument(Reconstruction(Input))
<1>1. /\ verifying = None /\ artifact # None /\ "restored" \notin DOMAIN docs
      /\ UNCHANGED <<readers, artifact, verifying, verifyVars>>
  BY DEF Decompress
<1>2. SoundInput(Input) /\ artifact[1] = Stored(Compressed(Input))
  BY <1>1, InputIsSound
<1>3. \/ written = None /\ failure' = TRUE /\ docs' = docs
      \/ written # None /\ docs' = Put(docs, "restored", written[1]) /\ failure' = failure
  BY <1>2 DEF Decompress, Reconstruction
<1>4. NotComparing' <=> NotComparing
  BY <1>1 DEF NotComparing, verifyVars
<1> HIDE DEF written
<1>5. CASE written = None /\ failure' = TRUE /\ docs' = docs
  <2>1. Input' = Input /\ (Restored' <=> Restored)
    BY <1>1, <1>5 DEF Input, FromFile, Restored
  <2> QED
    BY <1>1, <1>4, <1>5, <2>1 DEF RoundTripInv, written
<1>6. CASE written # None /\ docs' = Put(docs, "restored", written[1]) /\ failure' = failure
  <2>1. /\ DOMAIN docs' = DOMAIN docs \cup {"restored"} /\ docs'["restored"] = written[1]
        /\ \A f \in DOMAIN docs : docs'[f] = docs[f]
    BY <1>1, <1>6 DEF Put
  <2>2. DOMAIN docs' = Files
    BY <1>1, <2>1 DEF RoundTripInv, Files
  <2>3. Input' = Input
    BY <1>1, <2>1, InputThere DEF Input, FromFile
  <2>4. written = Some(written[1])
    <3>1. written = None \/ \E x : written = Some(x)
      BY DEF written, ChromeDocument
    <3> QED
      BY <1>6, <3>1, Options
  <2>5. IsDocument(written[1])
    <3>1. PICK rank, streams, metadata, t : SoundTrace(Input, rank, streams, metadata, t)
      BY <1>2 DEF SoundInput
    <3> DEFINE document == written[1]
    <3>2. ChromeDocument(Reconstruction(Input)) = Some(document)
      BY <2>4 DEF written
    <3> HIDE DEF document
    <3>3. IsDocument(document)
      BY <3>1, <3>2, RestoredFacts
    <3> QED
      BY <3>3 DEF document
  <2>6. \A f \in DOMAIN docs' : IsDocument(docs'[f])
    BY <2>1, <2>5 DEF RoundTripInv
  <2>7. ~failure
    BY <1>6 DEF RoundTripInv, written
  <2>8. ChromeDocument(Reconstruction(Input))' = Some(docs["restored"]')
    BY <2>1, <2>3, <2>4 DEF written
  <2> QED
    BY <1>1, <1>4, <1>6, <2>2, <2>3, <2>6, <2>7, <2>8 DEF RoundTripInv, Restored
<1> QED
  BY <1>3, <1>5, <1>6

\* verify_file: compare_traces is called on two traces.
LEMMA VerifyFileCalls ==
  ASSUME RoundTripInv, NEW file \in Files, NEW against \in {"artifact", "itself"},
         VerifyFile(file, against)
  PROVE  /\ Called /\ verifying' # None /\ ComparingInv'
         /\ original' = FromFile(file) /\ original'.ok
         /\ reconstructed' = IF against = "artifact" THEN Reconstruction(Input)
                             ELSE InMemory(original')
<1> DEFINE input == FromFile(file)
           against1 == IF against = "artifact" THEN artifact[1] ELSE Compressed(input)
<1>1. /\ verifying = None /\ file \in DOMAIN docs /\ (against = "artifact" => artifact # None)
      /\ input.ok /\ CompareTraces(input, Decompressed(against1))
      /\ verifying' = Some([file |-> file, against |-> against])
      /\ UNCHANGED <<docs, readers, artifact, failure>>
  BY DEF VerifyFile
<1>2. SoundInput(input)
  BY <1>1, FromFileIsSound DEF RoundTripInv
<1>3. /\ against = "artifact" => SoundInput(Input) /\ Decompressed(against1) = Reconstruction(Input)
      /\ against # "artifact" => Decompressed(against1) = InMemory(input)
  BY <1>1, InputIsSound DEF Reconstruction, InMemory
<1> HIDE DEF input, against1
<1>4. IsTraceValue(input) /\ IsTraceValue(Decompressed(against1))
  BY <1>2, <1>3, SoundIsValue
<1>5. /\ original' = input /\ reconstructed' = Decompressed(against1)
      /\ UNCHANGED <<pending, report, verdict>>
  BY <1>1 DEF CompareTraces
<1>6. NotComparing /\ NoTrace.ok = FALSE
  BY <1>1 DEF RoundTripInv, NoTrace
<1>7. Called
  BY <1>1, <1>4, <1>6 DEF Called, NotComparing
<1>8. ComparingInv'
  BY <1>4, <1>5, <1>6 DEF ComparingInv, NotComparing
<1>9. verifying' # None
  BY <1>1, Options
<1> QED
  BY <1>1, <1>3, <1>5, <1>7, <1>8, <1>9 DEF input

\* verify_file.
LEMMA VerifyFileStep ==
  ASSUME RoundTripInv, NEW file \in Files, NEW against \in {"artifact", "itself"},
         VerifyFile(file, against)
  PROVE  RoundTripInv'
<1>1. /\ file \in DOMAIN docs /\ (against = "artifact" => artifact # None)
      /\ verifying' = Some([file |-> file, against |-> against])
      /\ UNCHANGED <<docs, readers, artifact, failure>>
  BY DEF VerifyFile
<1>2. /\ verifying' # None /\ ComparingInv'
      /\ original' = FromFile(file) /\ original'.ok
      /\ reconstructed' = IF against = "artifact" THEN Reconstruction(Input)
                          ELSE InMemory(original')
  BY VerifyFileCalls
<1>3. Input' = Input /\ (Restored' <=> Restored) /\ \A f : FromFile(f)' = FromFile(f)
  BY <1>1 DEF Input, FromFile, Restored
<1>4. Verifying'
  BY <1>1, <1>2, <1>3 DEF Verifying
<1> QED
  BY <1>1, <1>2, <1>3, <1>4 DEF RoundTripInv

\* A step of compare_traces leaves the traces alone.
LEMMA ComparisonStep == RoundTripInv /\ Comparison => RoundTripInv'
<1> SUFFICES ASSUME RoundTripInv, Comparison PROVE RoundTripInv'
  OBVIOUS
<1>1. VerifyStep /\ UNCHANGED <<docs, readers, artifact, failure, verifying>>
  BY DEF Comparison, fileVars
<1>2. original.ok /\ UNCHANGED <<original, reconstructed>>
  BY <1>1 DEF VerifyStep, ListStreams, CompareStream, CompareMetadata, Comparing
<1>3. NoTrace.ok = FALSE
  BY DEF NoTrace
<1>4. verifying # None /\ ComparingInv /\ Verifying
  BY <1>2, <1>3 DEF RoundTripInv, NotComparing
<1>5. VerifyInv'
  BY <1>1, <1>4, NextVerify DEF VerifyInv, VerifyNext
<1>6. ComparingInv'
  BY <1>2, <1>3, <1>5 DEF VerifyInv, NotComparing
<1>7. Input' = Input /\ (Restored' <=> Restored) /\ \A f : FromFile(f)' = FromFile(f)
  BY <1>1 DEF Input, FromFile, Restored
<1>8. Verifying'
  BY <1>1, <1>2, <1>4, <1>7 DEF Verifying
<1> QED
  BY <1>1, <1>4, <1>6, <1>7, <1>8 DEF RoundTripInv

\* compare_traces has returned.
LEMMA VerifyReturnsStep == RoundTripInv /\ VerifyReturns => RoundTripInv'
<1> SUFFICES ASSUME RoundTripInv, VerifyReturns PROVE RoundTripInv'
  OBVIOUS
<1>1. /\ Returned /\ verifying' = None /\ UNCHANGED <<docs, readers, artifact, failure>>
  BY DEF VerifyReturns
<1>2. NotComparing'
  BY <1>1 DEF Returned, NotComparing
<1>3. Input' = Input /\ (Restored' <=> Restored)
  BY <1>1 DEF Input, FromFile, Restored
<1> QED
  BY <1>1, <1>2, <1>3 DEF RoundTripInv

\* Every command keeps the invariant.
LEMMA NextRoundTrip == RoundTripInv /\ [RoundTripNext]_roundTripVars => RoundTripInv'
<1> SUFFICES ASSUME RoundTripInv, [RoundTripNext]_roundTripVars PROVE RoundTripInv'
  OBVIOUS
<1>1. CASE Compress
  BY <1>1, CompressStep
<1>2. CASE Decompress
  BY <1>2, DecompressStep
<1>3. CASE Comparison
  BY <1>3, ComparisonStep
<1>4. CASE VerifyReturns
  BY <1>4, VerifyReturnsStep
<1>5. ASSUME NEW file \in Files, NEW against \in {"artifact", "itself"}, VerifyFile(file, against)
      PROVE  RoundTripInv'
  BY <1>5, VerifyFileStep
<1>6. CASE UNCHANGED roundTripVars
  <2>1. UNCHANGED <<docs, readers, artifact, failure, verifying>> /\ UNCHANGED verifyVars
    BY <1>6 DEF roundTripVars, fileVars
  <2>2. Input' = Input /\ (Restored' <=> Restored) /\ \A f : FromFile(f)' = FromFile(f)
    BY <2>1 DEF Input, FromFile, Restored
  <2>3. /\ NotComparing' <=> NotComparing
        /\ ComparingInv' <=> ComparingInv
    BY <2>1 DEF verifyVars, NotComparing, ComparingInv, Listed, OrigStreams, ReconStreams, IsOk
  <2>4. Verifying' <=> Verifying
    BY <2>1, <2>2 DEF Verifying, verifyVars
  <2> QED
    BY <2>1, <2>2, <2>3, <2>4 DEF RoundTripInv
<1> QED
  BY <1>1, <1>2, <1>3, <1>4, <1>5, <1>6 DEF RoundTripNext

\* The artifact's inductive invariant holds of every run of commands.
THEOREM RoundTripInvariant == RoundTripSpec => []RoundTripInv
<1> QED
  BY StartsRoundTrip, NextRoundTrip, PTL DEF RoundTripSpec

\* The comparison's invariant gives its type invariant.
LEMMA ComparingTypes ==
  ASSUME VerifyInv
  PROVE  VerifyTypeOK
<1>1. CASE NotComparing
  <2>1. original.ok = FALSE /\ reconstructed.ok = FALSE /\ pending = None /\ verdict = None
    BY <1>1 DEF NotComparing, NoTrace
  <2>2. report.matching = 0 /\ report.mismatched = 0 /\ report.metadata = {}
    BY <1>1 DEF NotComparing, EmptyReport
  <2> QED
    BY <2>1, <2>2 DEF VerifyTypeOK
<1>2. CASE ComparingInv
  <2>1. original.ok = TRUE
    BY <1>2 DEF ComparingInv, IsTraceValue
  <2>2. CASE pending = None /\ report = EmptyReport /\ verdict = None
    <3>1. report.matching = 0 /\ report.mismatched = 0 /\ report.metadata = {}
      BY <2>2 DEF EmptyReport
    <3> QED
      BY <2>1, <2>2, <3>1 DEF VerifyTypeOK
  <2>3. ASSUME NEW P, Listed(P) PROVE VerifyTypeOK
    <3> DEFINE C == Common(original, reconstructed)
               m == Matches(original, reconstructed)
               s == Surpluses(original, reconstructed)
               done == C \ P
    <3>1. /\ pending = Some(P) /\ P \in SUBSET C
          /\ report.matching = SumFunctionOnSet(m, done)
          /\ report.mismatched = SumFunctionOnSet(s, done)
      BY <2>3 DEF Listed
    <3>2. IsFiniteSet(C) /\ (\A k \in C : m[k] \in Nat) /\ \A k \in C : s[k] \in Nat
      BY <1>2, CommonFacts DEF ComparingInv
    <3>3. done \in SUBSET C
      OBVIOUS
    <3>4. C \subseteq DOMAIN OrigStreams
      BY DEF Common, OrigStreams
    <3>5. \/ verdict = None /\ report.metadata = {}
          \/ /\ verdict = Some(IsOk(report))
             /\ report.metadata = DifferingMetadata(original, reconstructed)
      BY <2>3 DEF Listed
    <3>6. verdict # None => verdict[1] \in BOOLEAN
      BY <3>5, Options DEF IsOk
    <3>7. report.metadata \subseteq DOMAIN original.metadata \cup DOMAIN reconstructed.metadata
      BY <3>5 DEF DifferingMetadata
    <3> HIDE DEF C, m, s, done
    <3>8. report.matching \in Nat /\ report.mismatched \in Nat
      BY <3>1, <3>2, <3>3, SumLaws
    <3>9. pending # None => pending[1] \subseteq DOMAIN OrigStreams
      BY <3>1, <3>4, Options
    <3> QED
      BY <2>1, <3>6, <3>7, <3>8, <3>9 DEF VerifyTypeOK
  <2> QED
    BY <1>2, <2>2, <2>3 DEF ComparingInv
<1> QED
  BY <1>1, <1>2 DEF VerifyInv

\* The invariant of the commands includes that of the comparison.
LEMMA CommandsCompare == RoundTripInv => VerifyInv
BY DEF RoundTripInv, VerifyInv

\* The state of the commands is well-formed: a comparison runs just while a verify
\* does, and the artifact has an origin for every rank.
THEOREM RoundTripTypes == RoundTripSpec => []RoundTripTypeOK
<1>1. RoundTripInv => RoundTripTypeOK
  <2> SUFFICES ASSUME RoundTripInv PROVE RoundTripTypeOK
    OBVIOUS
  <2>1. VerifyTypeOK
    BY CommandsCompare, ComparingTypes
  <2>2. verifying # None <=> original.ok
    <3>1. NoTrace.ok = FALSE
      BY DEF NoTrace
    <3>2. verifying = None => ~original.ok
      BY <3>1 DEF RoundTripInv, NotComparing
    <3>3. verifying # None => original.ok
      BY DEF RoundTripInv, Verifying
    <3> QED
      BY <3>2, <3>3
  <2>3. artifact # None => DOMAIN artifact[1].ranks = DOMAIN artifact[1].startTs
    <3> SUFFICES ASSUME artifact # None PROVE DOMAIN artifact[1].ranks = DOMAIN artifact[1].startTs
      OBVIOUS
    <3>1. SoundInput(Input) /\ artifact[1] = Stored(Compressed(Input))
      BY InputIsSound
    <3>2. PICK rank, streams, metadata, t : SoundTrace(Input, rank, streams, metadata, t)
      BY <3>1 DEF SoundInput
    <3>3. DOMAIN Input.ranks = {rank} /\ DOMAIN Input.startTs = {rank}
      BY <3>2 DEF SoundTrace, Trace
    <3> DEFINE a == Stored(Compressed(Input))
    <3>4. a.ranks = Input.ranks /\ a.startTs = Input.startTs
      BY DEF Stored, Compressed
    <3> QED
      BY <3>1, <3>3, <3>4
  <2> QED
    BY <2>1, <2>2, <2>3 DEF RoundTripTypeOK, RoundTripInv
<1> QED
  BY <1>1, RoundTripInvariant, PTL

\* The commands verify as compare_traces does: every `verify` calls it on two traces
\* of the kind it is defined on, and every other command leaves it alone.
THEOREM CommandsVerify == RoundTripSpec => VerifySpec
<1>1. RoundTripInit => VerifyInit
  BY DEF RoundTripInit
<1>2. RoundTripInv /\ [RoundTripNext]_roundTripVars => [VerifyNext]_verifyVars
  <2> SUFFICES ASSUME RoundTripInv, [RoundTripNext]_roundTripVars PROVE [VerifyNext]_verifyVars
    OBVIOUS
  <2>1. CASE Compress
    BY <2>1 DEF Compress
  <2>2. CASE Decompress
    BY <2>2 DEF Decompress
  <2>3. CASE Comparison
    BY <2>3 DEF Comparison, VerifyNext
  <2>4. CASE VerifyReturns
    BY <2>4 DEF VerifyReturns, VerifyNext
  <2>5. ASSUME NEW file \in Files, NEW against \in {"artifact", "itself"}, VerifyFile(file, against)
        PROVE  Called
    BY <2>5, VerifyFileCalls
  <2>6. CASE UNCHANGED roundTripVars
    BY <2>6 DEF roundTripVars
  <2> QED
    BY <2>1, <2>2, <2>3, <2>4, <2>5, <2>6 DEF RoundTripNext, VerifyNext
<1> QED
  BY <1>1, <1>2, RoundTripInvariant, PTL DEF RoundTripSpec, VerifySpec

\* Hence no `verify` leaves an event of either trace uncounted.
THEOREM CommandsCount == RoundTripSpec => []EveryEventCounted
BY CommandsVerify, EventsCounted, PTL

\* Nor is its verdict wrong, where fingerprints tell the events apart.
THEOREM CommandsJudge ==
  RoundTripSpec => [](verdict # None /\ Faithful => (verdict[1] <=> ObservedContent))
BY CommandsVerify, VerdictIsExact, PTL

-----------------------------------------------------------------------------
(* What verify never says.                                                  *)

\* Two traces pass if they have the same metadata and, position by position, streams of
\* events that read the same, whatever fingerprints tell apart.
LEMMA SameFingerprintsPass ==
  ASSUME ComparingInv, verdict # None, original.metadata = reconstructed.metadata,
         DOMAIN OrigStreams = DOMAIN ReconStreams,
         \A key \in DOMAIN OrigStreams :
           /\ Len(OrigStreams[key]) = Len(ReconStreams[key])
           /\ \A i \in DOMAIN OrigStreams[key] :
                Fingerprint(OrigStreams[key][i]) = Fingerprint(ReconStreams[key][i])
  PROVE  verdict = Some(TRUE)
<1>1. IsTraceValue(original) /\ IsTraceValue(reconstructed)
  BY DEF ComparingInv
<1>2. ASSUME NEW key \in Common(original, reconstructed)
      PROVE  Surpluses(original, reconstructed)[key] = 0
  <2> DEFINE p == CollectStreams(original)[key]
             q == CollectStreams(reconstructed)[key]
             E == StreamEvents(original) \cup StreamEvents(reconstructed)
  <2>1. p \in Seq(E) /\ q \in Seq(E)
    BY <1>1, CommonFacts
  <2>2. Surpluses(original, reconstructed)[key] = SurplusOf(p, q)
    BY DEF Surpluses
  <2>3. Len(p) = Len(q) /\ \A i \in DOMAIN p : Fingerprint(p[i]) = Fingerprint(q[i])
    BY DEF Common, OrigStreams, ReconStreams
  <2> HIDE DEF p, q, E
  <2>4. DOMAIN p = DOMAIN q
    BY <2>1, <2>3
  <2>5. \A fp : Count(p, fp) = Count(q, fp)
    BY <2>3, <2>4 DEF Count
  <2>6. SurplusOf(p, q) = 0
    BY <2>1, <2>5, StreamsCompared
  <2> QED
    BY <2>2, <2>6
<1>3. EventCount(original) = EventCount(reconstructed)
  <2> DEFINE f == [key \in DOMAIN OrigStreams |-> Len(OrigStreams[key])]
             g == [key \in DOMAIN ReconStreams |-> Len(ReconStreams[key])]
  <2>1. /\ EventCount(original) = SumFunction(f)
        /\ EventCount(reconstructed) = SumFunction(g)
    BY <1>1, Collected DEF OrigStreams, ReconStreams
  <2>2. f = g
    OBVIOUS
  <2> QED
    BY <2>1, <2>2
<1>4. verdict[1]
  BY <1>2, <1>3, VerdictInParts
<1>5. PICK P : Listed(P)
  BY DEF ComparingInv
<1>6. verdict = Some(IsOk(report))
  BY <1>5 DEF Listed
<1> QED
  BY <1>4, <1>6, Options DEF IsOk

\* CollectStreams reads the ranks of a trace only.
CollectOf(ranks) ==
  LET coords == UNION {{<<rank, k>> : k \in DOMAIN ranks[rank]} : rank \in DOMAIN ranks}
      Under(key) == {c \in coords : StreamKey(c[1], c[2]) = key}
  IN  [key \in {StreamKey(c[1], c[2]) : c \in coords} |->
         FoldSet(LAMBDA c, events : events \o ranks[c[1]][c[2]], <<>>, Under(key))]

\* It skips a rank without streams.
LEMMA EmptyRankCollected ==
  ASSUME NEW a, NEW b, NEW rank, NEW streams,
         a.ranks = Only(rank, streams), b.ranks = Kept(rank, streams)
  PROVE  CollectStreams(a) = CollectStreams(b)
<1>1. \A tr : CollectStreams(tr) = CollectOf(tr.ranks)
  BY DEF CollectStreams, CollectOf
<1>2. CASE streams # NoStreams
  <2>1. a.ranks = b.ranks
    BY <1>2, OneEntry
  <2> QED
    BY <1>1, <2>1
<1>3. CASE streams = NoStreams
  <2>1. \A ranks : (\A r \in DOMAIN ranks : ranks[r] = NoStreams) => CollectOf(ranks) = NoStreams
    <3> SUFFICES ASSUME NEW ranks, \A r \in DOMAIN ranks : ranks[r] = NoStreams
                 PROVE  CollectOf(ranks) = NoStreams
      OBVIOUS
    <3> DEFINE coords == UNION {{<<r, k>> : k \in DOMAIN ranks[r]} : r \in DOMAIN ranks}
               Under(key) == {c \in coords : StreamKey(c[1], c[2]) = key}
               f == CollectOf(ranks)
    <3>1. DOMAIN NoStreams = {}
      BY DEF NoStreams
    <3>2. coords = {}
      BY <3>1
    <3>3. /\ DOMAIN f = {StreamKey(c[1], c[2]) : c \in coords}
          /\ f = [key \in DOMAIN f |-> f[key]]
      BY DEF CollectOf
    <3> HIDE DEF coords, f
    <3>4. DOMAIN f = {}
      BY <3>2, <3>3
    <3>5. f = [key \in {} |-> f[key]]
      BY <3>3, <3>4
    <3>6. NoStreams = [key \in {} |-> f[key]]
      BY DEF NoStreams
    <3> QED
      BY <3>5, <3>6 DEF f
  <2>2. \A r \in DOMAIN a.ranks : a.ranks[r] = NoStreams
    BY <1>3 DEF Only
  <2>3. \A r \in DOMAIN b.ranks : b.ranks[r] = NoStreams
    BY <1>3 DEF Kept
  <2> QED
    BY <1>1, <2>1, <2>2, <2>3
<1> QED
  BY <1>2, <1>3

\* Streams without empty arguments are joined to a list without them.
LEMMA ConcatBuilt ==
  ASSUME NEW tr, NEW br, IsTraceValue(tr), IsTraceValue(br), Coords(br) = Coords(tr),
         \A c \in Coords(tr) : At(br)[c] = BuiltList(At(tr)[c]),
         NEW C \in SUBSET Coords(tr)
  PROVE  Concat(br, C) = BuiltList(Concat(tr, C)) /\ Concat(tr, C) \in Seq(StreamEvents(tr))
<1> DEFINE E == StreamEvents(tr)
<1>1. PICK f : ConcatFold(f, tr, C)
  BY ConcatFolded
<1>2. PICK g : ConcatFold(g, br, C)
  BY ConcatFolded
<1>3. IsFiniteSet(C) /\ \A c \in C : At(tr)[c] \in Seq(E)
  BY CoordsFinite, FS_Subset
<1> DEFINE P == {T \in SUBSET C : f[T] \in Seq(E) /\ g[T] = BuiltList(f[T])}
<1> HIDE DEF E
<1>4. ASSUME NEW T \in SUBSET C, \A x \in T : T \ {x} \in P PROVE T \in P
  <2>1. CASE T = {}
    <3>1. f[T] = <<>> /\ g[T] = <<>>
      BY <1>1, <1>2, <2>1 DEF ConcatFold
    <3>2. BuiltList(<<>>) = <<>> /\ <<>> \in Seq(E)
      BY DEF BuiltList
    <3> QED
      BY <3>1, <3>2
  <2>2. CASE T # {}
    <3> DEFINE x == Chosen(T)
               p == f[T \ {x}]
               q == At(tr)[x]
    <3>1. x \in T
      BY <2>2 DEF Chosen
    <3>2. f[T] = p \o q /\ g[T] = g[T \ {x}] \o At(br)[x]
      BY <1>1, <1>2, <2>2 DEF ConcatFold
    <3> HIDE DEF x
    <3>3. p \in Seq(E) /\ g[T \ {x}] = BuiltList(p)
      BY <1>4, <3>1
    <3>4. q \in Seq(E) /\ At(br)[x] = BuiltList(q)
      BY <1>3, <3>1
    <3> HIDE DEF p, q
    <3>5. BuiltList(p \o q) = BuiltList(p) \o BuiltList(q)
      BY <3>3, <3>4, BuiltJoin
    <3>6. p \o q \in Seq(E)
      BY <3>3, <3>4, TwoSequences
    <3> QED
      BY <3>2, <3>3, <3>4, <3>5, <3>6
  <2> QED
    BY <2>1, <2>2
<1>5. C \in P
  <2> HIDE DEF P
  <2>1. Inductive(C, P)
    BY <1>4 DEF Inductive
  <2> QED
    BY <1>3, <2>1, FiniteInduction
<1> QED
  BY <1>1, <1>2, <1>5 DEF ConcatFold, E

\* What is collected of a rank, and of that rank without empty arguments.
LEMMA BuiltCollected ==
  ASSUME NEW a, NEW b, IsTraceValue(a), IsTraceValue(b), NEW rank, NEW streams,
         SoundStreams(streams), a.ranks = Only(rank, streams),
         b.ranks = Only(rank, BuiltStreams(streams))
  PROVE  /\ DOMAIN CollectStreams(b) = DOMAIN CollectStreams(a)
         /\ \A key \in DOMAIN CollectStreams(a) :
              /\ CollectStreams(a)[key] \in Seq(StreamEvents(a))
              /\ CollectStreams(b)[key] = BuiltList(CollectStreams(a)[key])
<1> DEFINE C == Coords(a)
           K == {StreamKey(c[1], c[2]) : c \in C}
           Under(key) == {c \in C : StreamKey(c[1], c[2]) = key}
           bs == BuiltStreams(streams)
<1>1. DOMAIN bs = DOMAIN streams /\ \A k \in DOMAIN streams : bs[k] = BuiltList(streams[k])
  BY BuiltAreSound
<1> HIDE DEF bs
<1>2. Coords(b) = C
  BY <1>1 DEF Coords, Only, bs
<1>3. ASSUME NEW c \in C PROVE At(b)[c] = BuiltList(At(a)[c])
  <2>1. PICK k \in DOMAIN streams : c = <<rank, k>>
    BY DEF Coords, Only
  <2>2. At(a)[c] = streams[k]
    BY <2>1 DEF At, Only
  <2>3. At(b)[c] = bs[k]
    BY <1>2, <2>1 DEF At, Only, bs
  <2> QED
    BY <1>1, <2>2, <2>3
<1>4. /\ CollectStreams(a) = [key \in K |-> Concat(a, Under(key))]
      /\ CollectStreams(b) = [key \in K |-> Concat(b, Under(key))]
  <2>1. CollectStreams(a) = [key \in K |-> Concat(a, Under(key))]
    BY DEF CollectStreams, Concat, Coords
  <2>2. CollectStreams(b) = [key \in {StreamKey(c[1], c[2]) : c \in Coords(b)} |->
                               Concat(b, {c \in Coords(b) : StreamKey(c[1], c[2]) = key})]
    BY DEF CollectStreams, Concat, Coords
  <2> HIDE DEF C
  <2> QED
    BY <1>2, <2>1, <2>2
<1> HIDE DEF C
<1>5. \A key \in K : /\ Concat(b, Under(key)) = BuiltList(Concat(a, Under(key)))
                     /\ Concat(a, Under(key)) \in Seq(StreamEvents(a))
  <2> SUFFICES ASSUME NEW key \in K
               PROVE  /\ Concat(b, Under(key)) = BuiltList(Concat(a, Under(key)))
                      /\ Concat(a, Under(key)) \in Seq(StreamEvents(a))
    OBVIOUS
  <2> DEFINE U == Under(key)
  <2>1. U \in SUBSET Coords(a)
    BY DEF C
  <2> HIDE DEF U
  <2>2. Coords(b) = Coords(a) /\ \A c \in Coords(a) : At(b)[c] = BuiltList(At(a)[c])
    BY <1>2, <1>3 DEF C
  <2>3. Concat(b, U) = BuiltList(Concat(a, U)) /\ Concat(a, U) \in Seq(StreamEvents(a))
    BY <2>1, <2>2, ConcatBuilt
  <2> QED
    BY <2>3 DEF U
<1> HIDE DEF K
<1> QED
  BY <1>4, <1>5

\* The trace as an artifact gives it back: without empty arguments.
Plain(tr) == [tr EXCEPT !.ranks = [r \in DOMAIN @ |-> BuiltStreams(@[r])]]

\* It is one that a reader returns as well.
LEMMA PlainIsSound ==
  ASSUME NEW rank, NEW streams, NEW metadata, NEW t, NEW tr, SoundTrace(tr, rank, streams, metadata, t)
  PROVE  /\ Plain(tr) = Trace(rank, BuiltStreams(streams), metadata, t)
         /\ SoundTrace(Plain(tr), rank, BuiltStreams(streams), metadata, t)
<1> DEFINE b == BuiltStreams(streams)
<1>1. /\ tr = Trace(rank, streams, metadata, t) /\ SoundStreams(streams)
      /\ SoundRecords(metadata) /\ t \in Int64 /\ Based(streams, t)
  BY DEF SoundTrace
<1>2. SoundStreams(b) /\ EventsOf(b) = {Built(e) : e \in EventsOf(streams)}
  BY <1>1, BuiltAreSound
<1>3. \A e \in EventsOf(streams) : Built(e).ts = e.ts
  BY <1>1, EventsAreSound, BuiltEvent
<1> HIDE DEF b
<1>4. Based(b, t)
  BY <1>1, <1>2, <1>3 DEF Based
<1>5. Plain(tr) = Trace(rank, b, metadata, t)
  <2>1. [r \in DOMAIN tr.ranks |-> BuiltStreams(tr.ranks[r])] = [r \in {rank} |-> b]
    BY <1>1 DEF Trace, b
  <2>2. Plain(tr) = [tr EXCEPT !.ranks = [r \in {rank} |-> b]]
    BY <2>1 DEF Plain
  <2> QED
    BY <1>1, <2>2 DEF Trace
<1> QED
  BY <1>1, <1>2, <1>4, <1>5 DEF SoundTrace, b

\* Of a trace, of its compression in memory and of its artifact, streams with the same
\* events are collected, empty arguments aside; of the trace without them, the same ones.
LEMMA SoundCollected ==
  ASSUME NEW tr, SoundInput(tr), NEW d \in {InMemory(tr), Reconstruction(tr)}
  PROVE  /\ CollectStreams(Plain(tr)) = CollectStreams(d)
         /\ DOMAIN CollectStreams(d) = DOMAIN CollectStreams(tr)
         /\ \A key \in DOMAIN CollectStreams(tr) :
              /\ CollectStreams(tr)[key] \in Seq(StreamEvents(tr))
              /\ CollectStreams(d)[key] = BuiltList(CollectStreams(tr)[key])
<1>1. PICK rank, streams, metadata, t : SoundTrace(tr, rank, streams, metadata, t)
  BY DEF SoundInput
<1>2. tr = Trace(rank, streams, metadata, t) /\ SoundStreams(streams)
  BY <1>1 DEF SoundTrace
<1> DEFINE b == BuiltStreams(streams)
           br == Plain(tr)
<1>3. br = Trace(rank, b, metadata, t) /\ SoundInput(br)
  BY <1>1, PlainIsSound DEF SoundInput
<1>4. tr.ranks = Only(rank, streams) /\ br.ranks = Only(rank, b)
  BY <1>2, <1>3 DEF Trace, Only
<1>5. d.ranks = Kept(rank, b)
  <2>1. InMemory(tr).ranks = Kept(rank, b)
    BY <1>2, InMemoryOf
  <2>2. Reconstruction(tr).ranks = Kept(rank, b)
    BY <1>2, ReconstructionOf
  <2> QED
    BY <2>1, <2>2
<1>6. IsTraceValue(tr) /\ IsTraceValue(br)
  BY <1>3, SoundIsValue
<1>7. CollectStreams(br) = CollectStreams(d)
  <2> HIDE DEF br, b
  <2> QED
    BY <1>4, <1>5, EmptyRankCollected
<1>8. /\ DOMAIN CollectStreams(br) = DOMAIN CollectStreams(tr)
      /\ \A key \in DOMAIN CollectStreams(tr) :
           /\ CollectStreams(tr)[key] \in Seq(StreamEvents(tr))
           /\ CollectStreams(br)[key] = BuiltList(CollectStreams(tr)[key])
  <2> HIDE DEF br
  <2> QED
    BY <1>2, <1>4, <1>6, BuiltCollected
<1> QED
  BY <1>7, <1>8

-----------------------------------------------------------------------------
(* The restored file.                                                       *)

\* The one rank of a trace that was read, its events and its origin.
LEMMA OneRankOf ==
  ASSUME NEW rank, NEW streams, NEW metadata, NEW t, NEW tr, tr = Trace(rank, streams, metadata, t)
  PROVE  /\ RankOf1(tr) = rank /\ AllEvents(tr) = EventsOf(streams)
         /\ tr.startTs[rank] = t /\ tr.metadata[rank] = metadata
<1>1. /\ DOMAIN tr.ranks = {rank} /\ tr.ranks[rank] = streams
      /\ tr.startTs[rank] = t /\ tr.metadata[rank] = metadata
  BY DEF Trace
<1>2. RankOf1(tr) = rank
  BY <1>1 DEF RankOf1
<1> QED
  BY <1>1, <1>2 DEF AllEvents

\* A restored file holds the timestamps of the input and no others.
THEOREM TimesKept == RoundTripSpec => []TimesAreInputTimes
<1>1. ASSUME RoundTripInv, Restored PROVE WrittenTimes = Absolute(Input)
  <2>1. SoundInput(Input) /\ ChromeDocument(Reconstruction(Input)) = Some(docs["restored"])
    BY <1>1, InputIsSound DEF RoundTripInv
  <2> DEFINE tr == Input
             document == docs["restored"]
  <2>2. PICK rank, streams, metadata, t : SoundTrace(tr, rank, streams, metadata, t)
    BY <2>1 DEF SoundInput
  <2>3. WrittenTimes = EventTimes(Entry(document, "traceEvents")[1].arr)
    BY DEF WrittenTimes, EventTimes
  <2>4. Absolute(tr) = {Wrap64(e.ts + tr.startTs[RankOf1(tr)]) : e \in AllEvents(tr)}
    BY DEF Absolute
  <2>5. ChromeDocument(Reconstruction(tr)) = Some(document)
    BY <2>1
  <2> HIDE DEF tr, document
  <2>6. /\ \A e \in EventsOf(streams) : e.ts + t \in Int64
        /\ WrittenTimes = TimesFrom(t, EventsOf(streams))
    BY <2>2, <2>3, <2>5, RestoredFacts
  <2>7. tr.startTs[RankOf1(tr)] = t /\ AllEvents(tr) = EventsOf(streams)
    BY <2>2, OneRankOf DEF SoundTrace
  <2>8. \A e \in EventsOf(streams) : Wrap64(e.ts + t) = e.ts + t
    BY <2>6, Wrapped
  <2>9. Absolute(tr) = TimesFrom(t, EventsOf(streams))
    BY <2>4, <2>7, <2>8 DEF TimesFrom
  <2> QED
    BY <2>6, <2>9 DEF tr
<1>2. RoundTripInv => TimesAreInputTimes
  BY <1>1 DEF TimesAreInputTimes
<1> QED
  BY <1>2, RoundTripInvariant, PTL

\* A difference of two i64 that did not turn negative on wrapping did not wrap.
LEMMA NotWrapped ==
  ASSUME NEW a \in Int64, NEW t \in Int64, t <= a, Wrap64(a - t) >= 0
  PROVE  Wrap64(a - t) = a - t
<1> DEFINE m == MaxInt64 + 1
           d == a - t
<1>1. m \in Nat /\ m > 0 /\ d \in 0..(2 * m - 1)
  BY MaxInt64Assumption DEF Int64
<1>2. Wrap64(d) = ((d + m) % (2 * m)) - m
  <2>1. d + MaxInt64 + 1 = d + m
    BY <1>1, MaxInt64Assumption
  <2> HIDE DEF d
  <2>2. Wrap64(d) = ((d + MaxInt64 + 1) % (2 * m)) - m
    BY DEF Wrap64
  <2> QED
    BY <2>1, <2>2
<1>3. CASE d < m
  <2>1. d \in Int64
    BY <1>1, <1>3, MaxInt64Assumption DEF Int64
  <2> QED
    BY <2>1, Wrapped
<1>4. CASE d >= m
  <2>1. d + m = 2 * m + (d - m) /\ d - m \in 0..(2 * m - 1) /\ d - m < m
    BY <1>1, <1>4
  <2> HIDE DEF m, d
  <2>2. (d + m) % (2 * m) = d - m
    BY <1>1, <2>1
  <2> QED
    BY <1>1, <1>2, <2>1, <2>2 DEF d
<1> QED
  BY <1>1, <1>3, <1>4

\* Of a supported trace every event is written: its timestamp at the origin is that of
\* the input.
LEMMA SupportedTimes ==
  ASSUME NEW tr, NEW rank, NEW streams, NEW metadata, NEW t,
         SoundTrace(tr, rank, streams, metadata, t), Supported(tr)
  PROVE  /\ streams # NoStreams
         /\ \A e \in EventsOf(streams) : e.ts >= 0 /\ e.ts + t \in Int64
<1>1. /\ AllEvents(tr) = EventsOf(streams) /\ AllEvents(tr) # {}
      /\ \A e \in AllEvents(tr) : e.ts >= 0
  BY OneRankOf DEF SoundTrace, Supported
<1>2. streams # NoStreams
  <2>1. EventsOf(NoStreams) = {}
    BY NoStreamsType DEF EventsOf
  <2> QED
    BY <1>1, <2>1
<1>3. ASSUME NEW e \in EventsOf(streams) PROVE e.ts + t \in Int64
  <2>1. t \in Int64 /\ \E a \in Int64 : t <= a /\ e.ts = Wrap64(a - t)
    BY DEF SoundTrace, Based
  <2>2. PICK a \in Int64 : t <= a /\ e.ts = Wrap64(a - t)
    BY <2>1
  <2>3. e.ts = a - t
    BY <1>1, <2>1, <2>2, NotWrapped
  <2> QED
    BY <2>1, <2>2, <2>3 DEF Int64
<1> QED
  BY <1>1, <1>2, <1>3

\* Dropping empty arguments leaves it supported.
LEMMA PlainIsSupported ==
  ASSUME NEW tr, NEW rank, NEW streams, NEW metadata, NEW t,
         SoundTrace(tr, rank, streams, metadata, t), Supported(tr)
  PROVE  Supported(Plain(tr))
<1> DEFINE p == Plain(tr)
           E == EventsOf(streams)
           B == EventsOf(BuiltStreams(streams))
<1>1. tr = Trace(rank, streams, metadata, t) /\ p = Trace(rank, BuiltStreams(streams), metadata, t)
  BY PlainIsSound DEF SoundTrace
<1>2. /\ RankOf1(tr) = rank /\ AllEvents(tr) = E /\ tr.startTs[rank] = t /\ tr.metadata[rank] = metadata
      /\ RankOf1(p) = rank /\ AllEvents(p) = B /\ p.startTs[rank] = t /\ p.metadata[rank] = metadata
  <2> HIDE DEF p, E, B
  <2> QED
    BY <1>1, OneRankOf DEF E, B
<1>3. B = {Built(e) : e \in E}
  BY BuiltAreSound DEF SoundTrace
<1>4. \A e \in E : /\ Built(e).ts = e.ts /\ Built(e).cat = e.cat
                   /\ StreamInArgs(Built(e).args) = StreamInArgs(e.args)
  BY EventsAreSound, BuiltEvent DEF SoundTrace
<1> HIDE DEF p, E, B
<1>5. /\ E # {} /\ (\E e \in E : e.ts + t # MaxInt64) /\ (\A e \in E : e.ts >= 0)
      /\ ParseI64(rank) # None => rank = Text(ParseI64(rank)[1])
      /\ \A i \in DOMAIN metadata : metadata[i].args # None => IsObject(metadata[i].args[1])
      /\ \A e \in E : e.cat = Some(<<"gpu_user_annotation">>) => StreamInArgs(e.args) # None
  BY <1>2 DEF Supported
<1>6. /\ B # {} /\ (\E e \in B : e.ts + t # MaxInt64) /\ (\A e \in B : e.ts >= 0)
      /\ \A e \in B : e.cat = Some(<<"gpu_user_annotation">>) => StreamInArgs(e.args) # None
  BY <1>3, <1>4, <1>5
<1> QED
  BY <1>2, <1>5, <1>6 DEF Supported, p

\* Its decompression succeeds.
LEMMA SupportedDocument ==
  ASSUME NEW tr, NEW rank, NEW streams, NEW metadata, NEW t,
         SoundTrace(tr, rank, streams, metadata, t), Supported(tr)
  PROVE  ChromeDocument(Reconstruction(tr)) =
           Some(WrittenDocument(rank, StoredRecords(metadata), EventList(BuiltStreams(streams)), t))
<1>1. tr = Trace(rank, streams, metadata, t) /\ SoundStreams(streams)
  BY DEF SoundTrace
<1> DEFINE b == BuiltStreams(streams)
           events == EventList(b)
<1>2. SoundStreams(b) /\ (b = NoStreams <=> streams = NoStreams)
  BY <1>1, BuiltAreSound
<1>3. SoundTrace(Plain(tr), rank, b, metadata, t)
  BY PlainIsSound
<1> HIDE DEF b
<1>4. b # NoStreams /\ \A e \in EventsOf(b) : e.ts + t \in Int64
  BY <1>3, PlainIsSupported, SupportedTimes
<1>5. events \in Seq(EventsOf(b))
  BY <1>2, EventListLaws
<1>6. \A i \in DOMAIN events : events[i].ts + t \in Int64
  <2> HIDE DEF events
  <2> QED
    BY <1>4, <1>5
<1> QED
  BY <1>1, <1>2, <1>4, <1>6, DocumentOf DEF b

-----------------------------------------------------------------------------
(* Reading a restored file.  Whichever reader it gets, the streams of a      *)
(* supported trace come back as they were.                                   *)

\* Staging areas whose events are the same once shifted fill the same streams.
LEMMA SamePushes ==
  ASSUME NEW s1, s1 \in Seq(ToSet(s1)), NEW s2, s2 \in Seq(ToSet(s2)), Len(s1) = Len(s2),
         NEW t1, NEW t2, \A i \in 1..Len(s1) : Shifted(s1[i], t1) = Shifted(s2[i], t2)
  PROVE  PushAll(s1, t1) = PushAll(s2, t2)
<1> DEFINE n == Len(s1)
           S == {k \in 0..n : PushAll(Prefix(s1, k), t1) = PushAll(Prefix(s2, k), t2)}
<1>1. n \in Nat /\ n \in 0..n
  OBVIOUS
<1>2. 0 \in S
  BY <1>1, PrefixLaws, PushAllLaws
<1>3. ASSUME NEW k \in 0..n, k \in S, k < n PROVE k + 1 \in S
  <2>1. PushAll(Prefix(s1, k + 1), t1) = Push(PushAll(Prefix(s1, k), t1), Shifted(s1[k + 1], t1))
    BY <1>3, PrefixTurns
  <2>2. PushAll(Prefix(s2, k + 1), t2) = Push(PushAll(Prefix(s2, k), t2), Shifted(s2[k + 1], t2))
    BY <1>3, PrefixTurns
  <2>3. k + 1 \in 1..n
    BY <1>1, <1>3
  <2> QED
    BY <1>1, <1>3, <2>1, <2>2, <2>3
<1> HIDE DEF S
<1>4. n \in S
  BY <1>1, <1>2, <1>3, PrefixInduction
<1> QED
  BY <1>4, PrefixLaws DEF S

\* Pushing onto a stream that is not there, and onto one that is.
LEMMA PushPut ==
  ASSUME NEW f, NEW key, key \notin DOMAIN f, NEW e, KeyOf(e) = key
  PROVE  /\ Push(f, e) = Put(f, key, Append(<<>>, e))
         /\ \A q : Push(Put(f, key, q), e) = Put(f, key, Append(q, e))
<1>1. Push(f, e) = Put(f, key, Append(<<>>, e))
  <2>1. UnwrapOr(Get(f, key), <<>>) = <<>>
    BY Options DEF Get
  <2> QED
    BY <2>1 DEF Push, Put
<1>2. ASSUME NEW q PROVE Push(Put(f, key, q), e) = Put(f, key, Append(q, e))
  <2> DEFINE g == Put(f, key, q)
  <2>1. /\ DOMAIN g = DOMAIN f \cup {key} /\ g[key] = q
        /\ \A k \in DOMAIN f : g[k] = f[k]
    BY DEF Put
  <2> HIDE DEF g
  <2>2. UnwrapOr(Get(g, key), <<>>) = q
    BY <2>1, Options DEF Get
  <2>3. Push(g, e) = Put(f, key, Append(q, e))
    BY <2>1, <2>2 DEF Push, Put
  <2> QED
    BY <2>3 DEF g
<1> QED
  BY <1>1, <1>2

\* One more stream, pushed event by event, is one more stream.
LEMMA PushedStream ==
  ASSUME NEW E, \A e \in E : Shifted(e, 0) = e,
         NEW base \in Seq(E), NEW q \in Seq(E), q # <<>>, NEW key,
         \A i \in DOMAIN q : KeyOf(q[i]) = key, key \notin DOMAIN PushAll(base, 0)
  PROVE  PushAll(base \o q, 0) = Put(PushAll(base, 0), key, q)
<1> DEFINE f == PushAll(base, 0)
           n == Len(q)
           S == {k \in 0..n : PushAll(base \o Prefix(q, k), 0)
                                = IF k = 0 THEN f ELSE Put(f, key, Prefix(q, k))}
<1>1. n \in Nat /\ n # 0 /\ n \in 0..n /\ DOMAIN q = 1..n
  OBVIOUS
<1>2. q \in Seq(ToSet(q))
  BY OwnElements
<1>3. 0 \in S
  <2>1. Prefix(q, 0) = <<>> /\ base \o <<>> = base
    BY <1>2, PrefixLaws
  <2>2. base \o Prefix(q, 0) = base
    BY <2>1
  <2>3. PushAll(base \o Prefix(q, 0), 0) = f
    BY <2>2
  <2> HIDE DEF f
  <2> QED
    BY <1>1, <2>3
<1>4. ASSUME NEW k \in 0..n, k \in S, k < n PROVE k + 1 \in S
  <2> DEFINE p == Prefix(q, k)
             e == q[k + 1]
             b == base \o p
  <2>1. Prefix(q, k + 1) = Append(p, e) /\ (k = 0 => p = <<>>)
    BY <1>2, <1>4, PrefixLaws
  <2>2. p \in Seq(E) /\ e \in E /\ KeyOf(e) = key /\ k + 1 # 0 /\ k + 1 \in 0..n
    BY <1>1, <1>4 DEF Prefix
  <2>3. PushAll(b, 0) = IF k = 0 THEN f ELSE Put(f, key, p)
    BY <1>4
  <2>3a. key \notin DOMAIN f
    OBVIOUS
  <2> HIDE DEF p, e, f
  <2>3b. Push(f, e) = Put(f, key, Append(<<>>, e)) /\ Push(Put(f, key, p), e) = Put(f, key, Append(p, e))
    BY <2>2, <2>3a, PushPut
  <2>4. b \in Seq(E) /\ base \o Append(p, e) = Append(b, e)
    BY <2>2
  <2> HIDE DEF b
  <2>5. b \in Seq(ToSet(b))
    BY <2>4, OwnElements
  <2>6. PushAll(Append(b, e), 0) = Push(PushAll(b, 0), e)
    BY <2>2, <2>5, PushAllLaws
  <2>7. Push(PushAll(b, 0), e) = Put(f, key, Append(p, e))
    BY <2>1, <2>3, <2>3b
  <2>8. PushAll(base \o Prefix(q, k + 1), 0) = Put(f, key, Prefix(q, k + 1))
    BY <2>1, <2>4, <2>6, <2>7
  <2> QED
    BY <2>2, <2>8
<1> HIDE DEF S, f, n
<1>5. n \in S
  BY <1>1, <1>2, <1>3, <1>4, PrefixInduction DEF n
<1>6. Prefix(q, n) = q
  BY <1>2, PrefixLaws DEF n
<1> QED
  BY <1>1, <1>5, <1>6 DEF S, f

\* An event of sound streams is left alone by a shift of 0.
LEMMA SoundIsShiftable ==
  ASSUME NEW e, SoundEvent(e)
  PROVE  Shifted(e, 0) = e
<1>1. /\ e = [name |-> e.name, ts |-> e.ts, dur |-> e.dur, cat |-> e.cat, ph |-> e.ph,
              pid |-> e.pid, tid |-> e.tid, args |-> e.args]
      /\ e.ts \in Int64 /\ e.ts - 0 = e.ts
  BY DEF SoundEvent, Int64
<1>2. Shifted(e, 0) = [e EXCEPT !.ts = Wrap64(e.ts - 0)] /\ Wrap64(e.ts - 0) = e.ts
  BY <1>1, Wrapped DEF Shifted
<1> QED
  BY <1>1, <1>2

\* Pushing the events of streams, one stream after the other, fills the same streams.
LEMMA Refilled ==
  ASSUME NEW streams, SoundStreams(streams)
  PROVE  PushAll(EventList(streams), 0) = streams
<1> DEFINE D == DOMAIN streams
           E == EventsOf(streams)
           Of(T) == [k \in T |-> streams[k]]
<1>1. PICK iter : ListFold(iter, streams)
  BY EventListFold
<1>2. /\ IsFiniteSet(D) /\ streams = [k \in D |-> streams[k]]
      /\ \A e \in E : Shifted(e, 0) = e
  BY EventsAreSound, SoundIsShiftable DEF SoundStreams
<1>3. \A k \in D : /\ streams[k] \in Seq(E) /\ streams[k] # <<>>
                   /\ \A i \in DOMAIN streams[k] : KeyOf(streams[k][i]) = k
  <2> SUFFICES ASSUME NEW k \in D PROVE streams[k] \in Seq(E)
    BY DEF SoundStreams, WellKeyed
  <2> DEFINE q == streams[k]
             X == ToSet(q)
  <2>1. q \in Seq(X)
    BY DEF SoundStreams
  <2>2. X \subseteq E
    BY DEF EventsOf
  <2> HIDE DEF q, X, E
  <2>3. q \in Seq(E)
    BY <2>1, <2>2
  <2> QED
    BY <2>3 DEF q
<1> DEFINE P == {T \in SUBSET D : iter[T] \in Seq(E) /\ PushAll(iter[T], 0) = Of(T)}
<1> HIDE DEF E
<1>4. ASSUME NEW T \in SUBSET D, \A x \in T : T \ {x} \in P PROVE T \in P
  <2>1. CASE T = {}
    <3>1. iter[T] = <<>> /\ PushAll(<<>>, 0) = NoStreams
      BY <1>1, <2>1, PushAllLaws DEF ListFold
    <3>2. Of(T) = NoStreams /\ <<>> \in Seq(E)
      BY <2>1 DEF NoStreams
    <3> HIDE DEF Of
    <3>3. iter[T] \in Seq(E) /\ PushAll(iter[T], 0) = Of(T)
      BY <3>1, <3>2
    <3> QED
      BY <3>3
  <2>2. CASE T # {}
    <3>1. PICK x \in T : iter[T] = iter[T \ {x}] \o streams[x]
      BY <1>1, <2>2 DEF ListFold
    <3> DEFINE base == iter[T \ {x}]
               q == streams[x]
    <3>2. base \in Seq(E) /\ PushAll(base, 0) = Of(T \ {x})
      BY <1>4
    <3>3. q \in Seq(E) /\ q # <<>> /\ \A i \in DOMAIN q : KeyOf(q[i]) = x
      BY <1>3
    <3>4. Put(Of(T \ {x}), x, q) = Of(T)
      BY DEF Put
    <3>5. x \notin DOMAIN Of(T \ {x})
      OBVIOUS
    <3> HIDE DEF base, q, Of
    <3>6. PushAll(base \o q, 0) = Put(PushAll(base, 0), x, q)
      BY <1>2, <3>2, <3>3, <3>5, PushedStream
    <3>7. base \o q \in Seq(E)
      BY <3>2, <3>3
    <3> QED
      BY <3>1, <3>2, <3>4, <3>6, <3>7 DEF base, q
  <2> QED
    BY <2>1, <2>2
<1>5. D \in P
  <2> HIDE DEF P
  <2>1. Inductive(D, P)
    BY <1>4 DEF Inductive
  <2> QED
    BY <1>2, <2>1, FiniteInduction
<1> QED
  BY <1>1, <1>2, <1>5 DEF ListFold

\* A field that may be absent is read as it was written.
LEMMA GetPresent ==
  ASSUME NEW fields, NEW f \in DOMAIN fields, IsOption(fields[f])
  PROVE  Get(Present(fields), f) = fields[f]
<1>1. CASE fields[f] = None
  <2>1. f \notin DOMAIN Present(fields)
    BY <1>1, PresentFields
  <2> QED
    BY <1>1, <2>1 DEF Get
<1>2. CASE \E x : fields[f] = Some(x)
  <2>1. PICK x : fields[f] = Some(x)
    BY <1>2
  <2>2. fields[f] # None /\ fields[f][1] = x
    BY <2>1, Options
  <2>3. f \in DOMAIN Present(fields) /\ Present(fields)[f] = x
    BY <2>2 DEF Present
  <2> QED
    BY <2>1, <2>3 DEF Get
<1> QED
  BY <1>1, <1>2 DEF IsOption

\* Texts and numbers of 64 bits are read as they were written.
LEMMA ValuesReadBack ==
  /\ \A text : AsStr(Some(Str(text))) = Some(text)
  /\ \A n \in Int64 : AsI64(Some(Num(n))) = Some(n)
  /\ \A reader \in Readers : LossyI64(reader, None) = None
  /\ \A reader \in Readers, n \in Int64 : /\ LossyI64(reader, Some(Num(n))) = Some(n)
                                          /\ Pid(reader, Some(Num(n))) = n
  /\ \A reader \in Readers : \A text : RawTid(reader, Some(Str(text))) = text
<1>1. \A text : AsStr(Some(Str(text))) = Some(text)
  BY Options, WrittenValues DEF AsStr
<1>2. \A n \in Int64 : AsI64(Some(Num(n))) = Some(n)
  <2> SUFFICES ASSUME NEW n \in Int64 PROVE AsI64(Some(Num(n))) = Some(n)
    OBVIOUS
  <2>1. n \in Int
    BY DEF Int64
  <2> QED
    BY <2>1, Options, WrittenValues DEF AsI64
<1>3. \A reader \in Readers : LossyI64(reader, None) = None
  <2>1. SimdI64(None) = None /\ StreamI64(None) = None
    BY DEF SimdI64, StreamI64, AsI64, AsF64Truncated, OrElse
  <2> QED
    BY <2>1 DEF LossyI64, Readers
<1>4. ASSUME NEW n \in Int64 PROVE SimdI64(Some(Num(n))) = Some(n) /\ StreamI64(Some(Num(n))) = Some(n)
  <2>1. SimdI64(Some(Num(n))) = Some(n)
    BY <1>2, Options DEF SimdI64
  <2>2. n \in Int /\ Wrap64(n) = n
    BY Wrapped DEF Int64
  <2>3. StreamI64(Some(Num(n))) = Some(n)
    <3> DEFINE v == Num(n)
               opt == Some(v)
    <3>1. Is(v, "int") /\ v.int = n /\ opt # None /\ opt[1] = v
      BY <2>2, Options, WrittenValues
    <3>2. ~Is(v, "flt") /\ ~Is(v, "str") /\ ~Is(v, "bool")
      BY DEF Is, Num
    <3> HIDE DEF v, opt
    <3>3. StreamI64(opt) = Some(Wrap64(v.int))
      BY <3>1, <3>2 DEF StreamI64
    <3> QED
      BY <2>2, <3>1, <3>3 DEF v, opt
  <2> QED
    BY <2>1, <2>3
<1>5. \A reader \in Readers, n \in Int64 : LossyI64(reader, Some(Num(n))) = Some(n)
  BY <1>4 DEF LossyI64, Readers
<1>6. \A reader \in Readers, n \in Int64 : Pid(reader, Some(Num(n))) = n
  <2> SUFFICES ASSUME NEW reader \in Readers, NEW n \in Int64 PROVE Pid(reader, Some(Num(n))) = n
    OBVIOUS
  <2>1. CASE reader = "simd"
    <3>1. \A a : OrElse(SimdI64(Some(Num(n))), a) = Some(n)
      BY <1>4, Options
    <3> QED
      BY <2>1, <3>1, Options DEF Pid
  <2>2. CASE reader # "simd"
    BY <1>5, <2>2, Options DEF Pid
  <2> QED
    BY <2>1, <2>2
<1>7. ASSUME NEW reader \in Readers, NEW text PROVE RawTid(reader, Some(Str(text))) = text
  <2> DEFINE v == Str(text)
             opt == Some(v)
  <2>1. Is(v, "str") /\ v.str = text /\ opt # None /\ opt[1] = v
    BY Options, WrittenValues
  <2>2. ~Is(v, "int") /\ ~Is(v, "flt")
    BY DEF Is, Str
  <2> HIDE DEF v, opt
  <2>3. RawTid(reader, opt) = v.str
    BY <2>1, <2>2 DEF RawTid
  <2> QED
    BY <2>1, <2>3 DEF v, opt
<1> QED
  BY <1>1, <1>2, <1>3, <1>5, <1>6, <1>7

\* So are the optional fields.
LEMMA OptionsReadBack ==
  /\ \A reader \in Readers, opt \in Opt64 : LossyI64(reader, Tagged("int", opt)) = opt
  /\ \A opt : IsOption(opt) => /\ AsStr(Tagged("str", opt)) = opt
                               /\ Args(Tagged("obj", opt)) = opt
<1>1. \A x : /\ Tagged("int", Some(x)) = Some(Num(x)) /\ Tagged("str", Some(x)) = Some(Str(x))
             /\ Tagged("obj", Some(x)) = Some(Obj(x))
  <2>1. \A kind, x : Tagged(kind, Some(x)) = Some([k \in {kind} |-> x])
    BY DEF Tagged, Some
  <2>2. \A x : /\ [k \in {"int"} |-> x] = Num(x) /\ [k \in {"str"} |-> x] = Str(x)
               /\ [k \in {"obj"} |-> x] = Obj(x)
    BY DEF Num, Str, Obj
  <2> QED
    BY <2>1, <2>2
<1>2. \A kind : Tagged(kind, None) = None
  BY TaggedValues
<1>3. \A reader \in Readers, opt \in Opt64 : LossyI64(reader, Tagged("int", opt)) = opt
  BY <1>1, <1>2, ValuesReadBack DEF Opt64
<1>4. AsStr(None) = None /\ Args(None) = None
  BY DEF AsStr, Args
<1>5. \A x : AsStr(Some(Str(x))) = Some(x) /\ Args(Some(Obj(x))) = Some(x)
  <2>1. \A x : Args(Some(Obj(x))) = Some(x)
    BY Options, WrittenValues DEF Args
  <2> QED
    BY <2>1, ValuesReadBack
<1> QED
  BY <1>1, <1>2, <1>3, <1>4, <1>5 DEF IsOption

\* The lane of an event is where its written tid leads back to.
LEMMA LaneReadBack ==
  ASSUME NEW raw, NEW args, NEW cat, cat = Some(<<"gpu_user_annotation">>) => StreamInArgs(args) # None
  PROVE  Lane(Lane(raw, args, cat), args, cat) = Lane(raw, args, cat)
BY DEF Lane

\* The kinds of value the streaming reader takes.
LEMMA KindsTaken ==
  /\ \A f \in {"name", "ph", "cat", "tid"} : "str" \in Kinds(f)
  /\ \A f \in {"ts", "dur", "pid"} : "int" \in Kinds(f)
  /\ "obj" \in Kinds("args")
BY DEF Kinds

\* An event that was written is read as it was, with its absolute timestamp, and no reader
\* refuses it.
LEMMA EventReadBack ==
  ASSUME NEW e, SoundEvent(e), NEW t \in Int64, e.ts + t \in Int64, NEW reader \in Readers,
         e.cat = Some(<<"gpu_user_annotation">>) => StreamInArgs(e.args) # None
  PROVE  LET x == Event(reader, ChromeEvent(e, t).obj)
         IN  x.ts = e.ts + t /\ Shifted(x, t) = e /\ IsRawEvent(ChromeEvent(e, t))
<1> DEFINE fields == [name |-> Some(Str(e.name)), ts |-> Some(Num(e.ts + t)),
                      ph |-> Some(Str(<<e.ph>>)), pid |-> Some(Num(e.pid)),
                      tid |-> Some(Str(e.tid)), dur |-> Tagged("int", e.dur),
                      cat |-> Tagged("str", e.cat), args |-> Tagged("obj", e.args)]
           obj == Present(fields)
           x == Event(reader, obj)
<1>1. ChromeEvent(e, t).obj = obj /\ ChromeEvent(e, t) = Obj(obj)
  BY WrittenValues DEF ChromeEvent
<1>2. /\ DOMAIN fields = {"name", "ts", "ph", "pid", "tid", "dur", "cat", "args"}
      /\ fields["name"] = Some(Str(e.name)) /\ fields["ts"] = Some(Num(e.ts + t))
      /\ fields["ph"] = Some(Str(<<e.ph>>)) /\ fields["pid"] = Some(Num(e.pid))
      /\ fields["tid"] = Some(Str(e.tid)) /\ fields["dur"] = Tagged("int", e.dur)
      /\ fields["cat"] = Tagged("str", e.cat) /\ fields["args"] = Tagged("obj", e.args)
  OBVIOUS
<1> HIDE DEF fields
<1>3. /\ e.pid \in Int64 /\ e.ts \in Int64 /\ e.dur \in Opt64 /\ IsOption(e.cat) /\ IsOption(e.args)
      /\ \E raw : e.tid = Lane(raw, e.args, e.cat)
      /\ e = [name |-> e.name, ts |-> e.ts, dur |-> e.dur, cat |-> e.cat, ph |-> e.ph,
              pid |-> e.pid, tid |-> e.tid, args |-> e.args]
  BY DEF SoundEvent
<1>4. \A kind, opt : IsOption(opt) =>
        Tagged(kind, opt) = None \/ \E v : Tagged(kind, opt) = Some(v) /\ Is(v, kind)
  <2>1. \A kind, v : Tagged(kind, Some(v)) = Some([k \in {kind} |-> v])
    BY DEF Tagged, Some
  <2>2. \A kind, v : Is([k \in {kind} |-> v], kind)
    BY DEF Is
  <2>3. \A kind : Tagged(kind, None) = None
    BY TaggedValues
  <2>4. \A kind, v : \E u : Tagged(kind, Some(v)) = Some(u) /\ Is(u, kind)
    BY <2>1, <2>2
  <2> QED
    BY <2>3, <2>4 DEF IsOption
<1>5. IsOption(e.dur)
  BY <1>3 DEF Opt64, IsOption
<1>6. \A f \in DOMAIN fields : IsOption(fields[f])
  BY <1>2, <1>3, <1>4, <1>5 DEF IsOption
<1>7. /\ Get(obj, "name") = Some(Str(e.name)) /\ Get(obj, "ts") = Some(Num(e.ts + t))
      /\ Get(obj, "ph") = Some(Str(<<e.ph>>)) /\ Get(obj, "pid") = Some(Num(e.pid))
      /\ Get(obj, "tid") = Some(Str(e.tid)) /\ Get(obj, "dur") = Tagged("int", e.dur)
      /\ Get(obj, "cat") = Tagged("str", e.cat) /\ Get(obj, "args") = Tagged("obj", e.args)
  <2>1. \A f \in DOMAIN fields : Get(obj, f) = fields[f]
    BY <1>6, GetPresent
  <2> HIDE DEF obj
  <2> QED
    BY <1>2, <2>1
<1>8. /\ UnwrapOr(AsStr(Get(obj, "name")), <<>>) = e.name
      /\ UnwrapOr(LossyI64(reader, Get(obj, "ts")), 0) = e.ts + t
      /\ LossyI64(reader, Get(obj, "dur")) = e.dur
      /\ AsStr(Get(obj, "cat")) = e.cat /\ Args(Get(obj, "args")) = e.args
      /\ Phase(Get(obj, "ph")) = e.ph /\ Pid(reader, Get(obj, "pid")) = e.pid
      /\ RawTid(reader, Get(obj, "tid")) = e.tid
  <2> HIDE DEF obj
  <2> QED
    BY <1>3, <1>7, Options, ValuesReadBack, OptionsReadBack, PhaseOfText
<1>9. Lane(e.tid, e.args, e.cat) = e.tid
  BY <1>3, LaneReadBack
<1>10. x = [name |-> e.name, ts |-> e.ts + t, dur |-> e.dur, cat |-> e.cat, ph |-> e.ph,
            pid |-> e.pid, tid |-> e.tid, args |-> e.args]
  <2> HIDE DEF obj
  <2> QED
    BY <1>8, <1>9 DEF Event
<1>11. Shifted(x, t) = e
  <2>1. e.ts + t - t = e.ts /\ Wrap64(e.ts) = e.ts
    BY <1>3, Wrapped DEF Int64
  <2> HIDE DEF x
  <2>2. Shifted(x, t) = [x EXCEPT !.ts = Wrap64(x.ts - t)]
    BY DEF Shifted
  <2>3. Wrap64(x.ts - t) = e.ts
    <3>1. x.ts = e.ts + t
      BY <1>10
    <3>2. x.ts - t = e.ts
      BY <1>3, <3>1 DEF Int64
    <3> QED
      BY <2>1, <3>2
  <2>4. Shifted(x, t) = [name |-> e.name, ts |-> e.ts, dur |-> e.dur, cat |-> e.cat, ph |-> e.ph,
                         pid |-> e.pid, tid |-> e.tid, args |-> e.args]
    BY <1>10, <2>2, <2>3
  <2> QED
    BY <1>3, <2>4
<1>12. IsRawEvent(Obj(obj))
  <2>1. /\ DOMAIN obj \subseteq DOMAIN fields
        /\ \A f \in DOMAIN obj : fields[f] = Some(obj[f])
    <3>1. \A f \in DOMAIN obj : f \in DOMAIN fields /\ Get(obj, f) = Some(obj[f])
      BY DEF Present, Get
    <3>2. \A f \in DOMAIN fields : Get(obj, f) = fields[f]
      BY <1>6, GetPresent
    <3> HIDE DEF obj
    <3> QED
      BY <3>1, <3>2
  <2> HIDE DEF obj
  <2>2. \A u, v : Some(u) = Some(v) => u = v
    BY DEF Some
  <2>3. ASSUME NEW f \in DOMAIN obj PROVE \E kind \in Kinds(f) : Is(obj[f], kind)
    <3>1. f \in DOMAIN fields /\ fields[f] = Some(obj[f]) /\ fields[f] # None
      BY <2>1, Options
    <3>2. CASE f \in {"name", "ph", "tid"}
      <4>1. Is(obj[f], "str")
        BY <1>2, <2>2, <3>1, <3>2, WrittenValues
      <4> QED
        BY <3>2, <4>1, KindsTaken
    <3>3. CASE f \in {"ts", "pid"}
      <4>1. e.ts + t \in Int /\ e.pid \in Int
        BY <1>3 DEF Int64
      <4>2. Is(obj[f], "int")
        BY <1>2, <2>2, <3>1, <3>3, <4>1, WrittenValues
      <4> QED
        BY <3>3, <4>2, KindsTaken
    <3>4. CASE f = "dur"
      <4>1. Is(obj[f], "int")
        BY <1>2, <1>4, <1>5, <2>2, <3>1, <3>4
      <4> QED
        BY <3>4, <4>1, KindsTaken
    <3>5. CASE f = "cat"
      <4>1. Is(obj[f], "str")
        BY <1>2, <1>3, <1>4, <2>2, <3>1, <3>5
      <4> QED
        BY <3>5, <4>1, KindsTaken
    <3>6. CASE f = "args"
      <4>1. Is(obj[f], "obj")
        BY <1>2, <1>3, <1>4, <2>2, <3>1, <3>6
      <4> QED
        BY <3>6, <4>1, KindsTaken
    <3> QED
      BY <1>2, <3>1, <3>2, <3>3, <3>4, <3>5, <3>6
  <2> QED
    BY <2>3, WrittenValues DEF IsRawEvent
<1> HIDE DEF x, obj
<1> QED
  BY <1>1, <1>10, <1>11, <1>12 DEF x

\* A metadata record whose arguments are an object is read as it was.
LEMMA RecordReadBack ==
  ASSUME NEW m, SoundRecord(m), m.args # None => IsObject(m.args[1]), NEW reader \in Readers
  PROVE  MetadataEvent(reader, ChromeMetadata(m).obj) = m /\ IsRawEvent(ChromeMetadata(m))
<1> DEFINE fields == [name |-> Some(Str(m.name)), ph |-> Some(Str(<<"M">>)),
                      pid |-> Some(Num(m.pid)), tid |-> Some(Str(m.tid)), args |-> m.args]
           obj == Present(fields)
<1>1. ChromeMetadata(m).obj = obj /\ ChromeMetadata(m) = Obj(obj)
  BY WrittenValues DEF ChromeMetadata
<1>2. /\ DOMAIN fields = {"name", "ph", "pid", "tid", "args"}
      /\ fields["name"] = Some(Str(m.name)) /\ fields["ph"] = Some(Str(<<"M">>))
      /\ fields["pid"] = Some(Num(m.pid)) /\ fields["tid"] = Some(Str(m.tid))
      /\ fields["args"] = m.args
  OBVIOUS
<1> HIDE DEF fields
<1>3. /\ m.pid \in Int64 /\ m.pid \in Int /\ IsOption(m.args)
      /\ m = [name |-> m.name, pid |-> m.pid, tid |-> m.tid, args |-> m.args]
  BY DEF SoundRecord, IsOption, Int64
<1>4. \A f \in DOMAIN fields : IsOption(fields[f])
  BY <1>2, <1>3 DEF IsOption
<1>5. \A f \in DOMAIN fields : Get(obj, f) = fields[f]
  BY <1>4, GetPresent
<1>6. \A f \in DOMAIN obj : f \in DOMAIN fields /\ fields[f] = Some(obj[f])
  <2>1. \A f \in DOMAIN obj : f \in DOMAIN fields /\ Get(obj, f) = Some(obj[f])
    BY DEF Present, Get
  <2> HIDE DEF obj
  <2> QED
    BY <1>5, <2>1
<1> HIDE DEF obj
<1>7. reader = "stream" /\ Args(m.args) = None => m.args = None
  <2>1. m.args # None => Args(m.args) = Some(m.args[1].obj)
    BY DEF Args
  <2> QED
    BY <2>1, Options
<1>8. MetadataEvent(reader, obj) = m
  <2>1. /\ UnwrapOr(AsStr(Get(obj, "name")), <<>>) = m.name /\ Pid(reader, Get(obj, "pid")) = m.pid
        /\ RawTid(reader, Get(obj, "tid")) = m.tid /\ Get(obj, "args") = m.args
    BY <1>2, <1>3, <1>5, Options, ValuesReadBack
  <2>2. MetadataEvent(reader, obj)
          = [name |-> m.name, pid |-> m.pid, tid |-> m.tid,
             args |-> IF reader = "stream" /\ Args(m.args) = None THEN None ELSE m.args]
    BY <2>1 DEF MetadataEvent
  <2> QED
    BY <1>3, <1>7, <2>2
<1>9. \A f \in DOMAIN obj : \E kind \in Kinds(f) : Is(obj[f], kind)
  <2> SUFFICES ASSUME NEW f \in DOMAIN obj PROVE \E kind \in Kinds(f) : Is(obj[f], kind)
    OBVIOUS
  <2>1. f \in DOMAIN fields /\ fields[f] = Some(obj[f]) /\ fields[f] # None /\ fields[f][1] = obj[f]
    BY <1>6, Options
  <2>2. CASE f \in {"name", "ph", "tid"}
    <3>1. Is(obj[f], "str")
      BY <1>2, <2>1, <2>2, Options, WrittenValues
    <3> QED
      BY <2>2, <3>1, KindsTaken
  <2>3. CASE f = "pid"
    <3>1. Is(obj[f], "int")
      BY <1>2, <1>3, <2>1, <2>3, Options, WrittenValues
    <3> QED
      BY <2>3, <3>1, KindsTaken
  <2>4. CASE f = "args"
    <3>1. Is(obj[f], "obj")
      BY <1>2, <2>1, <2>4 DEF IsObject
    <3> QED
      BY <2>4, <3>1, KindsTaken
  <2> QED
    BY <1>2, <2>1, <2>2, <2>3, <2>4
<1> QED
  BY <1>1, <1>8, <1>9, WrittenValues DEF IsRawEvent

\* A list grows by its next element.
LEMMA NextOfList ==
  ASSUME NEW j \in Nat, NEW g
  PROVE  Append([i \in 1..j |-> g[i]], g[j + 1]) = [i \in 1..(j + 1) |-> g[i]]
<1> DEFINE S == {g[i] : i \in 1..(j + 1)}
           p == [i \in 1..j |-> g[i]]
<1>1. \A i \in 1..j : i \in 1..(j + 1)
  OBVIOUS
<1>2. p \in Seq(S) /\ Len(p) = j
  <2>1. \A i \in 1..j : g[i] \in S
    BY <1>1
  <2>2. p = [i \in 1..j |-> p[i]] /\ \A i \in 1..j : p[i] \in S
    BY <2>1
  <2> HIDE DEF p, S
  <2> QED
    BY <2>2, ListIsSequence
<1> HIDE DEF S
<1> QED
  BY <1>2

\* n metadata records, and after them m events.
StagedParts(reader, arr, n, m) ==
  [staging  |-> [i \in 1..m |-> Event(reader, arr[n + i].obj)],
   metadata |-> [i \in 1..n |-> MetadataEvent(reader, arr[i].obj)]]

\* Of an array of metadata records followed by events, the records and the events are
\* staged in their order.
LEMMA StagedWritten ==
  ASSUME NEW n \in Nat, NEW m \in Nat, NEW arr, arr \in Seq(ToSet(arr)), Len(arr) = n + m,
         \A i \in 1..n : IsObject(arr[i]) /\ IsMetadata(arr[i].obj),
         \A i \in 1..m : IsObject(arr[n + i]) /\ ~IsMetadata(arr[n + i].obj), NEW reader
  PROVE  Staged(reader, arr) = StagedParts(reader, arr, n, m)
<1> DEFINE ev == [i \in 1..m |-> Event(reader, arr[n + i].obj)]
           md == [i \in 1..n |-> MetadataEvent(reader, arr[i].obj)]
           First(g, j) == [i \in 1..j |-> g[i]]
           Both(i, j) == [staging |-> First(ev, i), metadata |-> First(md, j)]
           S == {k \in 0..(n + m) : Staged(reader, Prefix(arr, k))
                                      = IF k <= n THEN Both(0, k) ELSE Both(k - n, n)}
<1>1. 0 \in S
  <2>1. Staged(reader, Prefix(arr, 0)) = StageStart
    BY PrefixLaws, StagedLaws
  <2>2. Both(0, 0) = StageStart
    <3>1. \A g : [i \in 1..0 |-> g[i]] = <<>>
      OBVIOUS
    <3> HIDE DEF ev, md
    <3> QED
      BY <3>1 DEF StageStart
  <2> HIDE DEF Both
  <2> QED
    BY <2>1, <2>2
<1>2. ASSUME NEW k \in 0..(n + m), k \in S, k < n + m PROVE k + 1 \in S
  <2> DEFINE v == arr[k + 1]
  <2>1. Staged(reader, Prefix(arr, k + 1)) = Stage(reader, Staged(reader, Prefix(arr, k)), v)
    BY <1>2, PrefixTurns
  <2>2. CASE k < n
    <3>1. k + 1 \in 1..n /\ k \in Nat
      BY <2>2
    <3>2. IsObject(v) /\ IsMetadata(v.obj) /\ md[k + 1] = MetadataEvent(reader, v.obj)
      BY <3>1
    <3>3. Stage(reader, Both(0, k), v) = [Both(0, k) EXCEPT !.metadata = Append(@, md[k + 1])]
      BY <3>2 DEF Stage
    <3>4. Append(First(md, k), md[k + 1]) = First(md, k + 1)
      <4> HIDE DEF md
      <4> QED
        BY <3>1, NextOfList
    <3> HIDE DEF First, ev, md, v
    <3>5. Stage(reader, Both(0, k), v) = Both(0, k + 1)
      BY <3>3, <3>4
    <3> HIDE DEF Both
    <3>6. Staged(reader, Prefix(arr, k)) = Both(0, k)
      BY <1>2, <2>2
    <3>7. k + 1 <= n /\ k + 1 \in 0..(n + m)
      BY <2>2
    <3> QED
      BY <2>1, <3>5, <3>6, <3>7
  <2>3. CASE ~(k < n)
    <3> DEFINE j == k - n
    <3>1. j \in Nat /\ j + 1 \in 1..m /\ n + (j + 1) = k + 1
      BY <1>2, <2>3
    <3>2. IsObject(v) /\ ~IsMetadata(v.obj) /\ ev[j + 1] = Event(reader, v.obj)
      BY <3>1
    <3>3. Stage(reader, Both(j, n), v) = [Both(j, n) EXCEPT !.staging = Append(@, ev[j + 1])]
      BY <3>2 DEF Stage
    <3>4. Append(First(ev, j), ev[j + 1]) = First(ev, j + 1)
      <4> HIDE DEF ev, j
      <4> QED
        BY <3>1, NextOfList
    <3>5. k = n => j = 0
      BY <2>3
    <3>6. (k + 1) - n = j + 1 /\ ~(k + 1 <= n) /\ k + 1 \in 0..(n + m) /\ (k <= n => k = n)
      BY <1>2, <2>3
    <3> HIDE DEF First, ev, md, v, j
    <3>7. Stage(reader, Both(j, n), v) = Both(j + 1, n)
      BY <3>3, <3>4
    <3> HIDE DEF Both
    <3>8. Staged(reader, Prefix(arr, k)) = Both(j, n)
      BY <1>2, <3>5, <3>6 DEF j
    <3> QED
      BY <2>1, <3>6, <3>7, <3>8
  <2> QED
    BY <2>2, <2>3
<1> HIDE DEF S
<1>3. n + m \in S
  BY <1>1, <1>2, PrefixInduction
<1>4. Staged(reader, arr) = IF n + m <= n THEN Both(0, n + m) ELSE Both(m, n)
  <2>1. (n + m) - n = m /\ Prefix(arr, n + m) = arr
    BY PrefixLaws
  <2> HIDE DEF Both
  <2> QED
    BY <1>3, <2>1 DEF S
<1>5. n + m <= n => m = 0 /\ n + m = n
  OBVIOUS
<1>6. Staged(reader, arr) = Both(m, n)
  <2> HIDE DEF Both
  <2> QED
    BY <1>4, <1>5
<1>7. First(ev, m) = ev /\ First(md, n) = md
  OBVIOUS
<1> QED
  BY <1>6, <1>7 DEF StagedParts

\* The elements of the array as written: the records, then the events.
WrittenParts(arr, metadata, events, t) ==
  LET n == Len(metadata)
      m == Len(events)
  IN  /\ n \in Nat /\ m \in Nat /\ Len(arr) = n + m /\ DOMAIN arr = 1..(n + m)
      /\ \A i \in 1..n : arr[i] = ChromeMetadata(metadata[i])
      /\ \A i \in 1..m : n + i \in 1..(n + m) /\ arr[n + i] = ChromeEvent(events[i], t)
      /\ \A i \in 1..(n + m) : i \in 1..n \/ \E j \in 1..m : i = n + j

\* They are all there.
LEMMA WrittenElements ==
  ASSUME NEW metadata, metadata \in Seq(ToSet(metadata)),
         NEW events, events \in Seq(ToSet(events)), NEW t
  PROVE  WrittenParts(WrittenArray(metadata, events, t), metadata, events, t)
<1> DEFINE p == [i \in DOMAIN metadata |-> ChromeMetadata(metadata[i])]
           q == [i \in DOMAIN events |-> ChromeEvent(events[i], t)]
           arr == WrittenArray(metadata, events, t)
           n == Len(metadata)
           m == Len(events)
           S == {p[i] : i \in 1..n} \cup {q[i] : i \in 1..m}
<1>1. n \in Nat /\ m \in Nat /\ DOMAIN metadata = 1..n /\ DOMAIN events = 1..m
  OBVIOUS
<1>2. p \in Seq(S) /\ q \in Seq(S) /\ Len(p) = n /\ Len(q) = m
  <2>1. \A i \in 1..n : p[i] \in S
    OBVIOUS
  <2>2. \A i \in 1..m : q[i] \in S
    OBVIOUS
  <2>3. p = [i \in 1..n |-> p[i]] /\ q = [i \in 1..m |-> q[i]]
    BY <1>1
  <2> HIDE DEF p, q, S, n, m
  <2> QED
    BY <1>1, <2>1, <2>2, <2>3, ListIsSequence
<1>3. /\ \A i \in 1..n : p[i] = ChromeMetadata(metadata[i])
      /\ \A i \in 1..m : q[i] = ChromeEvent(events[i], t)
  BY <1>1
<1>4. arr = p \o q
  BY DEF WrittenArray
<1> HIDE DEF p, q, S, n, m, arr
<1>5. /\ Len(arr) = n + m /\ DOMAIN arr = 1..(n + m)
      /\ \A i \in 1..n : arr[i] = p[i]
      /\ \A i \in 1..m : n + i \in 1..(n + m) /\ arr[n + i] = q[i]
  <2>1. p \in Seq(S) /\ q \in Seq(S) /\ n \in Nat /\ m \in Nat /\ Len(p) = n /\ Len(q) = m
    BY <1>1, <1>2
  <2>2. Len(p \o q) = n + m
    BY ONLY <2>1, ConcatProperties
  <2>3. DOMAIN (p \o q) = 1..(n + m)
    BY ONLY <2>1, <2>2, ConcatProperties
  <2>4. \A i \in 1..n : (p \o q)[i] = p[i]
    BY ONLY <2>1, ConcatProperties
  <2>5. ASSUME NEW i \in 1..m PROVE n + i \in 1..(n + m) /\ (p \o q)[n + i] = q[i]
    <3>1. n + i \in 1..(n + m) /\ ~(n + i <= n) /\ (n + i) - n = i
      BY <2>1
    <3>2. (p \o q)[n + i] = q[(n + i) - n]
      BY ONLY <2>1, <3>1, ConcatProperties
    <3> QED
      BY ONLY <3>1, <3>2
  <2> QED
    BY <1>4, <2>2, <2>3, <2>4, <2>5
<1>6. \A i \in 1..(n + m) : i \in 1..n \/ \E j \in 1..m : i = n + j
  <2> SUFFICES ASSUME NEW i \in 1..(n + m), i \notin 1..n PROVE i - n \in 1..m /\ i = n + (i - n)
    OBVIOUS
  <2> QED
    BY <1>1
<1> QED
  BY <1>1, <1>3, <1>5, <1>6 DEF n, m, arr, WrittenParts

\* What is stored of records whose arguments are objects are the records.
LEMMA StoredAlike ==
  ASSUME NEW metadata, SoundRecords(metadata),
         \A i \in DOMAIN metadata : metadata[i].args # None => IsObject(metadata[i].args[1])
  PROVE  StoredRecords(metadata) = metadata
<1>1. ASSUME NEW m, SoundRecord(m), m.args # None => IsObject(m.args[1]) PROVE NilArgs(m) = m
  <2>1. m = [name |-> m.name, pid |-> m.pid, tid |-> m.tid, args |-> m.args]
    BY <1>1 DEF SoundRecord
  <2>2. m.args # Some(Null)
    <3>1. Some(Null) # None /\ Some(Null)[1] = Null
      BY Options
    <3>2. ~IsObject(Null)
      BY DEF IsObject, Is, Null
    <3> QED
      BY <1>1, <3>1, <3>2
  <2>3. NilArgs(m) = [name |-> m.name, pid |-> m.pid, tid |-> m.tid, args |-> m.args]
    BY <2>1, <2>2 DEF NilArgs
  <2> QED
    BY <2>1, <2>3
<1>2. metadata = [i \in DOMAIN metadata |-> metadata[i]]
  BY DEF SoundRecords
<1>3. \A i \in DOMAIN metadata : NilArgs(metadata[i]) = metadata[i]
  BY <1>1 DEF SoundRecords
<1> QED
  BY <1>2, <1>3 DEF StoredRecords

\* What decompress can be trusted with: no overflow, and no lane named after its thread.
Restorable(events, t) ==
  \A i \in DOMAIN events :
    /\ SoundEvent(events[i]) /\ events[i].ts + t \in Int64
    /\ events[i].cat = Some(<<"gpu_user_annotation">>) => StreamInArgs(events[i].args) # None

\* Every reader stages of the written array the records and the events as they were, each
\* timestamp the absolute one.
LEMMA StagedReadBack ==
  ASSUME NEW metadata, SoundRecords(metadata),
         \A i \in DOMAIN metadata : metadata[i].args # None => IsObject(metadata[i].args[1]),
         NEW t \in Int64, NEW events, events \in Seq(ToSet(events)), Restorable(events, t),
         NEW reader \in Readers
  PROVE  LET arr == WrittenArray(metadata, events, t)
             s   == Staged(reader, arr)
         IN  /\ s.metadata = metadata
             /\ s.staging \in Seq(ToSet(s.staging)) /\ Len(s.staging) = Len(events)
             /\ DOMAIN s.staging = DOMAIN events
             /\ \A i \in DOMAIN events : /\ s.staging[i].ts = events[i].ts + t
                                         /\ Shifted(s.staging[i], t) = events[i]
             /\ \A i \in DOMAIN arr : IsRawEvent(arr[i])
<1> DEFINE arr == WrittenArray(metadata, events, t)
           n == Len(metadata)
           m == Len(events)
           ev == [i \in 1..m |-> Event(reader, arr[n + i].obj)]
           md == [i \in 1..n |-> MetadataEvent(reader, arr[i].obj)]
<1>1. metadata \in Seq(ToSet(metadata)) /\ \A i \in 1..n : SoundRecord(metadata[i])
  BY DEF SoundRecords
<1>2. /\ n \in Nat /\ m \in Nat /\ Len(arr) = n + m /\ DOMAIN arr = 1..(n + m)
      /\ \A i \in 1..n : arr[i] = ChromeMetadata(metadata[i])
      /\ \A i \in 1..m : n + i \in 1..(n + m) /\ arr[n + i] = ChromeEvent(events[i], t)
      /\ \A i \in 1..(n + m) : i \in 1..n \/ \E j \in 1..m : i = n + j
  <2>1. WrittenParts(arr, metadata, events, t)
    BY <1>1, WrittenElements
  <2> HIDE DEF arr
  <2> QED
    BY <2>1 DEF WrittenParts
<1>3. DOMAIN metadata = 1..n /\ DOMAIN events = 1..m /\ metadata = [i \in 1..n |-> metadata[i]]
  BY <1>1
<1>4. arr \in Seq(ToSet(arr))
  <2>1. \A i \in DOMAIN events : SoundEvent(events[i])
    BY DEF Restorable
  <2> QED
    BY <2>1, WrittenFacts
<1> HIDE DEF arr, n, m
<1>5. ASSUME NEW i \in 1..n
      PROVE  /\ IsObject(arr[i]) /\ IsMetadata(arr[i].obj) /\ IsRawEvent(arr[i])
             /\ MetadataEvent(reader, arr[i].obj) = metadata[i]
  <2>1. SoundRecord(metadata[i]) /\ (metadata[i].args # None => IsObject(metadata[i].args[1]))
    BY <1>1, <1>3
  <2>2. IsObject(ChromeMetadata(metadata[i])) /\ IsMetadata(ChromeMetadata(metadata[i]).obj)
    BY <2>1, MetadataWritten
  <2>3. MetadataEvent(reader, ChromeMetadata(metadata[i]).obj) = metadata[i] /\ IsRawEvent(ChromeMetadata(metadata[i]))
    BY <2>1, RecordReadBack
  <2> QED
    BY <1>2, <2>2, <2>3
<1>6. ASSUME NEW i \in 1..m
      PROVE  /\ IsObject(arr[n + i]) /\ ~IsMetadata(arr[n + i].obj) /\ IsRawEvent(arr[n + i])
             /\ Event(reader, arr[n + i].obj).ts = events[i].ts + t
             /\ Shifted(Event(reader, arr[n + i].obj), t) = events[i]
  <2> DEFINE e == events[i]
  <2>1. /\ SoundEvent(e) /\ e.ts + t \in Int64
        /\ e.cat = Some(<<"gpu_user_annotation">>) => StreamInArgs(e.args) # None
    BY <1>3 DEF Restorable
  <2>2. arr[n + i] = ChromeEvent(e, t)
    BY <1>2
  <2> HIDE DEF e
  <2>3. IsObject(ChromeEvent(e, t)) /\ ~IsMetadata(ChromeEvent(e, t).obj)
    BY <2>1, EventWritten
  <2>4. /\ Event(reader, ChromeEvent(e, t).obj).ts = e.ts + t
        /\ Shifted(Event(reader, ChromeEvent(e, t).obj), t) = e /\ IsRawEvent(ChromeEvent(e, t))
    BY <2>1, EventReadBack
  <2> QED
    BY <2>2, <2>3, <2>4 DEF e
<1> DEFINE s == Staged(reader, arr)
<1>7. s.staging = ev /\ s.metadata = md
  <2>1. s = StagedParts(reader, arr, n, m)
    <3>1. n \in Nat /\ m \in Nat /\ Len(arr) = n + m
      BY <1>2
    <3>2. \A i \in 1..n : IsObject(arr[i]) /\ IsMetadata(arr[i].obj)
      BY <1>5
    <3>3. \A i \in 1..m : IsObject(arr[n + i]) /\ ~IsMetadata(arr[n + i].obj)
      BY <1>6
    <3> QED
      BY <1>4, <3>1, <3>2, <3>3, StagedWritten, ZenonT(40)
  <2> HIDE DEF s
  <2> QED
    BY <2>1 DEF StagedParts
<1>8. md = metadata
  BY <1>3, <1>5
<1>9. ev \in Seq(ToSet(ev)) /\ Len(ev) = m /\ DOMAIN ev = 1..m
  <2> DEFINE X == {ev[i] : i \in 1..m}
  <2>1. ev = [i \in 1..m |-> ev[i]] /\ \A i \in 1..m : ev[i] \in X
    OBVIOUS
  <2> HIDE DEF ev, X
  <2>2. ev \in Seq(X) /\ Len(ev) = m /\ DOMAIN ev = 1..m
    BY <1>2, <2>1, ListIsSequence
  <2> QED
    BY <2>2, OwnElements
<1>10. \A i \in 1..m : ev[i].ts = events[i].ts + t /\ Shifted(ev[i], t) = events[i]
  BY <1>6
<1>11. \A i \in DOMAIN arr : IsRawEvent(arr[i])
  BY <1>2, <1>5, <1>6
<1> HIDE DEF ev, md, s
<1> QED
  BY <1>3, <1>7, <1>8, <1>9, <1>10, <1>11 DEF arr, m, s

\* A rank is read as it was written, unless it is a number written with leading zeros.
LEMMA RankReadBack ==
  ASSUME NEW rank, ParseI64(rank) # None => rank = Text(ParseI64(rank)[1])
  PROVE  RankOf(Some(Obj([rank |-> ChromeRank(rank)]))) = Some(rank)
<1> DEFINE f == [rank |-> ChromeRank(rank)]
           info == Some(Obj(f))
           v == Some(ChromeRank(rank))
<1>1. info # None /\ IsObject(info[1]) /\ info[1].obj = f
  BY Options, WrittenValues
<1>2. Get(f, "rank") = v
  BY DEF Get
<1> HIDE DEF f, info
<1>3. RankOf(info) = IF AsI64(v) # None THEN Some(Text(AsI64(v)[1])) ELSE AsStr(v)
  BY <1>1, <1>2 DEF RankOf
<1>4. CASE ParseI64(rank) = None
  <2>1. v = Some(Str(rank))
    BY <1>4 DEF ChromeRank
  <2>2. AsI64(Some(Str(rank))) = None
    <3>1. Some(Str(rank))[1] = Str(rank) /\ ~Is(Str(rank), "int")
      BY Options DEF Is, Str
    <3> QED
      BY <3>1 DEF AsI64
  <2> QED
    BY <1>3, <2>1, <2>2, ValuesReadBack DEF info, f
<1>5. CASE ParseI64(rank) # None
  <2>1. PICK n \in Int64 : ParseI64(rank) = Some(n)
    BY <1>5, ParsedType DEF Opt64
  <2>2. rank = Text(n) /\ ChromeRank(rank) = Num(n)
    BY <1>5, <2>1, Options DEF ChromeRank
  <2>3. AsI64(v) = Some(n)
    BY <2>2, ValuesReadBack
  <2> QED
    BY <1>3, <2>2, <2>3, Options DEF info, f
<1> QED
  BY <1>4, <1>5

\* Whichever way a reader finds it, the origin of the absolute timestamps is t.
LEMMA OriginReadBack ==
  ASSUME NEW t \in Int64, NEW events, NEW s, s \in Seq(ToSet(s)), DOMAIN s = DOMAIN events,
         \A i \in DOMAIN events : /\ events[i].ts \in Int64 /\ events[i].ts >= 0
                                  /\ events[i].ts + t \in Int64 /\ s[i].ts = events[i].ts + t,
         NEW first \in DOMAIN events, events[first].ts = 0,
         NEW early \in DOMAIN events, events[early].ts + t # MaxInt64
  PROVE  LeastTs(s) = t /\ \A st : Minimum(st.minTs, s) => StartTs(st) = t
<1>1. Int64 \subseteq Int /\ MaxInt64 \in Int /\ \A n \in Int64 : n <= MaxInt64
  BY MaxInt64Assumption DEF Int64
<1>2. s[first].ts = t /\ \A i \in DOMAIN s : s[i].ts \in Int64 /\ t <= s[i].ts
  <2>1. s[first].ts = t
    BY <1>1
  <2>2. ASSUME NEW i \in DOMAIN s PROVE s[i].ts \in Int64 /\ t <= s[i].ts
    <3>1. /\ events[i].ts \in Int /\ events[i].ts >= 0 /\ t \in Int
          /\ s[i].ts \in Int64 /\ s[i].ts = events[i].ts + t
      BY <1>1
    <3> QED
      BY <3>1
  <2> QED
    BY <2>1, <2>2
<1>3. t < MaxInt64
  <2>1. s[early].ts \in Int64 /\ t <= s[early].ts /\ s[early].ts # MaxInt64
    BY <1>2
  <2>2. s[early].ts \in Int /\ s[early].ts <= MaxInt64 /\ t \in Int /\ MaxInt64 \in Int
    BY <1>1, <2>1
  <2> QED
    BY <2>1, <2>2
<1>4. LeastTs(s) = t
  <2>1. /\ LeastTs(s) \in Int64 /\ \A i \in DOMAIN s : LeastTs(s) <= s[i].ts
        /\ s = <<>> \/ \E i \in DOMAIN s : s[i].ts = LeastTs(s)
    BY <1>2, LeastTsType
  <2>2. PICK i \in DOMAIN s : s[i].ts = LeastTs(s)
    BY <2>1
  <2>3. LeastTs(s) <= t /\ t <= LeastTs(s) /\ LeastTs(s) \in Int /\ t \in Int
    BY <1>1, <1>2, <2>1, <2>2
  <2> QED
    BY <2>3
<1>5. ASSUME NEW st, Minimum(st.minTs, s) PROVE StartTs(st) = t
  <2> DEFINE min == st.minTs
  <2>1. min \in Int64 /\ min <= t /\ (min = MaxInt64 \/ \E i \in DOMAIN s : min = s[i].ts)
    BY <1>2, <1>5 DEF Minimum
  <2> HIDE DEF min
  <2>2. min # MaxInt64
    BY <1>1, <1>3, <2>1
  <2>3. min = t
    BY <1>1, <1>2, <2>1, <2>2
  <2> QED
    BY <2>2, <2>3 DEF StartTs, min
<1> QED
  BY <1>4, <1>5

\* What Supported says of a trace that was read.
LEMMA SupportedFacts ==
  ASSUME NEW tr, NEW rank, NEW streams, NEW metadata, NEW t,
         SoundTrace(tr, rank, streams, metadata, t), Supported(tr)
  PROVE  LET events == EventList(streams) IN
         /\ events \in Seq(ToSet(events)) /\ Restorable(events, t)
         /\ \A i \in DOMAIN events : /\ events[i].ts \in Int64 /\ events[i].ts >= 0
                                     /\ events[i].ts + t \in Int64
         /\ \E i \in DOMAIN events : events[i].ts = 0
         /\ \E i \in DOMAIN events : events[i].ts + t # MaxInt64
         /\ ParseI64(rank) # None => rank = Text(ParseI64(rank)[1])
         /\ \A i \in DOMAIN metadata : metadata[i].args # None => IsObject(metadata[i].args[1])
<1> DEFINE E == EventsOf(streams)
           events == EventList(streams)
<1>1. SoundStreams(streams) /\ Based(streams, t) /\ t \in Int64
  BY DEF SoundTrace
<1>2. /\ RankOf1(tr) = rank /\ AllEvents(tr) = E
      /\ tr.startTs[rank] = t /\ tr.metadata[rank] = metadata
  BY OneRankOf DEF SoundTrace
<1>3. /\ E # {} /\ \E e \in E : e.ts + t # MaxInt64
      /\ \A e \in E : e.cat = Some(<<"gpu_user_annotation">>) => StreamInArgs(e.args) # None
      /\ ParseI64(rank) # None => rank = Text(ParseI64(rank)[1])
      /\ \A i \in DOMAIN metadata : metadata[i].args # None => IsObject(metadata[i].args[1])
  <2> HIDE DEF E
  <2> QED
    BY <1>2 DEF Supported
<1>4. \A e \in E : SoundEvent(e) /\ e.ts >= 0 /\ e.ts + t \in Int64
  BY <1>1, EventsAreSound, SupportedTimes
<1>5. events \in Seq(E) /\ ToSet(events) = E
  BY <1>1, EventListLaws
<1>6. \E e \in E : e.ts = 0
  <2>1. CASE t = 0 /\ \A e \in E : e.ts = MaxInt64
    <3>1. MaxInt64 + 0 = MaxInt64
      BY MaxInt64Assumption
    <3> QED
      BY <1>3, <2>1, <3>1
  <2> QED
    BY <1>1, <1>3, <2>1 DEF Based
<1> HIDE DEF E, events
<1>7. \A e \in E : \E i \in DOMAIN events : events[i] = e
  BY <1>5 DEF ToSet
<1>8. \A i \in DOMAIN events : events[i] \in E
  BY <1>5
<1>9. \A i \in DOMAIN events : events[i].ts \in Int64 /\ events[i].ts >= 0 /\ events[i].ts + t \in Int64
  BY <1>4, <1>8 DEF SoundEvent
<1>10. Restorable(events, t)
  BY <1>3, <1>4, <1>8 DEF Restorable
<1> QED
  BY <1>3, <1>5, <1>6, <1>7, <1>9, <1>10 DEF events

\* The document decompress writes of a supported trace reads as that trace, by either
\* reader.
LEMMA DocumentReadBack ==
  ASSUME NEW tr, NEW rank, NEW streams, NEW metadata, NEW t,
         SoundTrace(tr, rank, streams, metadata, t), Supported(tr), NEW name
  PROVE  LET document == WrittenDocument(rank, metadata, EventList(streams), t)
         IN  SimdRead(document, name) = tr /\ StreamRead(document, name) = tr
<1> DEFINE events == EventList(streams)
           arr == WrittenArray(metadata, events, t)
           document == WrittenDocument(rank, metadata, events, t)
<1>1. /\ tr = Trace(rank, streams, metadata, t) /\ SoundStreams(streams)
      /\ SoundRecords(metadata) /\ t \in Int64
  BY DEF SoundTrace
<1>2. /\ events \in Seq(ToSet(events)) /\ Restorable(events, t)
      /\ \A i \in DOMAIN events : /\ events[i].ts \in Int64 /\ events[i].ts >= 0
                                  /\ events[i].ts + t \in Int64
      /\ \E i \in DOMAIN events : events[i].ts = 0
      /\ \E i \in DOMAIN events : events[i].ts + t # MaxInt64
      /\ ParseI64(rank) # None => rank = Text(ParseI64(rank)[1])
      /\ \A i \in DOMAIN metadata : metadata[i].args # None => IsObject(metadata[i].args[1])
  BY SupportedFacts
<1>3. PushAll(events, 0) = streams
  BY <1>1, Refilled
<1> HIDE DEF events
<1>4. /\ IsDocument(document) /\ Entry(document, "traceEvents") = Some([arr |-> arr])
      /\ Entry(document, "distributedInfo") = Some(Obj([rank |-> ChromeRank(rank)]))
      /\ arr \in Seq(ToSet(arr))
  <2>1. \A i \in DOMAIN events : SoundEvent(events[i])
    BY <1>2 DEF Restorable
  <2> QED
    BY <1>1, <1>2, <2>1, WrittenFacts
<1> HIDE DEF document, arr
<1>5. UnwrapOr(RankOf(Entry(document, "distributedInfo")), name) = rank
  BY <1>2, <1>4, RankReadBack, Options
<1>6. HasEvents(document) /\ HasArray(document) /\ Array(document) = arr /\ Tree(document) = arr
  <2>1. Some([arr |-> arr]) # None /\ Some([arr |-> arr])[1] = [arr |-> arr]
    BY Options
  <2>2. Is([arr |-> arr], "arr") /\ [arr |-> arr].arr = arr
    BY DEF Is
  <2> QED
    BY <1>4, <2>1, <2>2 DEF HasEvents, HasArray, Array, Tree
<1>7. ASSUME NEW reader \in Readers
      PROVE  LET s == Staged(reader, arr) IN
             /\ s.metadata = metadata /\ PushAll(s.staging, t) = streams
             /\ LeastTs(s.staging) = t /\ \A st : Minimum(st.minTs, s.staging) => StartTs(st) = t
             /\ \A i \in DOMAIN arr : IsRawEvent(arr[i])
  <2> DEFINE s == Staged(reader, arr)
             q == s.staging
  <2>1. /\ s.metadata = metadata /\ q \in Seq(ToSet(q)) /\ Len(q) = Len(events)
        /\ DOMAIN q = DOMAIN events
        /\ \A i \in DOMAIN events : q[i].ts = events[i].ts + t /\ Shifted(q[i], t) = events[i]
        /\ \A i \in DOMAIN arr : IsRawEvent(arr[i])
    BY <1>1, <1>2, StagedReadBack DEF arr
  <2> HIDE DEF s, q
  <2>2. \A i \in DOMAIN events : Shifted(events[i], 0) = events[i]
    BY <1>2, SoundIsShiftable DEF Restorable
  <2>3. PushAll(q, t) = PushAll(events, 0)
    <3>1. DOMAIN events = 1..Len(events)
      BY <1>2
    <3>2. \A i \in 1..Len(q) : Shifted(q[i], t) = Shifted(events[i], 0)
      BY <2>1, <2>2, <3>1
    <3> QED
      BY <1>2, <2>1, <3>2, SamePushes
  <2>4. LeastTs(q) = t /\ \A st : Minimum(st.minTs, q) => StartTs(st) = t
    <3>1. PICK first \in DOMAIN events : events[first].ts = 0
      BY <1>2
    <3>2. PICK early \in DOMAIN events : events[early].ts + t # MaxInt64
      BY <1>2
    <3> QED
      BY <1>1, <1>2, <2>1, <3>1, <3>2, OriginReadBack
  <2> QED
    BY <1>3, <2>1, <2>3, <2>4 DEF s, q
<1>8. SimdRead(document, name) = tr
  <2> DEFINE s == Staged("simd", arr)
  <2>1. s.metadata = metadata /\ PushAll(s.staging, t) = streams /\ LeastTs(s.staging) = t
    BY <1>7 DEF Readers
  <2>2. SimdRead(document, name)
          = Trace(rank, PushAll(s.staging, LeastTs(s.staging)), s.metadata, LeastTs(s.staging))
    BY <1>5, <1>6, FullTreeTrace DEF SimdRead
  <2> QED
    BY <1>1, <2>1, <2>2
<1>9. StreamRead(document, name) = tr
  <2> DEFINE s == Staged("stream", arr)
  <2>1. /\ s.metadata = metadata /\ PushAll(s.staging, t) = streams
        /\ \A st : Minimum(st.minTs, s.staging) => StartTs(st) = t
        /\ \A i \in DOMAIN arr : IsRawEvent(arr[i])
    BY <1>7 DEF Readers
  <2>2. Readable(document)
    BY <1>6, <2>1 DEF Readable
  <2>3. PICK st : /\ Minimum(st.minTs, s.staging)
                  /\ StreamRead(document, name) =
                       Trace(rank, PushAll(s.staging, StartTs(st)), s.metadata, StartTs(st))
    BY <1>4, <1>5, <1>6, <2>2, StreamReadTrace
  <2> QED
    BY <1>1, <2>1, <2>3
<1> QED
  BY <1>8, <1>9 DEF document, events

\* The document a supported input is written as; its metadata and origin stay unchanged.
LEMMA SupportedInput ==
  ASSUME NEW tr, SoundInput(tr), Supported(tr)
  PROVE  /\ Plain(tr).ok = TRUE /\ Plain(tr).startTs = tr.startTs /\ Plain(tr).metadata = tr.metadata
         /\ Reconstruction(tr).metadata = tr.metadata
         /\ \E document : /\ ChromeDocument(Reconstruction(tr)) = Some(document)
                          /\ \A name : /\ SimdRead(document, name) = Plain(tr)
                                       /\ StreamRead(document, name) = Plain(tr)
<1>1. PICK rank, streams, metadata, t : SoundTrace(tr, rank, streams, metadata, t)
  BY DEF SoundInput
<1>2. tr = Trace(rank, streams, metadata, t) /\ SoundRecords(metadata) /\ SoundStreams(streams)
  BY <1>1 DEF SoundTrace
<1> DEFINE b == BuiltStreams(streams)
<1>3. /\ Plain(tr) = Trace(rank, b, metadata, t) /\ SoundTrace(Plain(tr), rank, b, metadata, t)
      /\ Supported(Plain(tr))
  BY <1>1, PlainIsSound, PlainIsSupported
<1>4. /\ Plain(tr).ok = TRUE /\ Plain(tr).startTs = tr.startTs /\ Plain(tr).metadata = tr.metadata
      /\ tr.metadata = Only(rank, metadata)
  BY <1>2, <1>3 DEF Trace, Only
<1>5. StoredRecords(metadata) = metadata
  <2>1. \A i \in DOMAIN metadata : metadata[i].args # None => IsObject(metadata[i].args[1])
    BY <1>1, SupportedFacts
  <2> QED
    BY <1>2, <2>1, StoredAlike
<1>6. Reconstruction(tr).metadata = tr.metadata
  <2>1. Reconstruction(tr).metadata = Only(rank, StoredRecords(metadata))
    BY <1>2, ReconstructionOf
  <2> QED
    BY <1>4, <1>5, <2>1
<1> DEFINE document == WrittenDocument(rank, metadata, EventList(b), t)
<1>7. ChromeDocument(Reconstruction(tr)) = Some(document)
  BY <1>1, <1>5, SupportedDocument
<1>8. \A name : SimdRead(document, name) = Plain(tr) /\ StreamRead(document, name) = Plain(tr)
  <2> HIDE DEF b
  <2> QED
    BY <1>3, DocumentReadBack
<1> QED
  BY <1>4, <1>6, <1>7, <1>8

\* In every reachable state the restored file of a supported input reads as the input
\* without its empty arguments.
LEMMA RestoredAgain ==
  RoundTripInv /\ Restored /\ Supported(Input) => FromFile("restored") = Plain(Input)
<1> SUFFICES ASSUME RoundTripInv, Restored, Supported(Input)
             PROVE  FromFile("restored") = Plain(Input)
  OBVIOUS
<1>1. SoundInput(Input) /\ ChromeDocument(Reconstruction(Input)) = Some(docs["restored"])
  BY InputIsSound DEF RoundTripInv
<1>2. PICK document : /\ ChromeDocument(Reconstruction(Input)) = Some(document)
                      /\ \A name : /\ SimdRead(document, name) = Plain(Input)
                                   /\ StreamRead(document, name) = Plain(Input)
  BY <1>1, SupportedInput
<1>3. document = docs["restored"]
  BY <1>1, <1>2 DEF Some
<1> QED
  BY <1>2, <1>3 DEF FromFile

\* A restored file is the input again, its empty argument maps excepted: decompress and
\* either reader of the file it writes give back the ranks, streams, records and origin
\* of the trace `compress` read, and every event in its place, with every field but an
\* `args` that is {}, which is gone (decompress.rs:197-200).
THEOREM RestoredIsRead ==
  RoundTripSpec => [](Restored /\ Supported(Input) => FromFile("restored") = Plain(Input))
<1>1. RoundTripInv => (Restored /\ Supported(Input) => FromFile("restored") = Plain(Input))
  BY RestoredAgain
<1> QED
  BY <1>1, RoundTripInvariant, PTL

-----------------------------------------------------------------------------
(* The text of a fingerprint.  It can be read back, field by field, if no   *)
(* text but the last holds the separator and strings hold no quotes.        *)

\* The tokens a fingerprint is put together with, and the pieces of all texts.
Marks == {"01", "\"", "null", "true", "false", "-", ".5", ".0", ";", "="}
Token == STRING \cup Marks \cup {ToString(n) : n \in Int}
Tokens == Seq(Token)

\* Arrays and objects, whose text is one token.
Nested(v) == \E x : v = [arr |-> x] \/ v = [obj |-> x]

\* What TLC knows of ToString and the provers do not: it gives a string, different
\* numbers and different nested values have different ones, and none of them reads
\* like the marks.
DecimalTexts ==
  /\ \A v : ToString(v) \in STRING
  /\ \A m, n \in Int : ToString(m) = ToString(n) => m = n
  /\ \A v, w : Nested(v) /\ Nested(w) /\ ToString(v) = ToString(w) => v = w
  /\ \A v : Nested(v) => \A n \in Int : ToString(v) # ToString(n)
  /\ \A v : v \in Int \/ Nested(v) =>
       ToString(v) \notin {"01", "\"", "null", "true", "false", "-"}

\* A token and what follows it.
Then(x, a) == <<x>> \o a

\* How texts are put together.
LEMMA TextLaws ==
  /\ \A a, b \in Tokens : a \o b \in Tokens
  /\ \A a, b, c \in Tokens : (a \o b) \o c = a \o (b \o c)
  /\ \A a \in Tokens : a \o <<>> = a /\ <<>> \o a = a
  /\ \A x \in Token : <<x>> \in Tokens
  /\ \A x \in Token : \A a \in Tokens : Then(x, a) \in Tokens /\ <<x>> \o a = Then(x, a)
<1> USE DEF Tokens
<1>1. \A a, b \in Tokens : a \o b \in Tokens
  BY ConcatProperties
<1>2. \A a, b, c \in Tokens : (a \o b) \o c = a \o (b \o c)
  BY ConcatAssociative
<1>3. \A a \in Tokens : a \o <<>> = a /\ <<>> \o a = a
  BY ConcatEmptySeq
<1>4. \A x \in Token : <<x>> \in Tokens
  OBVIOUS
<1> QED
  BY <1>1, <1>2, <1>3, <1>4 DEF Then

\* Four texts and five, put together from the left and from the right.
Left4(a, b, c, d) == ((a \o b) \o c) \o d
Left5(a, b, c, d, e) == (((a \o b) \o c) \o d) \o e
Right4(a, b, c, d) == a \o (b \o (c \o d))
Right5(a, b, c, d, e) == a \o (b \o (c \o (d \o e)))

\* It makes no difference.
LEMMA FourTexts ==
  ASSUME NEW a \in Tokens, NEW b \in Tokens, NEW c \in Tokens, NEW d \in Tokens
  PROVE  Left4(a, b, c, d) = Right4(a, b, c, d)
<1> DEFINE p == a \o b
           q == c \o d
<1>1. p \in Tokens /\ q \in Tokens
  BY TextLaws
<1>2. p \o q = a \o (b \o q)
  <2> HIDE DEF q
  <2> QED
    BY ONLY <1>1, a \in Tokens, b \in Tokens, TextLaws DEF p
<1>3. (p \o c) \o d = p \o q
  <2> HIDE DEF p
  <2> QED
    BY ONLY <1>1, c \in Tokens, d \in Tokens, TextLaws DEF q
<1> QED
  BY ONLY <1>2, <1>3 DEF Left4, Right4, p, q

\* So are five.
LEMMA FiveTexts ==
  ASSUME NEW a, NEW b, NEW c, NEW d, NEW e, a \in Tokens, b \in Tokens,
         c \in Tokens, d \in Tokens, e \in Tokens
  PROVE  Left5(a, b, c, d, e) = Right5(a, b, c, d, e)
<1> DEFINE p == a \o b
           q == c \o (d \o e)
<1>1. p \in Tokens
  BY ONLY a \in Tokens, b \in Tokens, TextLaws
<1>2. q \in Tokens
  <2>1. d \o e \in Tokens
    BY ONLY d \in Tokens, e \in Tokens, TextLaws
  <2> QED
    BY ONLY c \in Tokens, <2>1, TextLaws
<1>3. Left4(p, c, d, e) = Right4(p, c, d, e)
  <2> HIDE DEF p
  <2> QED
    BY ONLY <1>1, c \in Tokens, d \in Tokens, e \in Tokens, FourTexts
<1>4. p \o q = a \o (b \o q)
  <2> HIDE DEF q
  <2> QED
    BY ONLY a \in Tokens, b \in Tokens, <1>2, TextLaws DEF p
<1> QED
  BY ONLY <1>3, <1>4 DEF Left4, Right4, Left5, Right5, p, q

\* Two texts that are equal up to a separator neither holds before it are equal before
\* and after it.
LEMMA SplitAt ==
  ASSUME NEW x \in Token, NEW a \in Tokens, NEW b \in Tokens, NEW c \in Tokens,
         NEW d \in Tokens,
         \A i \in 1..Len(a) : a[i] # x, \A i \in 1..Len(c) : c[i] # x,
         a \o Then(x, b) = c \o Then(x, d)
  PROVE  a = c /\ b = d
<1> USE DEF Tokens
<1> DEFINE l == Then(x, b)
           r == Then(x, d)
<1>1. /\ l \in Tokens /\ Len(l) = Len(b) + 1 /\ l[1] = x
      /\ r \in Tokens /\ Len(r) = Len(d) + 1 /\ r[1] = x
  BY ConcatProperties DEF Then
<1> HIDE DEF l, r
<1>2. \A s \in Tokens, t \in Tokens :
        /\ Len(s \o t) = Len(s) + Len(t)
        /\ \A i \in 1..(Len(s) + Len(t)) : (s \o t)[i] = IF i <= Len(s) THEN s[i] ELSE t[i - Len(s)]
  BY ConcatProperties
<1>3. a \o l = c \o r
  BY DEF l, r
<1>4. ASSUME NEW s \in Tokens, NEW t \in Tokens, NEW u \in Tokens, NEW v \in Tokens,
             \A i \in 1..Len(u) : u[i] # x, s \o t = u \o v, Len(t) >= 1, t[1] = x
      PROVE  ~(Len(s) < Len(u))
  <2> SUFFICES ASSUME Len(s) < Len(u) PROVE FALSE
    OBVIOUS
  <2> DEFINE i == Len(s) + 1
  <2>1. Len(s) \in Nat /\ Len(t) \in Nat /\ Len(u) \in Nat /\ Len(v) \in Nat
    BY <1>4, LenProperties
  <2>2. i \in 1..(Len(s) + Len(t)) /\ ~(i <= Len(s)) /\ i - Len(s) = 1
        /\ i \in 1..(Len(u) + Len(v)) /\ i <= Len(u) /\ i \in 1..Len(u)
    BY <1>4, <2>1
  <2> HIDE DEF i
  <2>3. (s \o t)[i] = t[1] /\ (u \o v)[i] = u[i]
    BY <1>2, <2>2
  <2> QED
    BY <1>4, <2>2, <2>3
<1>5. Len(a) \in Nat /\ Len(c) \in Nat /\ Len(b) \in Nat /\ Len(d) \in Nat
  BY LenProperties
<1>6. Len(l) >= 1 /\ Len(r) >= 1
  BY <1>1, <1>5
<1>7. Len(a) = Len(c)
  <2>1. ~(Len(a) < Len(c))
    BY <1>1, <1>3, <1>4, <1>6
  <2>2. ~(Len(c) < Len(a))
    BY <1>1, <1>3, <1>4, <1>6
  <2> QED
    BY <1>5, <2>1, <2>2
<1>8. \A i \in 1..Len(a) : a[i] = c[i]
  <2> SUFFICES ASSUME NEW i \in 1..Len(a) PROVE a[i] = c[i]
    OBVIOUS
  <2>1. Len(l) \in Nat /\ Len(r) \in Nat
    BY <1>1, <1>5
  <2>2. i \in 1..(Len(a) + Len(l)) /\ i <= Len(a) /\ i \in 1..(Len(c) + Len(r)) /\ i <= Len(c)
    BY <1>5, <1>7, <2>1
  <2> QED
    BY <1>1, <1>2, <1>3, <2>2
<1>9. a = c
  BY <1>7, <1>8, SeqEqual
<1>10. l = r
  BY <1>1, <1>3, <1>9, ConcatSimplifications
<1>11. <<x>> \in Tokens
  OBVIOUS
<1>12. b = d
  BY <1>10, <1>11, ConcatSimplifications DEF l, r, Then
<1> QED
  BY <1>9, <1>12

\* Texts that begin with one token each have the same one and go on alike.
LEMMA FirstToken ==
  ASSUME NEW x \in Token, NEW y \in Token, NEW a \in Tokens, NEW b \in Tokens,
         Then(x, a) = Then(y, b)
  PROVE  x = y /\ a = b
<1> USE DEF Tokens
<1>0. <<x>> \o a = <<y>> \o b
  BY DEF Then
<1>1. (<<x>> \o a)[1] = x /\ (<<y>> \o b)[1] = y /\ <<x>> \in Tokens
  BY ConcatProperties
<1>2. x = y
  BY <1>0, <1>1
<1>3. <<x>> \o a = <<x>> \o b
  BY <1>0, <1>2
<1> QED
  BY <1>1, <1>2, <1>3, ConcatSimplifications

-----------------------------------------------------------------------------
(* The arguments of an event as a fingerprint writes them.                  *)

Optional(S) == {None} \cup {Some(x) : x \in S}

\* Texts as they are printed: a quote within a string is escaped, and the separator
\* \x01 does not occur.
PlainText == Seq(Token \ {"01"})
PlainString == Seq(Token \ {"\""})

\* Values whose text is one token, and the token.
Word(v, x) ==
  \/ \E n \in Int : v = [int |-> n] /\ x = ToString(n)
  \/ v = Null /\ x = "null"
  \/ v = [bool |-> TRUE] /\ x = "true"
  \/ v = [bool |-> FALSE] /\ x = "false"
  \/ Nested(v) /\ x = ToString(v)

\* A JSON value whose strings are such texts.
IsPlainValue(v) ==
  \/ \E x : Word(v, x)
  \/ \E t \in PlainString : v = [str |-> t]
  \/ \E h \in Int : v = [flt |-> h]

\* How the text of a number of halves ends.
HalfMark(h) == IF h % 2 = 1 THEN ".5" ELSE ".0"

\* The text of a value is not empty, and tells where it ends.
LEMMA ValueTexts ==
  /\ \A v, x : Word(v, x) => ValueText(v) = <<x>>
  /\ \A t : ValueText([str |-> t]) = <<"\"">> \o t \o <<"\"">>
  /\ \A h \in Int : h >= 0 =>
       ValueText([flt |-> h]) = (<<>> \o <<ToString(h \div 2)>>) \o <<HalfMark(h)>>
  /\ \A h \in Int : h < 0 =>
       ValueText([flt |-> h]) = (<<"-">> \o <<ToString((-h) \div 2)>>) \o <<HalfMark(-h)>>
<1>1. /\ \A x : DOMAIN [int |-> x] = {"int"} /\ DOMAIN [str |-> x] = {"str"}
      /\ \A x : DOMAIN [flt |-> x] = {"flt"} /\ DOMAIN Null = {"nul"}
      /\ \A x : DOMAIN [bool |-> x] = {"bool"} /\ DOMAIN [arr |-> x] = {"arr"}
      /\ \A x : DOMAIN [obj |-> x] = {"obj"}
  BY DEF Null
<1>2. /\ "int" \notin {"str", "nul", "flt", "bool", "arr", "obj"}
      /\ "str" \notin {"nul", "flt", "bool", "arr", "obj"}
      /\ "nul" \notin {"flt", "bool", "arr", "obj"}
      /\ "flt" \notin {"bool", "arr", "obj"} /\ "bool" \notin {"arr", "obj"}
  OBVIOUS
<1>3. ASSUME NEW n \in Int PROVE ValueText([int |-> n]) = <<ToString(n)>>
  BY <1>1, <1>2 DEF ValueText, Is, Text
<1>4. ASSUME NEW t PROVE ValueText([str |-> t]) = <<"\"">> \o t \o <<"\"">>
  <2>1. [str |-> t].str = t
    OBVIOUS
  <2> QED
    BY <1>1, <1>2, <2>1 DEF ValueText, Is
<1>5. ValueText(Null) = <<"null">>
  BY <1>1, <1>2 DEF ValueText, Is
<1>6. ASSUME NEW b \in BOOLEAN
      PROVE  ValueText([bool |-> b]) = IF b THEN <<"true">> ELSE <<"false">>
  <2>1. [bool |-> b].bool = b
    OBVIOUS
  <2> QED
    BY <1>1, <1>2, <2>1 DEF ValueText, Is
<1>7. ASSUME NEW v, Nested(v) PROVE ValueText(v) = <<ToString(v)>>
  <2>1. DOMAIN v = {"arr"} \/ DOMAIN v = {"obj"}
    BY <1>1, <1>7 DEF Nested
  <2>2. ~Is(v, "int") /\ ~Is(v, "flt") /\ ~Is(v, "str") /\ ~Is(v, "bool") /\ ~Is(v, "nul")
    BY <1>2, <2>1 DEF Is
  <2> QED
    BY <2>2 DEF ValueText
<1>8. ASSUME NEW v, NEW x, Word(v, x) PROVE ValueText(v) = <<x>>
  <2>1. CASE \E n \in Int : v = [int |-> n] /\ x = ToString(n)
    BY <1>3, <2>1
  <2>2. CASE v = Null /\ x = "null"
    BY <1>5, <2>2
  <2>3. CASE v = [bool |-> TRUE] /\ x = "true"
    BY <1>6, <2>3
  <2>4. CASE v = [bool |-> FALSE] /\ x = "false"
    BY <1>6, <2>4
  <2>5. CASE Nested(v) /\ x = ToString(v)
    BY <1>7, <2>5
  <2> QED
    BY <1>8, <2>1, <2>2, <2>3, <2>4, <2>5 DEF Word
<1>9. ASSUME NEW h \in Int
      PROVE  /\ h >= 0 => ValueText([flt |-> h]) =
                  (<<>> \o <<ToString(h \div 2)>>) \o <<HalfMark(h)>>
             /\ h < 0 => ValueText([flt |-> h]) =
                  (<<"-">> \o <<ToString((-h) \div 2)>>) \o <<HalfMark(-h)>>
  <2>1. [flt |-> h].flt = h
    OBVIOUS
  <2>2. ValueText([flt |-> h]) = FloatText(h, <<".0">>)
    BY <1>1, <1>2, <2>1 DEF ValueText, Is
  <2>3. PICK k : k = IF h < 0 THEN -h ELSE h
    OBVIOUS
  <2>4. FloatText(h, <<".0">>) =
          (IF h < 0 THEN <<"-">> ELSE <<>>) \o Text(k \div 2)
            \o IF k % 2 = 1 THEN <<".5">> ELSE <<".0">>
    BY <2>3 DEF FloatText
  <2>5. FloatText(h, <<".0">>) =
          ((IF h < 0 THEN <<"-">> ELSE <<>>) \o <<ToString(k \div 2)>>) \o <<HalfMark(k)>>
    <3>1. (IF k % 2 = 1 THEN <<".5">> ELSE <<".0">>) = <<HalfMark(k)>>
      BY DEF HalfMark
    <3> QED
      BY ONLY <2>4, <3>1 DEF Text
  <2>6. CASE h >= 0
    <3>1. k = h /\ ~(h < 0)
      BY <2>3, <2>6
    <3> QED
      BY ONLY <2>2, <2>5, <3>1
  <2>7. CASE h < 0
    <3>1. k = -h /\ ~(h >= 0)
      BY <2>3, <2>7
    <3> QED
      BY ONLY <2>2, <2>5, <2>7, <3>1
  <2> QED
    BY <2>6, <2>7
<1> QED
  BY <1>4, <1>8, <1>9

\* Texts are sequences of tokens, those of numbers among them.
LEMMA TokenFacts ==
  /\ \A n \in Int : ToString(n) \in Token
  /\ Marks \subseteq Token
  /\ \A t \in PlainString : t \in Tokens /\ \A i \in 1..Len(t) : t[i] # "\""
  /\ \A t \in PlainText : t \in Tokens /\ \A i \in 1..Len(t) : t[i] # "01"
<1>1. ASSUME NEW q, NEW t \in Seq(Token \ {q})
      PROVE  t \in Tokens /\ \A i \in 1..Len(t) : t[i] # q
  <2>1. \A i \in 1..Len(t) : t[i] \in Token /\ t[i] # q
    BY LenProperties
  <2> QED
    BY <2>1, LenProperties DEF Tokens
<1>2. \A t \in PlainString : t \in Tokens /\ \A i \in 1..Len(t) : t[i] # "\""
  BY <1>1 DEF PlainString
<1>3. \A t \in PlainText : t \in Tokens /\ \A i \in 1..Len(t) : t[i] # "01"
  BY <1>1 DEF PlainText
<1> QED
  BY <1>2, <1>3 DEF Token

\* The marks are tokens.
LEMMA MarkFacts ==
  /\ "01" \in Token /\ "\"" \in Token /\ "null" \in Token /\ ".5" \in Token /\ ".0" \in Token
  /\ ";" \in Token /\ "=" \in Token /\ "-" \in Token /\ "true" \in Token /\ "false" \in Token
BY TokenFacts DEF Marks

\* A token, and the text after it, are known from the text they begin.
LEMMA TokenRead ==
  \A x, y \in Token : \A a, b \in Tokens : Then(x, a) = Then(y, b) => x = y /\ a = b
<1> SUFFICES ASSUME NEW x \in Token, NEW y \in Token, NEW a \in Tokens, NEW b \in Tokens,
                    Then(x, a) = Then(y, b)
             PROVE  x = y /\ a = b
  OBVIOUS
<1> HIDE DEF Token
<1> QED
  BY FirstToken

\* A number is known from its half and its last bit.
LEMMA Halves ==
  /\ \A h \in Int : h \div 2 \in Int /\ HalfMark(h) \in Token /\ HalfMark(h) # ";"
  /\ \A h, k \in Int : h \div 2 = k \div 2 /\ HalfMark(h) = HalfMark(k) => h = k
<1>1. \A h \in Int : h \div 2 \in Int /\ h % 2 \in {0, 1} /\ h = 2 * (h \div 2) + (h % 2)
  OBVIOUS
<1>2. \A h : HalfMark(h) \in {".5", ".0"} /\ (HalfMark(h) = ".5" <=> h % 2 = 1)
  BY DEF HalfMark
<1>3. \A h, k \in Int : h \div 2 = k \div 2 /\ (h % 2 = 1 <=> k % 2 = 1) => h = k
  BY <1>1
<1>4. \A h \in Int : HalfMark(h) \in Token /\ HalfMark(h) # ";"
  BY <1>2, MarkFacts
<1> QED
  BY <1>1, <1>2, <1>3, <1>4

\* A word is a token that is no mark of a string or a sign, and tells its value.
LEMMA Words ==
  ASSUME DecimalTexts, NEW v, NEW x, Word(v, x)
  PROVE  /\ x \in Token /\ x # "\"" /\ x # "-"
         /\ \A w : Word(w, x) => w = v
<1>1. \A d : ToString(d) \in Token
  BY DEF DecimalTexts, Token
<1>2. ASSUME NEW w, NEW y, Word(w, y)
      PROVE  \/ \E n \in Int : w = [int |-> n] /\ y = ToString(n)
             \/ w = Null /\ y = "null"
             \/ w = [bool |-> TRUE] /\ y = "true"
             \/ w = [bool |-> FALSE] /\ y = "false"
             \/ Nested(w) /\ y = ToString(w)
  BY <1>2 DEF Word
<1>3. /\ "null" \notin {"true", "false", "-", "\""} /\ "true" \notin {"false", "-", "\""}
      /\ "false" \notin {"-", "\""}
  OBVIOUS
<1>4. \A n \in Int : ToString(n) \notin {"\"", "null", "true", "false", "-"}
  BY DEF DecimalTexts
<1>5. \A d : Nested(d) => ToString(d) \notin {"\"", "null", "true", "false", "-"}
  BY DEF DecimalTexts
<1>6. x \in Token /\ x # "\"" /\ x # "-"
  <2>1. CASE x \in {"null", "true", "false"}
    BY <1>3, <2>1, MarkFacts
  <2>2. CASE \E n \in Int : x = ToString(n)
    BY <1>1, <1>4, <2>2
  <2>3. CASE Nested(v) /\ x = ToString(v)
    BY <1>1, <1>5, <2>3
  <2> QED
    BY <1>2, <2>1, <2>2, <2>3, ZenonT(40)
<1>7. ASSUME NEW w, Word(w, x) PROVE w = v
  <2>1. CASE \E n \in Int : v = [int |-> n] /\ x = ToString(n)
    <3>1. PICK n \in Int : v = [int |-> n] /\ x = ToString(n)
      BY <2>1
    <3>2. x \notin {"null", "true", "false"} /\ ~(Nested(w) /\ x = ToString(w))
      BY <1>4, <3>1 DEF DecimalTexts
    <3>3. PICK m \in Int : w = [int |-> m] /\ x = ToString(m)
      BY <1>2, <1>7, <3>2
    <3> QED
      BY <3>1, <3>3 DEF DecimalTexts
  <2>2. CASE x \in {"null", "true", "false"}
    <3>1. \A n \in Int : x # ToString(n)
      BY <1>4, <2>2
    <3>2. ~(Nested(w) /\ x = ToString(w)) /\ ~(Nested(v) /\ x = ToString(v))
      BY <1>5, <2>2
    <3> QED
      BY <1>2, <1>3, <1>7, <3>1, <3>2
  <2>3. CASE Nested(v) /\ x = ToString(v)
    <3>1. x \notin {"null", "true", "false"} /\ \A n \in Int : x # ToString(n)
      BY <1>5, <2>3 DEF DecimalTexts
    <3>2. Nested(w) /\ x = ToString(w)
      BY <1>2, <1>7, <3>1
    <3> QED
      BY <2>3, <3>2 DEF DecimalTexts
  <2> QED
    BY <1>2, <2>1, <2>2, <2>3
<1> QED
  BY <1>6, <1>7

\* z is the text of v followed by s, for the kinds of values there are.
WordThen(v, s, z) == \E x \in Token : Word(v, x) /\ z = Then(x, s)
StrThen(v, s, z) ==
  \E t \in PlainString : v = [str |-> t] /\ z = Then("\"", t \o Then("\"", s))
HalvedThen(h, s, z) == z = Then(ToString(h \div 2), Then(HalfMark(h), s))
FltThen(v, s, z) == \E h \in Int : h >= 0 /\ v = [flt |-> h] /\ HalvedThen(h, s, z)
NegThen(v, s, z) ==
  \E h \in Int : \E y : h < 0 /\ v = [flt |-> h] /\ HalvedThen(-h, s, y) /\ z = Then("-", y)

\* The text of a value, and what follows it.
LEMMA ValueThen ==
  ASSUME DecimalTexts, NEW v, IsPlainValue(v), NEW s \in Tokens
  PROVE  /\ ValueText(v) \in Tokens
         /\ LET z == ValueText(v) \o s
            IN  WordThen(v, s, z) \/ StrThen(v, s, z) \/ FltThen(v, s, z) \/ NegThen(v, s, z)
<1>1. CASE \E x : Word(v, x)
  <2>1. PICK x : Word(v, x)
    BY <1>1
  <2>2. ValueText(v) = <<x>> /\ x \in Token
    BY <2>1, ValueTexts, Words
  <2>3. ValueText(v) \in Tokens /\ ValueText(v) \o s = Then(x, s)
    BY <2>2, TextLaws DEF Tokens
  <2> QED
    BY <2>1, <2>2, <2>3 DEF WordThen
<1>2. CASE \E t \in PlainString : v = [str |-> t]
  <2>1. PICK t \in PlainString : v = [str |-> t]
    BY <1>2
  <2> DEFINE q == <<"\"">>
  <2>2. ValueText(v) = (q \o t) \o q
    BY <2>1, ValueTexts
  <2>3. t \in Tokens /\ "\"" \in Token /\ q \in Tokens
    BY TokenFacts, MarkFacts, TextLaws
  <2>4. /\ q \in Tokens /\ q \o t \in Tokens /\ q \o s \in Tokens
        /\ t \o (q \o s) \in Tokens /\ (q \o t) \o q \in Tokens
    BY <2>3, TextLaws
  <2>5. \A a \in Tokens : q \o a = Then("\"", a)
    BY DEF Then
  <2> HIDE DEF q
  <2>6. Left4(q, t, q, s) = Right4(q, t, q, s)
    BY ONLY <2>3, s \in Tokens, FourTexts
  <2>7. ((q \o t) \o q) \o s = q \o (t \o (q \o s))
    BY ONLY <2>6 DEF Left4, Right4
  <2>8. q \o (t \o (q \o s)) = Then("\"", t \o Then("\"", s))
    BY <2>4, <2>5
  <2> QED
    BY <2>1, <2>2, <2>4, <2>7, <2>8 DEF StrThen
<1>3. ASSUME NEW h \in Int, NEW p \in Tokens
      PROVE  LET d == <<ToString(h \div 2)>>
                 g == <<HalfMark(h)>>
             IN  /\ (p \o d) \o g \in Tokens
                 /\ ((p \o d) \o g) \o s = p \o Then(ToString(h \div 2), Then(HalfMark(h), s))
                 /\ Then(ToString(h \div 2), Then(HalfMark(h), s)) \in Tokens
  <2> DEFINE d == <<ToString(h \div 2)>>
             g == <<HalfMark(h)>>
  <2>1. d \in Tokens /\ g \in Tokens
    <3>1. ToString(h \div 2) \in Token /\ HalfMark(h) \in Token
      BY TokenFacts, Halves
    <3> QED
      BY <3>1, TextLaws
  <2>2. d \o (g \o s) = Then(ToString(h \div 2), Then(HalfMark(h), s))
    BY DEF Then
  <2> HIDE DEF d, g
  <2>3. Left4(p, d, g, s) = Right4(p, d, g, s)
    BY ONLY <2>1, p \in Tokens, s \in Tokens, FourTexts
  <2>4. (p \o d) \o g \in Tokens /\ d \o (g \o s) \in Tokens
    BY <2>1, TextLaws
  <2>5. ((p \o d) \o g) \o s = p \o (d \o (g \o s))
    BY ONLY <2>3 DEF Left4, Right4
  <2> QED
    BY <2>2, <2>4, <2>5 DEF d, g
<1>4. CASE \E h \in Int : v = [flt |-> h]
  <2>1. PICK h \in Int : v = [flt |-> h]
    BY <1>4
  <2>2. CASE h >= 0
    <3>1. PICK y : y = Then(ToString(h \div 2), Then(HalfMark(h), s))
      OBVIOUS
    <3>2. <<>> \in Tokens
      BY DEF Tokens
    <3>3. ValueText(v) \in Tokens /\ ValueText(v) \o s = <<>> \o y /\ y \in Tokens
      BY <1>3, <2>1, <2>2, <3>1, <3>2, ValueTexts
    <3>4. ValueText(v) \o s = y
      BY <3>3, TextLaws
    <3> QED
      BY <2>1, <2>2, <3>1, <3>3, <3>4 DEF FltThen, HalvedThen
  <2>3. CASE h < 0
    <3>1. PICK k : k = -h
      OBVIOUS
    <3>2. k \in Int
      BY <3>1
    <3>3. PICK y : y = Then(ToString(k \div 2), Then(HalfMark(k), s))
      OBVIOUS
    <3>4. <<"-">> \in Tokens
      BY MarkFacts, TextLaws
    <3>5. ValueText(v) = (<<"-">> \o <<ToString(k \div 2)>>) \o <<HalfMark(k)>>
      BY <2>1, <2>3, <3>1, ValueTexts
    <3>6. ValueText(v) \in Tokens /\ ValueText(v) \o s = <<"-">> \o y
      BY <1>3, <3>2, <3>3, <3>4, <3>5
    <3>7. ValueText(v) \o s = Then("-", y)
      BY <3>6 DEF Then
    <3> QED
      BY <2>1, <2>3, <3>1, <3>3, <3>6, <3>7 DEF NegThen, HalvedThen
  <2> QED
    BY <2>1, <2>2, <2>3
<1> QED
  BY <1>1, <1>2, <1>4 DEF IsPlainValue

\* z is such a text, and x is its first token.
FirstIs(v, s, z, x) ==
  /\ x \in Token /\ \E a \in Tokens : z = Then(x, a)
  /\ IF x = "\"" THEN StrThen(v, s, z)
     ELSE IF x = "-" THEN NegThen(v, s, z)
     ELSE WordThen(v, s, z) \/ FltThen(v, s, z)

\* The text of a number of halves begins with its digits.
LEMMA HalvedText ==
  ASSUME DecimalTexts, NEW h \in Int, NEW s \in Tokens, NEW z, HalvedThen(h, s, z)
  PROVE  /\ z \in Tokens /\ Then(HalfMark(h), s) \in Tokens
         /\ ToString(h \div 2) \in Token /\ ToString(h \div 2) # "\"" /\ ToString(h \div 2) # "-"
<1>1. h \div 2 \in Int /\ HalfMark(h) \in Token
  BY Halves
<1>2. ToString(h \div 2) \in Token /\ ToString(h \div 2) # "\"" /\ ToString(h \div 2) # "-"
  BY <1>1, TokenFacts DEF DecimalTexts
<1>3. Then(HalfMark(h), s) \in Tokens
  BY <1>1, TextLaws
<1> QED
  BY <1>2, <1>3, TextLaws DEF HalvedThen

\* The first token tells strings and negative numbers from each other and the rest.
LEMMA FirstOfValue ==
  ASSUME DecimalTexts, NEW v, NEW s \in Tokens, NEW z,
         WordThen(v, s, z) \/ StrThen(v, s, z) \/ FltThen(v, s, z) \/ NegThen(v, s, z)
  PROVE  \E x : FirstIs(v, s, z, x)
<1>1. CASE WordThen(v, s, z)
  <2>1. PICK x \in Token : Word(v, x) /\ z = Then(x, s)
    BY <1>1 DEF WordThen
  <2>2. x # "\"" /\ x # "-"
    BY <2>1, Words
  <2> QED
    BY <1>1, <2>1, <2>2 DEF FirstIs
<1>2. CASE StrThen(v, s, z)
  <2>1. PICK t \in PlainString : z = Then("\"", t \o Then("\"", s))
    BY <1>2 DEF StrThen
  <2>2. "\"" \in Token /\ t \in Tokens
    BY TokenFacts, MarkFacts
  <2>3. t \o Then("\"", s) \in Tokens
    BY <2>2, TextLaws
  <2> QED
    BY <1>2, <2>1, <2>2, <2>3 DEF FirstIs
<1>3. CASE NegThen(v, s, z)
  <2>1. PICK h, y : h \in Int /\ HalvedThen(-h, s, y) /\ z = Then("-", y)
    BY <1>3 DEF NegThen
  <2>2. PICK k \in Int : k = -h
    BY <2>1
  <2>3. y \in Tokens
    BY <2>1, <2>2, HalvedText
  <2>4. "-" \in Token /\ "-" # "\""
    BY MarkFacts
  <2> QED
    BY <1>3, <2>1, <2>3, <2>4 DEF FirstIs
<1>4. CASE FltThen(v, s, z)
  <2>1. PICK h \in Int : HalvedThen(h, s, z)
    BY <1>4 DEF FltThen
  <2>2. /\ ToString(h \div 2) \in Token /\ Then(HalfMark(h), s) \in Tokens
        /\ ToString(h \div 2) # "\"" /\ ToString(h \div 2) # "-"
    BY <2>1, HalvedText
  <2>3. z = Then(ToString(h \div 2), Then(HalfMark(h), s))
    BY <2>1 DEF HalvedThen
  <2> QED
    BY <1>4, <2>2, <2>3 DEF FirstIs
<1> QED
  BY <1>1, <1>2, <1>3, <1>4

\* Strings with the same text are the same.
LEMMA StringRead ==
  ASSUME NEW v, NEW w, NEW r \in Tokens, NEW s \in Tokens, NEW z,
         StrThen(v, r, z), StrThen(w, s, z)
  PROVE  v = w /\ r = s
<1>1. PICK p \in PlainString : v = [str |-> p] /\ z = Then("\"", p \o Then("\"", r))
  BY DEF StrThen
<1>2. PICK q \in PlainString : w = [str |-> q] /\ z = Then("\"", q \o Then("\"", s))
  BY DEF StrThen
<1>3. /\ p \in Tokens /\ \A i \in 1..Len(p) : p[i] # "\""
      /\ q \in Tokens /\ \A i \in 1..Len(q) : q[i] # "\""
      /\ "\"" \in Token
  BY TokenFacts, MarkFacts
<1> DEFINE a == p \o Then("\"", r)
           b == q \o Then("\"", s)
<1>4. a \in Tokens /\ b \in Tokens
  BY <1>3, TextLaws
<1>5. Then("\"", a) = Then("\"", b)
  BY <1>1, <1>2
<1> HIDE DEF a, b
<1>6. a = b
  BY <1>3, <1>4, <1>5, TokenRead
<1>7. p \o Then("\"", r) = q \o Then("\"", s)
  BY <1>6 DEF a, b
<1>8. p = q /\ r = s
  <2> DEFINE x == "\""
  <2>1. /\ x \in Token
        /\ \A i \in 1..Len(p) : p[i] # x
        /\ \A i \in 1..Len(q) : q[i] # x
        /\ p \o Then(x, r) = q \o Then(x, s) /\ p \in Tokens /\ q \in Tokens
    BY <1>3, <1>7
  <2> HIDE DEF x
  <2> QED
    BY <2>1, SplitAt
<1> QED
  BY <1>1, <1>2, <1>8

\* Numbers of halves with the same text are the same.
LEMMA HalvedRead ==
  ASSUME DecimalTexts, NEW h \in Int, NEW k \in Int, NEW r \in Tokens, NEW s \in Tokens,
         NEW z, HalvedThen(h, r, z), HalvedThen(k, s, z)
  PROVE  h = k /\ r = s
<1>1. /\ ToString(h \div 2) \in Token /\ Then(HalfMark(h), r) \in Tokens
      /\ ToString(k \div 2) \in Token /\ Then(HalfMark(k), s) \in Tokens
  BY HalvedText
<1>2. Then(ToString(h \div 2), Then(HalfMark(h), r)) = Then(ToString(k \div 2), Then(HalfMark(k), s))
  BY DEF HalvedThen
<1>3. ToString(h \div 2) = ToString(k \div 2) /\ Then(HalfMark(h), r) = Then(HalfMark(k), s)
  BY ONLY <1>1, <1>2, TokenRead
<1>4. /\ h \div 2 \in Int /\ HalfMark(h) \in Token
      /\ k \div 2 \in Int /\ HalfMark(k) \in Token
  BY Halves
<1>5. HalfMark(h) = HalfMark(k) /\ r = s
  BY ONLY <1>3, <1>4, r \in Tokens, s \in Tokens, TokenRead
<1>6. h \div 2 = k \div 2
  BY <1>3, <1>4 DEF DecimalTexts
<1> QED
  BY <1>5, <1>6, Halves

\* A word goes on with the semicolon, the digits of a number of halves do not.
LEMMA WordIsNoNumber ==
  ASSUME DecimalTexts, NEW v, NEW w, NEW r \in Tokens, NEW s \in Tokens, NEW z,
         WordThen(v, Then(";", r), z), FltThen(w, Then(";", s), z)
  PROVE  FALSE
<1>1. PICK m : m = ";"
  OBVIOUS
<1>2. PICK c : c = Then(m, r)
  OBVIOUS
<1>3. PICK d : d = Then(m, s)
  OBVIOUS
<1>4. m \in Token /\ c \in Tokens /\ d \in Tokens
  BY <1>1, <1>2, <1>3, MarkFacts, TextLaws
<1>5. PICK x \in Token : z = Then(x, c)
  BY <1>1, <1>2 DEF WordThen
<1>6. PICK k \in Int : HalvedThen(k, d, z)
  BY <1>1, <1>3 DEF FltThen
<1>7. ToString(k \div 2) \in Token /\ Then(HalfMark(k), d) \in Tokens
  BY <1>4, <1>6, HalvedText
<1>8. Then(x, c) = Then(ToString(k \div 2), Then(HalfMark(k), d))
  BY <1>5, <1>6 DEF HalvedThen
<1>9. c = Then(HalfMark(k), d)
  BY ONLY <1>4, <1>5, <1>7, <1>8, TokenRead
<1>10. HalfMark(k) \in Token /\ HalfMark(k) # m
  BY <1>1, Halves
<1>11. Then(m, r) = Then(HalfMark(k), d)
  BY <1>2, <1>9
<1> QED
  BY ONLY <1>4, <1>10, <1>11, r \in Tokens, TokenRead

\* Values with the same text, each followed by a semicolon, are the same.
LEMMA ValueRead ==
  ASSUME DecimalTexts, NEW v, NEW w, IsPlainValue(v), IsPlainValue(w),
         NEW r \in Tokens, NEW s \in Tokens,
         ValueText(v) \o Then(";", r) = ValueText(w) \o Then(";", s)
  PROVE  v = w /\ r = s
<1> DEFINE rest == Then(";", r)
           more == Then(";", s)
           z == ValueText(v) \o rest
           OneOf(u, c) == WordThen(u, c, z) \/ StrThen(u, c, z) \/ FltThen(u, c, z) \/ NegThen(u, c, z)
<1>1. ";" \in Token /\ "-" \in Token
  BY MarkFacts
<1>2. rest \in Tokens /\ more \in Tokens
  BY <1>1, TextLaws
<1>3. rest = more => r = s
  BY <1>1, TokenRead
<1>4. z = ValueText(w) \o more
  OBVIOUS
<1>12. /\ ~(WordThen(v, rest, z) /\ FltThen(w, more, z))
       /\ ~(WordThen(w, more, z) /\ FltThen(v, rest, z))
  BY WordIsNoNumber
<1> HIDE DEF rest, more, z
<1>5. OneOf(v, rest)
  BY <1>2, ValueThen DEF z
<1>6. OneOf(w, more)
  BY <1>2, <1>4, ValueThen
<1>7. PICK x : FirstIs(v, rest, z, x)
  BY <1>2, <1>5, FirstOfValue
<1>8. PICK y : FirstIs(w, more, z, y)
  BY <1>2, <1>6, FirstOfValue
<1>9. x = y
  <2>1. PICK c \in Tokens : x \in Token /\ z = Then(x, c)
    BY <1>7 DEF FirstIs
  <2>2. PICK d \in Tokens : y \in Token /\ z = Then(y, d)
    BY <1>8 DEF FirstIs
  <2> QED
    BY ONLY <2>1, <2>2, TokenRead
<1>10. CASE x = "\""
  <2>1. StrThen(v, rest, z) /\ StrThen(w, more, z)
    BY <1>7, <1>8, <1>9, <1>10 DEF FirstIs
  <2> QED
    BY <1>2, <1>3, <2>1, StringRead
<1>11. CASE x = "-"
  <2>1. x # "\""
    BY <1>11
  <2>2. NegThen(v, rest, z) /\ NegThen(w, more, z)
    BY <1>7, <1>8, <1>9, <1>11, <2>1 DEF FirstIs
  <2>3. PICK h, a : h \in Int /\ v = [flt |-> h] /\ HalvedThen(-h, rest, a) /\ z = Then("-", a)
    BY <2>2 DEF NegThen
  <2>4. PICK k, b : k \in Int /\ w = [flt |-> k] /\ HalvedThen(-k, more, b) /\ z = Then("-", b)
    BY <2>2 DEF NegThen
  <2>9. h \in Int /\ k \in Int
    BY <2>3, <2>4
  <2>5. a \in Tokens /\ b \in Tokens
    <3>1. -h \in Int /\ -k \in Int
      BY ONLY <2>9
    <3> QED
      BY <1>2, <2>3, <2>4, <3>1, HalvedText
  <2>6. a = b
    <3>1. PICK m : m = "-"
      OBVIOUS
    <3>2. m \in Token /\ Then(m, a) = Then(m, b)
      BY <1>1, <2>3, <2>4, <3>1
    <3> QED
      BY ONLY <2>5, <3>2, TokenRead
  <2>7. -h = -k /\ rest = more
    <3>1. -h \in Int /\ -k \in Int
      BY ONLY <2>9
    <3> QED
      BY <1>2, <2>3, <2>4, <2>6, <3>1, HalvedRead
  <2>8. h = k
    BY ONLY <2>7, <2>9
  <2> QED
    BY <1>3, <2>3, <2>4, <2>7, <2>8
<1>13. CASE x # "\"" /\ x # "-"
  <2>1. /\ WordThen(v, rest, z) \/ FltThen(v, rest, z)
        /\ WordThen(w, more, z) \/ FltThen(w, more, z)
    BY <1>7, <1>8, <1>9, <1>13 DEF FirstIs
  <2>2. CASE WordThen(v, rest, z) /\ WordThen(w, more, z)
    <3>1. PICK a \in Token : Word(v, a) /\ z = Then(a, rest)
      BY <2>2 DEF WordThen
    <3>2. PICK b \in Token : Word(w, b) /\ z = Then(b, more)
      BY <2>2 DEF WordThen
    <3>3. Then(a, rest) = Then(b, more) /\ a \in Token /\ b \in Token
      BY <3>1, <3>2
    <3>4. a = b /\ rest = more
      BY ONLY <1>2, <3>3, TokenRead
    <3> QED
      BY <1>3, <3>1, <3>2, <3>4, Words
  <2>3. CASE FltThen(v, rest, z) /\ FltThen(w, more, z)
    <3>1. PICK h \in Int : v = [flt |-> h] /\ HalvedThen(h, rest, z)
      BY <2>3 DEF FltThen
    <3>2. PICK k \in Int : w = [flt |-> k] /\ HalvedThen(k, more, z)
      BY <2>3 DEF FltThen
    <3>3. h = k /\ rest = more
      BY <1>2, <3>1, <3>2, HalvedRead
    <3> QED
      BY <1>3, <3>1, <3>2, <3>3
  <2> QED
    BY <1>12, <2>1, <2>2, <2>3
<1> QED
  BY <1>10, <1>11, <1>13


-----------------------------------------------------------------------------
(* The arguments, one key after the other.  Of two texts that differ first  *)
(* in whether an argument is there one begins with its key and the sign     *)
(* after it, the other with another key, or it ends.                        *)

ArgKeys == ToSet(SortedKeys)
KeyCount == Len(SortedKeys)

\* Keys whose text does not hold the sign that ends it.
FreeKey(k) == "=" \notin ToSet(KeyText[k])

\* The arguments fingerprints are made for, and those without a sign in a key.
IsPlainArgs(g) ==
  /\ g = [k \in DOMAIN g |-> g[k]]
  /\ DOMAIN g \subseteq ArgKeys
  /\ \A k \in DOMAIN g : IsPlainValue(g[k])
IsFreeArgs(g) == IsPlainArgs(g) /\ \A k \in DOMAIN g : FreeKey(k)

\* Every key has one place and a text of its own.
LEMMA KeyFacts ==
  /\ KeyCount \in Nat /\ DOMAIN SortedKeys = 1..KeyCount
  /\ \A j \in 1..KeyCount : SortedKeys[j] \in ArgKeys
  /\ \A k \in ArgKeys : \E j \in 1..KeyCount : SortedKeys[j] = k
  /\ \A i, j \in 1..KeyCount : SortedKeys[i] = SortedKeys[j] => i = j
  /\ \A k \in ArgKeys : KeyText[k] \in Tokens
  /\ \A k \in ArgKeys : FreeKey(k) => \A i \in 1..Len(KeyText[k]) : KeyText[k][i] # "="
  /\ \A j, k \in ArgKeys : KeyText[j] = KeyText[k] => j = k
<1>1. KeyCount \in Nat /\ DOMAIN SortedKeys = 1..KeyCount
  BY KeyAssumption, LenProperties DEF KeyCount
<1>2. /\ \A j \in 1..KeyCount : SortedKeys[j] \in ArgKeys
      /\ \A k \in ArgKeys : \E j \in 1..KeyCount : SortedKeys[j] = k
  BY <1>1 DEF ArgKeys, ToSet
<1>3. \A i, j \in 1..KeyCount : SortedKeys[i] = SortedKeys[j] => i = j
  BY <1>1, KeyAssumption DEF IsInjective
<1>4. \A k \in ArgKeys : KeyText[k] \in Seq(STRING)
  BY KeyAssumption DEF ArgKeys
<1>5. \A t \in Seq(STRING) : t \in Tokens /\ DOMAIN t = 1..Len(t)
  <2> SUFFICES ASSUME NEW t \in Seq(STRING) PROVE t \in Tokens /\ DOMAIN t = 1..Len(t)
    OBVIOUS
  <2>1. STRING \subseteq Token
    BY DEF Token
  <2> DEFINE S == STRING
  <2>2. t \in Seq(S) /\ S \subseteq Token
    BY <2>1
  <2> HIDE DEF Token, S
  <2> QED
    BY <2>2, LenProperties DEF Tokens
<1>6. \A k \in ArgKeys : FreeKey(k) => \A i \in 1..Len(KeyText[k]) : KeyText[k][i] # "="
  BY <1>4, <1>5 DEF FreeKey, ToSet
<1>7. \A j, k \in ArgKeys : KeyText[j] = KeyText[k] => j = k
  BY KeyAssumption DEF IsInjective, ArgKeys
<1> QED
  BY <1>1, <1>2, <1>3, <1>4, <1>5, <1>6, <1>7

\* What a turn of the loop over the keys makes of the text, and what it appends.
WriteArg(args, text, k) ==
  IF k \in DOMAIN args
  THEN text \o KeyText[k] \o <<"=">> \o ValueText(args[k]) \o <<";">>
  ELSE text
Assigned(args, k) == KeyText[k] \o <<"=">> \o ValueText(args[k]) \o <<";">>
Written(args, k) == IF k \in DOMAIN args THEN Assigned(args, k) ELSE <<>>

ArgsHistory(h, args) ==
  /\ h[0] = <<>>
  /\ \A k \in 1..KeyCount : h[k] = WriteArg(args, h[k - 1], SortedKeys[k])

\* The loop has a history, in any set its turns do not leave.
LEMMA ArgsAreFolded ==
  ASSUME NEW args, NEW V, <<>> \in V,
         \A text \in V, k \in ArgKeys : WriteArg(args, text, k) \in V
  PROVE  \E h : /\ ArgsHistory(h, args) /\ ArgsText(args) = h[KeyCount]
                /\ \A k \in 0..KeyCount : h[k] \in V
<1> DEFINE n == KeyCount
           Write(text, k) == IF k \in DOMAIN args
                             THEN text \o KeyText[k] \o <<"=">> \o ValueText(args[k]) \o <<";">>
                             ELSE text
           step == [p \in (1..n) \X V |-> Write(p[2], SortedKeys[p[1]])]
           Eqn(g) == g = [T \in SUBSET DOMAIN SortedKeys |->
                            IF T = {} THEN <<>> ELSE Write(g[T \ {Max(T)}], SortedKeys[Max(T)])]
           iter == CHOOSE g : Eqn(g)
           h == [k \in 0..n |-> iter[1..k]]
<1>1. n \in Nat /\ DOMAIN SortedKeys = 1..n
  BY KeyFacts
<1>2. ArgsText(args) = iter[DOMAIN SortedKeys]
  BY DEF ArgsText, FoldLeft, MapThenFoldSet
<1>3. \A text, k : Write(text, k) = WriteArg(args, text, k)
  BY DEF WriteArg
<1> HIDE DEF Write, n
<1>4. step \in [(1..n) \X V -> V]
  <2>1. ASSUME NEW k \in 1..n, NEW text \in V PROVE Write(text, SortedKeys[k]) \in V
    <3>1. SortedKeys[k] \in ArgKeys
      BY KeyFacts DEF n
    <3> QED
      BY <1>3, <3>1
  <2> QED
    BY <2>1
<1>5. \A T \in SUBSET (1..n) : T # {} => Max(T) \in 1..n /\ T \ {Max(T)} \in SUBSET (1..n)
  BY <1>1, GreatestExists
<1>6. PICK g \in [SUBSET (1..n) -> V] : IsFold(g, n, <<>>, step)
  <2> HIDE DEF step, iter
  <2> QED
    BY <1>1, <1>4, FoldExists
<1>7. Eqn(g)
  <2>1. \A T \in SUBSET (1..n) :
          g[T] = IF T = {} THEN <<>> ELSE Write(g[T \ {Max(T)}], SortedKeys[Max(T)])
    BY <1>5, <1>6 DEF IsFold
  <2>2. g = [T \in SUBSET (1..n) |-> g[T]]
    BY <1>6
  <2> QED
    BY <1>1, <2>1, <2>2
<1>8. Eqn(iter)
  BY <1>7
<1>9. h[0] = <<>> /\ h[n] = iter[DOMAIN SortedKeys]
  <2>1. 1..0 = {} /\ 0 \in 0..n /\ n \in 0..n
    BY <1>1
  <2> HIDE DEF iter
  <2> QED
    BY <1>1, <1>8, <2>1
<1>10. ASSUME NEW k \in 1..n PROVE h[k] = WriteArg(args, h[k - 1], SortedKeys[k])
  <2>1. k \in 0..n /\ k - 1 \in 0..n
    BY <1>1
  <2>2. 1..k \in SUBSET DOMAIN SortedKeys /\ 1..k # {} /\ Max(1..k) = k
        /\ (1..k) \ {Max(1..k)} = 1..(k - 1)
    BY <1>1, Turn
  <2>3. iter[1..k] = Write(iter[(1..k) \ {Max(1..k)}], SortedKeys[Max(1..k)])
    <3> HIDE DEF iter
    <3> QED
      BY <1>8, <2>2
  <2> HIDE DEF iter
  <2> QED
    BY <1>3, <2>1, <2>2, <2>3
<1>11. \A k \in 0..n : h[k] \in V
  <2> DEFINE S == {k \in 0..n : h[k] \in V}
  <2>1. 0 \in S
    BY <1>1, <1>9
  <2>2. ASSUME NEW k \in 0..n, k \in S, k < n PROVE k + 1 \in S
    <3>1. k + 1 \in 1..n /\ k + 1 \in 0..n /\ (k + 1) - 1 = k /\ h[k] \in V
      BY <1>1, <2>2
    <3>2. SortedKeys[k + 1] \in ArgKeys
      BY <3>1, KeyFacts DEF n
    <3> HIDE DEF h
    <3>3. h[k + 1] \in V
      BY <1>10, <3>1, <3>2
    <3> QED
      BY <3>1, <3>3
  <2> HIDE DEF S, h
  <2>3. 0..n \subseteq S
    BY <1>1, <2>1, <2>2, BoundedInduction
  <2> QED
    BY <2>3 DEF S
<1> HIDE DEF h, iter
<1> QED
  BY <1>2, <1>9, <1>10, <1>11 DEF ArgsHistory, n

\* Empty arguments are written as nothing, like none.
LEMMA NoArgsText == ArgsText(<<>>) = <<>>
<1> DEFINE V == {<<>>}
<1>1. DOMAIN <<>> = {}
  OBVIOUS
<1>2. \A text \in V, k \in ArgKeys : WriteArg(<<>>, text, k) \in V
  BY <1>1 DEF WriteArg
<1>3. PICK h : ArgsText(<<>>) = h[KeyCount] /\ \A k \in 0..KeyCount : h[k] \in V
  <2>1. <<>> \in V
    OBVIOUS
  <2> HIDE DEF V
  <2> QED
    BY <1>2, <2>1, ArgsAreFolded
<1>4. KeyCount \in 0..KeyCount
  BY KeyFacts
<1> QED
  BY <1>3, <1>4

\* They are arguments with no sign in a key.
LEMMA NoArgsAreFree == IsFreeArgs(<<>>)
<1>1. DOMAIN <<>> = {} /\ <<>> = [k \in DOMAIN <<>> |-> <<>>[k]]
  OBVIOUS
<1> QED
  BY <1>1 DEF IsFreeArgs, IsPlainArgs

\* What is written for a key is a text.
LEMMA WrittenText ==
  ASSUME DecimalTexts, NEW args, IsPlainArgs(args), NEW k \in ArgKeys
  PROVE  /\ Written(args, k) \in Tokens
         /\ KeyText[k] \in Tokens /\ <<"=">> \in Tokens /\ <<";">> \in Tokens
         /\ "=" \in Token /\ ";" \in Token
         /\ k \in DOMAIN args => IsPlainValue(args[k]) /\ ValueText(args[k]) \in Tokens
<1>1. "=" \in Token /\ ";" \in Token
  BY MarkFacts
<1>2. KeyText[k] \in Tokens /\ <<"=">> \in Tokens /\ <<";">> \in Tokens /\ <<>> \in Tokens
  <2>1. <<>> \in Tokens
    BY DEF Tokens
  <2> QED
    BY <1>1, <2>1, KeyFacts, TextLaws
<1>3. k \in DOMAIN args => IsPlainValue(args[k])
  BY DEF IsPlainArgs
<1>4. k \in DOMAIN args => ValueText(args[k]) \in Tokens
  BY <1>2, <1>3, ValueThen
<1>5. k \in DOMAIN args => Assigned(args, k) \in Tokens
  <2> SUFFICES ASSUME k \in DOMAIN args PROVE Assigned(args, k) \in Tokens
    OBVIOUS
  <2> DEFINE p == KeyText[k]
             q == <<"=">>
             v == ValueText(args[k])
             e == <<";">>
  <2>1. p \in Tokens /\ q \in Tokens /\ v \in Tokens /\ e \in Tokens
    BY <1>2, <1>4
  <2> HIDE DEF p, q, v, e
  <2>2. p \o q \in Tokens
    BY ONLY <2>1, TextLaws
  <2>3. (p \o q) \o v \in Tokens
    BY ONLY <2>1, <2>2, TextLaws
  <2>4. ((p \o q) \o v) \o e \in Tokens
    BY ONLY <2>1, <2>3, TextLaws
  <2> QED
    BY <2>4 DEF Assigned, p, q, v, e
<1>6. Written(args, k) \in Tokens
  BY <1>2, <1>5 DEF Written
<1> QED
  BY <1>1, <1>2, <1>3, <1>4, <1>6

\* A turn of the loop appends what is written for its key.
LEMMA WrittenNext ==
  ASSUME DecimalTexts, NEW args, IsPlainArgs(args), NEW k \in ArgKeys, NEW text \in Tokens
  PROVE  WriteArg(args, text, k) = text \o Written(args, k)
<1>1. CASE k \in DOMAIN args
  <2> DEFINE p == KeyText[k]
             q == <<"=">>
             v == ValueText(args[k])
             r == <<";">>
  <2>1. p \in Tokens /\ q \in Tokens /\ v \in Tokens /\ r \in Tokens
    BY <1>1, WrittenText
  <2>2. Written(args, k) = ((p \o q) \o v) \o r
    BY <1>1 DEF Written, Assigned
  <2>3. WriteArg(args, text, k) = (((text \o p) \o q) \o v) \o r
    BY <1>1 DEF WriteArg
  <2> HIDE DEF p, q, v, r
  <2>4. Left5(text, p, q, v, r) = Right5(text, p, q, v, r)
    BY ONLY <2>1, text \in Tokens, FiveTexts
  <2>5. Left4(p, q, v, r) = Right4(p, q, v, r)
    BY ONLY <2>1, FourTexts
  <2> QED
    BY ONLY <2>2, <2>3, <2>4, <2>5 DEF Left4, Right4, Left5, Right5
<1>2. CASE k \notin DOMAIN args
  BY <1>2, TextLaws DEF WriteArg, Written
<1> QED
  BY <1>1, <1>2

\* So the history of the loop is one of texts.
LEMMA ArgsWritten ==
  ASSUME DecimalTexts, NEW args, IsPlainArgs(args)
  PROVE  \E h : /\ h[0] = <<>> /\ ArgsText(args) = h[KeyCount]
                /\ \A k \in 0..KeyCount : h[k] \in Tokens
                /\ \A k \in 1..KeyCount : h[k] = h[k - 1] \o Written(args, SortedKeys[k])
<1>1. <<>> \in Tokens
  BY DEF Tokens
<1>2. \A text \in Tokens, k \in ArgKeys :
        WriteArg(args, text, k) = text \o Written(args, k) /\ WriteArg(args, text, k) \in Tokens
  <2> SUFFICES ASSUME NEW text \in Tokens, NEW k \in ArgKeys
               PROVE  /\ WriteArg(args, text, k) = text \o Written(args, k)
                      /\ WriteArg(args, text, k) \in Tokens
    OBVIOUS
  <2>1. WriteArg(args, text, k) = text \o Written(args, k)
    BY WrittenNext
  <2>2. Written(args, k) \in Tokens
    BY WrittenText
  <2> QED
    BY <2>1, <2>2, TextLaws
<1>3. PICK h : /\ ArgsHistory(h, args) /\ ArgsText(args) = h[KeyCount]
               /\ \A k \in 0..KeyCount : h[k] \in Tokens
  <2> DEFINE V == Tokens
  <2>1. <<>> \in V /\ \A text \in V, k \in ArgKeys : WriteArg(args, text, k) \in V
    BY <1>1, <1>2
  <2> HIDE DEF V
  <2>2. \E h : /\ ArgsHistory(h, args) /\ ArgsText(args) = h[KeyCount]
               /\ \A k \in 0..KeyCount : h[k] \in V
    BY <2>1, ArgsAreFolded
  <2> QED
    BY <2>2 DEF V
<1>4. ASSUME NEW k \in 1..KeyCount PROVE h[k] = h[k - 1] \o Written(args, SortedKeys[k])
  <2>1. k - 1 \in 0..KeyCount /\ SortedKeys[k] \in ArgKeys
    BY KeyFacts
  <2>2. h[k - 1] \in Tokens
    BY <1>3, <2>1
  <2>3. h[k] = WriteArg(args, h[k - 1], SortedKeys[k])
    BY <1>3 DEF ArgsHistory
  <2> QED
    BY <1>2, <2>1, <2>2, <2>3
<1> QED
  BY <1>3, <1>4 DEF ArgsHistory

\* The text begins with the key and the sign after it.
Begins(r, k) == \E z \in Tokens : r = KeyText[k] \o Then("=", z)

\* With one key at most, and then what follows it is known.
LEMMA KeyRead ==
  ASSUME NEW j \in ArgKeys, NEW k \in ArgKeys, FreeKey(j), FreeKey(k),
         NEW y \in Tokens, NEW z \in Tokens,
         KeyText[j] \o Then("=", y) = KeyText[k] \o Then("=", z)
  PROVE  j = k /\ y = z
<1>1. PICK a : a = KeyText[j]
  OBVIOUS
<1>2. PICK b : b = KeyText[k]
  OBVIOUS
<1>3. PICK x : x = "="
  OBVIOUS
<1>4. /\ a \in Tokens /\ b \in Tokens /\ x \in Token
      /\ \A i \in 1..Len(a) : a[i] # x
      /\ \A i \in 1..Len(b) : b[i] # x
  BY <1>1, <1>2, <1>3, KeyFacts, MarkFacts
<1>5. a \o Then(x, y) = b \o Then(x, z)
  BY <1>1, <1>2, <1>3
<1>6. a = b /\ y = z
  BY ONLY <1>4, <1>5, y \in Tokens, z \in Tokens, SplitAt
<1> QED
  BY <1>1, <1>2, <1>6, KeyFacts

\* What is written for a key, with what follows it.
Leading(args, k, r) == Written(args, k) \o r

\* It is the key, the sign after it, the value, the semicolon and the rest.
LEMMA WrittenThen ==
  ASSUME DecimalTexts, NEW args, IsPlainArgs(args), NEW k \in ArgKeys, NEW r \in Tokens
  PROVE  /\ Leading(args, k, r) \in Tokens
         /\ k \notin DOMAIN args => Leading(args, k, r) = r
         /\ k \in DOMAIN args =>
              /\ ValueText(args[k]) \o Then(";", r) \in Tokens
              /\ Leading(args, k, r) =
                   KeyText[k] \o Then("=", ValueText(args[k]) \o Then(";", r))
<1>1. Leading(args, k, r) \in Tokens
  BY WrittenText, TextLaws DEF Leading
<1>2. k \notin DOMAIN args => Leading(args, k, r) = r
  BY TextLaws DEF Leading, Written
<1>3. ASSUME k \in DOMAIN args
      PROVE  /\ ValueText(args[k]) \o Then(";", r) \in Tokens
             /\ Leading(args, k, r) =
                  KeyText[k] \o Then("=", ValueText(args[k]) \o Then(";", r))
  <2> DEFINE p == KeyText[k]
             q == <<"=">>
             v == ValueText(args[k])
             e == <<";">>
             w == v \o (e \o r)
  <2>1. p \in Tokens /\ q \in Tokens /\ v \in Tokens /\ e \in Tokens
    BY <1>3, WrittenText
  <2>2. Leading(args, k, r) = (((p \o q) \o v) \o e) \o r
    BY <1>3 DEF Leading, Written, Assigned
  <2>3. \A a : Then("=", a) = q \o a /\ Then(";", a) = e \o a
    BY DEF Then
  <2> HIDE DEF p, q, v, e
  <2>4. Left5(p, q, v, e, r) = Right5(p, q, v, e, r)
    BY ONLY <2>1, r \in Tokens, FiveTexts
  <2>5. (((p \o q) \o v) \o e) \o r = p \o (q \o w)
    BY ONLY <2>4 DEF Left5, Right5, w
  <2>6. e \o r \in Tokens /\ w \in Tokens
    BY <2>1, TextLaws
  <2>7. w = v \o Then(";", r) /\ q \o w = Then("=", w)
    BY <2>3
  <2> HIDE DEF w
  <2> QED
    BY <2>2, <2>5, <2>6, <2>7 DEF p, v
<1> QED
  BY <1>1, <1>2, <1>3

\* Both have the argument, with one value, or neither.
SameArg(args, brgs, k) ==
  /\ k \in DOMAIN args <=> k \in DOMAIN brgs
  /\ k \in DOMAIN args => args[k] = brgs[k]

\* If what follows does not begin with the key, the text tells whether the argument is
\* there, its value, and what follows.
LEMMA WrittenRead ==
  ASSUME DecimalTexts, NEW args, NEW brgs, IsFreeArgs(args), IsFreeArgs(brgs),
         NEW k \in ArgKeys, NEW r \in Tokens, NEW s \in Tokens,
         FreeKey(k) => ~Begins(r, k) /\ ~Begins(s, k),
         Leading(args, k, r) = Leading(brgs, k, s)
  PROVE  SameArg(args, brgs, k) /\ r = s
<1>1. ASSUME NEW g, IsFreeArgs(g), k \in DOMAIN g, NEW t \in Tokens
      PROVE  /\ FreeKey(k) /\ IsPlainValue(g[k])
             /\ ValueText(g[k]) \o Then(";", t) \in Tokens
             /\ Leading(g, k, t) = KeyText[k] \o Then("=", ValueText(g[k]) \o Then(";", t))
  BY <1>1, WrittenThen DEF IsFreeArgs, IsPlainArgs
<1>2. \A g, t : IsFreeArgs(g) /\ k \notin DOMAIN g /\ t \in Tokens => Leading(g, k, t) = t
  BY WrittenThen DEF IsFreeArgs
<1>3. CASE k \in DOMAIN args /\ k \in DOMAIN brgs
  <2>1. PICK c : c = ValueText(args[k]) \o Then(";", r)
    OBVIOUS
  <2>2. PICK d : d = ValueText(brgs[k]) \o Then(";", s)
    OBVIOUS
  <2>3. /\ FreeKey(k) /\ c \in Tokens /\ d \in Tokens
        /\ Leading(args, k, r) = KeyText[k] \o Then("=", c)
        /\ Leading(brgs, k, s) = KeyText[k] \o Then("=", d)
    BY <1>1, <1>3, <2>1, <2>2
  <2>4. KeyText[k] \o Then("=", c) = KeyText[k] \o Then("=", d)
    BY <2>3
  <2>5. c = d
    BY <2>3, <2>4, KeyRead
  <2>6. IsPlainValue(args[k]) /\ IsPlainValue(brgs[k])
    BY <1>1, <1>3
  <2>7. ValueText(args[k]) \o Then(";", r) = ValueText(brgs[k]) \o Then(";", s)
    BY <2>1, <2>2, <2>5
  <2>8. args[k] = brgs[k] /\ r = s
    <3>1. PICK v : v = args[k]
      OBVIOUS
    <3>2. PICK w : w = brgs[k]
      OBVIOUS
    <3>3. IsPlainValue(v) /\ IsPlainValue(w)
      BY <2>6, <3>1, <3>2
    <3>4. ValueText(v) \o Then(";", r) = ValueText(w) \o Then(";", s)
      BY <2>7, <3>1, <3>2
    <3>5. v = w /\ r = s
      BY ONLY DecimalTexts, r \in Tokens, s \in Tokens, <3>3, <3>4, ValueRead
    <3> QED
      BY <3>1, <3>2, <3>5
  <2> QED
    BY <1>3, <2>8 DEF SameArg
<1>4. CASE k \in DOMAIN args /\ k \notin DOMAIN brgs
  <2>1. FreeKey(k) /\ Begins(Leading(args, k, r), k)
    BY <1>1, <1>4 DEF Begins
  <2>2. Leading(brgs, k, s) = s
    BY <1>2, <1>4
  <2> QED
    BY <2>1, <2>2
<1>5. CASE k \notin DOMAIN args /\ k \in DOMAIN brgs
  <2>1. FreeKey(k) /\ Begins(Leading(brgs, k, s), k)
    BY <1>1, <1>5 DEF Begins
  <2>2. Leading(args, k, r) = r
    BY <1>2, <1>5
  <2> QED
    BY <2>1, <2>2
<1>6. CASE k \notin DOMAIN args /\ k \notin DOMAIN brgs
  <2>1. Leading(args, k, r) = r /\ Leading(brgs, k, s) = s
    BY <1>2, <1>6
  <2> QED
    BY <1>6, <2>1 DEF SameArg
<1> QED
  BY <1>3, <1>4, <1>5, <1>6

\* The text begins with none of the first n keys.
NoneOf(r, n) == \A j \in 1..n : FreeKey(SortedKeys[j]) => ~Begins(r, SortedKeys[j])

\* Nor does it with the next one, or nothing, written before it.
LEMMA NoneBefore ==
  ASSUME DecimalTexts, NEW args, IsFreeArgs(args), NEW n \in 0..KeyCount, n < KeyCount,
         NEW r \in Tokens, NoneOf(r, n + 1)
  PROVE  NoneOf(Leading(args, SortedKeys[n + 1], r), n)
<1>1. PICK k : k = SortedKeys[n + 1]
  OBVIOUS
<1>2. n \in Nat /\ n + 1 \in 1..KeyCount
  BY KeyFacts
<1>3. k \in ArgKeys
  BY <1>1, <1>2, KeyFacts
<1>4. PICK t : t = Leading(args, k, r)
  OBVIOUS
<1> SUFFICES ASSUME NEW j \in 1..n, FreeKey(SortedKeys[j]), Begins(t, SortedKeys[j])
             PROVE  FALSE
  BY <1>1, <1>4 DEF NoneOf
<1>5. j \in 1..(n + 1) /\ j \in 1..KeyCount /\ j # n + 1
  BY <1>2, KeyFacts
<1>6. SortedKeys[j] \in ArgKeys /\ SortedKeys[j] # k
  BY <1>1, <1>2, <1>5, KeyFacts
<1>7. CASE k \in DOMAIN args
  <2>1. PICK d : d = ValueText(args[k]) \o Then(";", r)
    OBVIOUS
  <2>2. FreeKey(k) /\ d \in Tokens /\ t = KeyText[k] \o Then("=", d)
    BY <1>3, <1>4, <1>7, <2>1, WrittenThen DEF IsFreeArgs
  <2>3. PICK z \in Tokens : t = KeyText[SortedKeys[j]] \o Then("=", z)
    BY DEF Begins
  <2>4. KeyText[SortedKeys[j]] \o Then("=", z) = KeyText[k] \o Then("=", d)
    BY <2>2, <2>3
  <2>5. SortedKeys[j] = k
    BY <1>3, <1>6, <2>2, <2>4, KeyRead
  <2> QED
    BY <1>6, <2>5
<1>8. CASE k \notin DOMAIN args
  <2>1. t = r
    BY <1>3, <1>4, <1>8, WrittenThen DEF IsFreeArgs
  <2> QED
    BY <1>5, <2>1 DEF NoneOf
<1> QED
  BY <1>7, <1>8

\* Arguments with the same text are the same, if no key holds the sign after it.
LEMMA ArgsRead ==
  ASSUME DecimalTexts, NEW args, NEW brgs, IsFreeArgs(args), IsFreeArgs(brgs),
         ArgsText(args) = ArgsText(brgs)
  PROVE  args = brgs
<1>1. IsPlainArgs(args) /\ IsPlainArgs(brgs)
  BY DEF IsFreeArgs
<1>2. PICK h : /\ h[0] = <<>> /\ ArgsText(args) = h[KeyCount]
               /\ \A k \in 0..KeyCount : h[k] \in Tokens
               /\ \A k \in 1..KeyCount : h[k] = h[k - 1] \o Written(args, SortedKeys[k])
  BY <1>1, ArgsWritten
<1>3. PICK g : /\ g[0] = <<>> /\ ArgsText(brgs) = g[KeyCount]
               /\ \A k \in 0..KeyCount : g[k] \in Tokens
               /\ \A k \in 1..KeyCount : g[k] = g[k - 1] \o Written(brgs, SortedKeys[k])
  BY <1>1, ArgsWritten
<1> DEFINE Read(k) == \A r, s \in Tokens :
                        NoneOf(r, k) /\ NoneOf(s, k) /\ h[k] \o r = g[k] \o s =>
                          r = s /\ \A j \in 1..k : SameArg(args, brgs, SortedKeys[j])
           S == {k \in 0..KeyCount : Read(k)}
<1>4. 0 \in S
  <2>1. \A r \in Tokens : h[0] \o r = r /\ g[0] \o r = r
    BY <1>2, <1>3, TextLaws
  <2>2. 0 \in 0..KeyCount /\ 1..0 = {}
    BY KeyFacts
  <2> QED
    BY <2>1, <2>2
<1>5. ASSUME NEW n \in 0..KeyCount, n \in S, n < KeyCount PROVE n + 1 \in S
  <2>1. PICK k : k = SortedKeys[n + 1]
    OBVIOUS
  <2>2. n + 1 \in 1..KeyCount /\ n + 1 \in 0..KeyCount /\ (n + 1) - 1 = n /\ n \in Nat
    BY <1>5, KeyFacts
  <2>3. k \in ArgKeys
    BY <2>1, <2>2, KeyFacts
  <2>4. Read(n)
    BY <1>5
  <2>5. /\ h[n] \in Tokens /\ g[n] \in Tokens
        /\ h[n + 1] = h[n] \o Written(args, k)
        /\ g[n + 1] = g[n] \o Written(brgs, k)
    BY <1>2, <1>3, <2>1, <2>2
  <2>6. ASSUME NEW r \in Tokens, NEW s \in Tokens, NoneOf(r, n + 1), NoneOf(s, n + 1),
               h[n + 1] \o r = g[n + 1] \o s
        PROVE  r = s /\ \A j \in 1..(n + 1) : SameArg(args, brgs, SortedKeys[j])
    <3>1. PICK a : a = Leading(args, k, r)
      OBVIOUS
    <3>2. PICK b : b = Leading(brgs, k, s)
      OBVIOUS
    <3>3. a \in Tokens /\ b \in Tokens
      BY <1>1, <2>3, <3>1, <3>2, WrittenThen
    <3>4. NoneOf(a, n) /\ NoneOf(b, n)
      BY <1>5, <2>1, <2>6, <3>1, <3>2, NoneBefore
    <3>5. h[n] \o a = g[n] \o b
      <4>1. Written(args, k) \in Tokens /\ Written(brgs, k) \in Tokens
        BY <1>1, <2>3, WrittenText
      <4>2. \A x, y, z \in Tokens : (x \o y) \o z = x \o (y \o z)
        BY TextLaws
      <4>3. (h[n] \o Written(args, k)) \o r = h[n] \o (Written(args, k) \o r)
        BY ONLY <2>5, <2>6, <4>1, <4>2, ZenonT(40)
      <4>4. (g[n] \o Written(brgs, k)) \o s = g[n] \o (Written(brgs, k) \o s)
        BY ONLY <2>5, <2>6, <4>1, <4>2, ZenonT(40)
      <4> QED
        BY <2>5, <2>6, <3>1, <3>2, <4>3, <4>4 DEF Leading
    <3>6. a = b /\ \A j \in 1..n : SameArg(args, brgs, SortedKeys[j])
      BY <2>4, <3>3, <3>4, <3>5
    <3>7. FreeKey(k) => ~Begins(r, k) /\ ~Begins(s, k)
      <4>1. n + 1 \in 1..(n + 1)
        BY <2>2
      <4> QED
        BY <2>1, <2>6, <4>1 DEF NoneOf
    <3>8. Leading(args, k, r) = Leading(brgs, k, s)
      BY <3>1, <3>2, <3>6
    <3>9. SameArg(args, brgs, k) /\ r = s
      BY <2>3, <3>7, <3>8, WrittenRead
    <3>10. \A j \in 1..(n + 1) : j \in 1..n \/ j = n + 1
      BY <2>2
    <3> QED
      BY <2>1, <3>6, <3>9, <3>10
  <2>7. Read(n + 1)
    BY <2>6
  <2> QED
    BY <2>2, <2>7
<1>6. 0..KeyCount \subseteq S
  <2>1. KeyCount \in Nat
    BY KeyFacts
  <2> HIDE DEF S
  <2> QED
    BY <1>4, <1>5, <2>1, BoundedInduction
<1>7. KeyCount \in 0..KeyCount
  BY KeyFacts
<1>8. Read(KeyCount)
  BY <1>6, <1>7
<1>9. <<>> \in Tokens /\ NoneOf(<<>>, KeyCount)
  <2>1. <<>> \in Tokens
    BY DEF Tokens
  <2>2. ASSUME NEW k \in ArgKeys, NEW z \in Tokens, <<>> = KeyText[k] \o Then("=", z)
        PROVE  FALSE
    <3>1. PICK p : p = KeyText[k]
      OBVIOUS
    <3>2. PICK q : q = Then("=", z)
      OBVIOUS
    <3>3. p \in Seq(Token) /\ q = <<"=">> \o z /\ <<"=">> \in Seq(Token) /\ z \in Seq(Token)
      <4>1. <<"=">> \in Tokens
        BY MarkFacts, TextLaws
      <4> QED
        BY <3>1, <3>2, <4>1, KeyFacts DEF Tokens, Then
    <3> HIDE DEF Token
    <3>4. Len(<<"=">>) = 1 /\ Len(z) \in Nat /\ Len(p) \in Nat
      BY <3>3
    <3>5. q \in Seq(Token) /\ Len(q) = 1 + Len(z)
      BY <3>3, <3>4, ConcatProperties
    <3>6. Len(p \o q) = Len(p) + Len(q)
      BY <3>3, <3>5, ConcatProperties
    <3>7. p \o q = <<>>
      BY <2>2, <3>1, <3>2
    <3>8. Len(p \o q) = 0
      BY ONLY <3>7
    <3> QED
      BY ONLY <3>4, <3>5, <3>6, <3>8
  <2> QED
    BY <2>1, <2>2, KeyFacts DEF NoneOf, Begins
<1>10. h[KeyCount] \o <<>> = g[KeyCount] \o <<>>
  BY <1>2, <1>3
<1>11. \A j \in 1..KeyCount : SameArg(args, brgs, SortedKeys[j])
  BY <1>8, <1>9, <1>10
<1>12. \A k \in ArgKeys : SameArg(args, brgs, k)
  BY <1>11, KeyFacts
<1>13. DOMAIN args = DOMAIN brgs /\ \A k \in DOMAIN args : args[k] = brgs[k]
  BY <1>1, <1>12 DEF SameArg, IsPlainArgs
<1>14. args = [k \in DOMAIN args |-> args[k]] /\ brgs = [k \in DOMAIN brgs |-> brgs[k]]
  BY <1>1 DEF IsPlainArgs
<1> QED
  BY <1>13, <1>14

\* A field of a fingerprint, the separator, and the fields after it.
Field(a, b) == a \o Then("01", b)

\* A field ends at the separator if it holds none.
LEMMA FieldRead ==
  ASSUME NEW a \in Tokens, NEW b \in Tokens, NEW c \in Tokens, NEW d \in Tokens,
         \A i \in 1..Len(a) : a[i] # "01", \A i \in 1..Len(c) : c[i] # "01",
         Field(a, b) = Field(c, d)
  PROVE  a = c /\ b = d
<1>1. "01" \in Token
  BY MarkFacts
<1>2. a \o Then("01", b) = c \o Then("01", d)
  BY DEF Field
<1> QED
  BY <1>1, <1>2, SplitAt

\* So does a field that is one token, whichever it is.
LEMMA TokenFieldRead ==
  ASSUME NEW x \in Token, NEW y \in Token, NEW b \in Tokens, NEW d \in Tokens,
         Field(<<x>>, b) = Field(<<y>>, d)
  PROVE  x = y /\ b = d
<1> DEFINE r == Then("01", b)
           s == Then("01", d)
<1>1. r \in Tokens /\ s \in Tokens
  BY MarkFacts, TextLaws
<1>2. Then(x, r) = Then(y, s)
  BY DEF Field, Then
<1> HIDE DEF r, s
<1>3. x = y /\ r = s
  BY <1>1, <1>2, TokenRead
<1>4. Then("01", b) = Then("01", d)
  BY <1>3 DEF r, s
<1>5. b = d
  <2>1. PICK z \in Token : z = "01"
    BY MarkFacts
  <2>2. Then(z, b) = Then(z, d)
    BY <1>4, <2>1
  <2> QED
    BY <2>2, TokenRead
<1> QED
  BY <1>3, <1>5

\* A field after the others.
Joined(p, a) == (p \o <<"01">>) \o a

\* Fields and separators, joined from the left, are joined from the right.
LEMMA FieldJoin ==
  ASSUME NEW a \in Tokens, NEW b \in Tokens
  PROVE  /\ Field(a, b) \in Tokens /\ Joined(a, b) = Field(a, b)
         /\ \A p \in Tokens : Field(Joined(p, a), b) = Field(p, Field(a, b))
<1> DEFINE q == <<"01">>
<1>1. q \in Tokens /\ "01" \in Token
  BY MarkFacts, TextLaws
<1>2. \A c : Then("01", c) = q \o c
  BY DEF Then
<1>3. \A c, d : Joined(c, d) = (c \o q) \o d /\ Field(c, d) = c \o (q \o d)
  BY <1>2 DEF Joined, Field
<1> HIDE DEF q
<1>4. q \o b \in Tokens /\ (a \o q) \o b = a \o (q \o b)
  BY <1>1, TextLaws
<1>5. Field(a, b) \in Tokens /\ Joined(a, b) = Field(a, b)
  BY <1>3, <1>4, TextLaws
<1>6. ASSUME NEW p \in Tokens PROVE Field(Joined(p, a), b) = Field(p, Field(a, b))
  <2> DEFINE r == q \o b
  <2>1. r \in Tokens /\ q \in Tokens
    BY <1>1, <1>4
  <2>2. Left4(p, q, a, r) = Right4(p, q, a, r)
    <3> HIDE DEF r
    <3> QED
      BY ONLY <2>1, p \in Tokens, a \in Tokens, FourTexts
  <2>3. Field(Joined(p, a), b) = Left4(p, q, a, r)
    BY <1>3 DEF Left4
  <2>4. Field(p, Field(a, b)) = p \o (q \o (a \o r))
    BY <1>3
  <2> QED
    BY ONLY <2>2, <2>3, <2>4 DEF Right4
<1> QED
  BY <1>5, <1>6

\* An event has these fields.
IsEvent(e) ==
  e = [name |-> e.name, ts |-> e.ts, dur |-> e.dur, cat |-> e.cat, ph |-> e.ph,
       pid |-> e.pid, tid |-> e.tid, args |-> e.args]

\* What is observed of it has the same.
LEMMA ObservedFields ==
  ASSUME NEW e, IsEvent(e)
  PROVE  Observed(e) = [name |-> e.name, ts |-> e.ts, dur |-> e.dur, cat |-> OrNone(e.cat),
                        ph |-> e.ph, pid |-> e.pid, tid |-> e.tid, args |-> OrNone(e.args)]
<1> DEFINE a == [e EXCEPT !.args = OrNone(e.args)]
<1>1. a = [name |-> e.name, ts |-> e.ts, dur |-> e.dur, cat |-> e.cat, ph |-> e.ph,
           pid |-> e.pid, tid |-> e.tid, args |-> OrNone(e.args)]
  BY DEF IsEvent
<1>2. Observed(e) = [a EXCEPT !.cat = OrNone(e.cat)]
  <2>1. a.cat = e.cat
    BY <1>1
  <2> QED
    BY <2>1 DEF Observed
<1> HIDE DEF a
<1> QED
  BY <1>1, <1>2

\* Events as they are printed: texts and arguments as above, and numbers; and those with
\* no sign in a key.
PrintedEvent(e) ==
  /\ IsEvent(e)
  /\ e.name \in PlainText /\ e.tid \in PlainText /\ e.cat \in Optional(PlainText)
  /\ e.ts \in Int /\ e.pid \in Int /\ e.dur \in Optional(Int) /\ e.ph \in Token
  /\ e.args = None \/ \E g : IsPlainArgs(g) /\ e.args = Some(g)
PlainEvent(e) ==
  PrintedEvent(e) /\ (e.args = None \/ \E g : IsFreeArgs(g) /\ e.args = Some(g))

\* The optional fields as they are written.
DurText(dur) == IF dur = None THEN <<>> ELSE Text(dur[1])
ArgText(args) == IF args = None THEN <<>> ELSE ArgsText(args[1])

\* The fields of a fingerprint.
LEMMA FingerprintFields ==
  ASSUME DecimalTexts, NEW e, PrintedEvent(e)
  PROVE  /\ e.name \in PlainText /\ e.tid \in PlainText /\ e.ph \in Token
         /\ UnwrapOr(e.cat, <<>>) \in PlainText
         /\ DurText(e.dur) \in Tokens /\ ArgText(e.args) \in Tokens
         /\ Fingerprint(e) =
              Field(e.name, Field(Text(e.ts), Field(DurText(e.dur), Field(<<e.ph>>,
                Field(Text(e.pid), Field(e.tid, Field(UnwrapOr(e.cat, <<>>),
                  ArgText(e.args))))))))
<1>1. /\ e.name \in PlainText /\ e.tid \in PlainText /\ e.ph \in Token
      /\ e.ts \in Int /\ e.pid \in Int /\ e.dur \in Optional(Int)
      /\ e.cat \in Optional(PlainText)
      /\ e.args = None \/ \E g : IsPlainArgs(g) /\ e.args = Some(g)
  BY DEF PrintedEvent
<1>2. \A n \in Int : Text(n) \in Tokens
  <2> SUFFICES ASSUME NEW n \in Int PROVE <<ToString(n)>> \in Tokens
    BY DEF Text
  <2>1. ToString(n) \in Token
    BY TokenFacts
  <2> QED
    BY <2>1, TextLaws
<1>3. <<>> \in PlainText /\ <<>> \in Tokens
  BY DEF PlainText, Tokens
<1>5. UnwrapOr(e.cat, <<>>) \in PlainText
  BY <1>1, <1>3, Options DEF Optional
<1>6. DurText(e.dur) \in Tokens
  BY <1>1, <1>2, <1>3, Options DEF Optional, DurText
<1>7. ArgText(e.args) \in Tokens
  <2>1. ASSUME NEW g, IsPlainArgs(g) PROVE ArgsText(g) \in Tokens
    <3>1. PICK h : ArgsText(g) = h[KeyCount] /\ \A k \in 0..KeyCount : h[k] \in Tokens
      BY <2>1, ArgsWritten
    <3>2. KeyCount \in 0..KeyCount
      BY KeyFacts
    <3> QED
      BY <3>1, <3>2
  <2> QED
    BY <1>1, <1>3, <2>1, Options DEF ArgText
<1> DEFINE a == e.name
           b == Text(e.ts)
           c == DurText(e.dur)
           d == <<e.ph>>
           p == Text(e.pid)
           f == e.tid
           g == UnwrapOr(e.cat, <<>>)
           h == ArgText(e.args)
<1>8. a \in Tokens /\ f \in Tokens /\ g \in Tokens
  BY <1>1, <1>5, TokenFacts
<1>9. b \in Tokens /\ c \in Tokens /\ d \in Tokens /\ p \in Tokens /\ h \in Tokens
  BY <1>1, <1>2, <1>6, <1>7, TextLaws
<1>10. Fingerprint(e) =
         Joined(Joined(Joined(Joined(Joined(Joined(Joined(a, b), c), d), p), f), g), h)
  BY DEF Fingerprint, DurText, ArgText, Joined
<1> HIDE DEF a, b, c, d, p, f, g, h
<1> DEFINE r6 == Field(g, h)
           r5 == Field(f, r6)
           r4 == Field(p, r5)
           r3 == Field(d, r4)
           r2 == Field(c, r3)
           j2 == Joined(a, b)
           j3 == Joined(j2, c)
           j4 == Joined(j3, d)
           j5 == Joined(j4, p)
           j6 == Joined(j5, f)
           j7 == Joined(j6, g)
<1>11. \A x, y \in Tokens : Joined(x, y) = Field(x, y) /\ Field(x, y) \in Tokens
  BY FieldJoin
<1>12. \A s, x, y \in Tokens : Field(Joined(s, x), y) = Field(s, Field(x, y))
  BY FieldJoin
<1>13. /\ r2 \in Tokens /\ r3 \in Tokens /\ r4 \in Tokens /\ r5 \in Tokens
       /\ r6 \in Tokens /\ j2 \in Tokens /\ j3 \in Tokens /\ j4 \in Tokens
       /\ j5 \in Tokens /\ j6 \in Tokens /\ j7 \in Tokens
  <2>1. \A x, y \in Tokens : Joined(x, y) \in Tokens
    BY <1>11
  <2>2. \A x, y \in Tokens : Field(x, y) \in Tokens
    BY <1>11
  <2> QED
    BY ONLY <1>8, <1>9, <2>1, <2>2
<1> HIDE DEF r2, r3, r4, r5, r6, j2, j3, j4, j5, j6, j7
<1>14. Joined(j7, h) = Field(j7, h) /\ Field(j7, h) = Field(j6, r6)
  BY ONLY <1>8, <1>9, <1>11, <1>12, <1>13 DEF r6, j7
<1>15. Field(j6, r6) = Field(j5, r5) /\ Field(j5, r5) = Field(j4, r4)
  BY ONLY <1>8, <1>9, <1>12, <1>13 DEF r4, r5, j6, j5
<1>16. Field(j4, r4) = Field(j3, r3) /\ Field(j3, r3) = Field(j2, r2)
  BY ONLY <1>8, <1>9, <1>12, <1>13 DEF r2, r3, j4, j3
<1>17. Field(j2, r2) = Field(a, Field(b, r2))
  BY ONLY <1>8, <1>9, <1>12, <1>13 DEF j2
<1>18. Fingerprint(e) = Field(a, Field(b, r2))
  BY ONLY <1>10, <1>14, <1>15, <1>16, <1>17 DEF j2, j3, j4, j5, j6, j7
<1> QED
  BY <1>1, <1>5, <1>6, <1>7, <1>18 DEF r2, r3, r4, r5, r6, a, b, c, d, p, f, g, h

\* Events with the same fingerprint differ in nothing that is observed of them.
LEMMA FingerprintRead ==
  ASSUME DecimalTexts, NEW e, NEW f, PlainEvent(e), PlainEvent(f),
         Fingerprint(e) = Fingerprint(f)
  PROVE  Observed(e) = Observed(f)
<1> DEFINE Cat(x) == UnwrapOr(x.cat, <<>>)
           R7(x) == Field(Cat(x), ArgText(x.args))
           R6(x) == Field(x.tid, R7(x))
           R5(x) == Field(Text(x.pid), R6(x))
           R4(x) == Field(<<x.ph>>, R5(x))
           R3(x) == Field(DurText(x.dur), R4(x))
           R2(x) == Field(Text(x.ts), R3(x))
<1>1. ASSUME NEW x, PlainEvent(x)
      PROVE  /\ ArgText(x.args) \in Tokens /\ Cat(x) \in PlainText
             /\ x.name \in PlainText /\ x.tid \in PlainText /\ x.ph \in Token
             /\ x.ts \in Int /\ x.pid \in Int /\ x.dur \in Optional(Int)
             /\ x.cat \in Optional(PlainText)
             /\ x.args = None \/ \E g : IsFreeArgs(g) /\ x.args = Some(g)
             /\ DurText(x.dur) \in Tokens
             /\ Fingerprint(x) = Field(x.name, R2(x))
  <2>1. /\ x.ts \in Int /\ x.pid \in Int /\ x.dur \in Optional(Int)
        /\ x.cat \in Optional(PlainText) /\ PrintedEvent(x)
        /\ x.args = None \/ \E g : IsFreeArgs(g) /\ x.args = Some(g)
    BY <1>1 DEF PlainEvent, PrintedEvent
  <2> QED
    BY <2>1, FingerprintFields
<1>2. \A n \in Int : Text(n) = <<ToString(n)>> /\ ToString(n) \in Token /\ Text(n) \in Tokens
  <2>1. \A n \in Int : ToString(n) \in Token
    BY TokenFacts
  <2> QED
    BY <2>1, TextLaws DEF Text
<1>3. ASSUME NEW x, PlainEvent(x)
      PROVE  /\ R7(x) \in Tokens /\ R6(x) \in Tokens /\ R5(x) \in Tokens
             /\ R4(x) \in Tokens /\ R3(x) \in Tokens /\ R2(x) \in Tokens
  <2>1. /\ Cat(x) \in Tokens /\ x.tid \in Tokens
        /\ ArgText(x.args) \in Tokens /\ DurText(x.dur) \in Tokens
    BY <1>1, <1>3, TokenFacts
  <2>2. Text(x.ts) \in Tokens /\ Text(x.pid) \in Tokens
    BY <1>1, <1>2, <1>3
  <2>3. <<x.ph>> \in Tokens
    BY <1>1, <1>3, TextLaws
  <2>4. \A a, b \in Tokens : Field(a, b) \in Tokens
    BY FieldJoin
  <2> QED
    BY ONLY <2>1, <2>2, <2>3, <2>4
<1>4. ASSUME NEW a \in PlainText, NEW c \in PlainText, NEW b \in Tokens, NEW d \in Tokens,
             Field(a, b) = Field(c, d)
      PROVE  a = c /\ b = d
  <2>1. /\ a \in Tokens /\ \A i \in 1..Len(a) : a[i] # "01"
        /\ c \in Tokens /\ \A i \in 1..Len(c) : c[i] # "01"
    BY TokenFacts
  <2> QED
    BY <1>4, <2>1, FieldRead
<1>5. ASSUME NEW n \in Int, NEW m \in Int, NEW b \in Tokens, NEW d \in Tokens,
             Field(Text(n), b) = Field(Text(m), d)
      PROVE  n = m /\ b = d
  <2>1. ToString(n) \in Token /\ ToString(m) \in Token
    BY <1>2
  <2>2. Field(<<ToString(n)>>, b) = Field(<<ToString(m)>>, d)
    BY <1>2, <1>5
  <2>3. ToString(n) = ToString(m) /\ b = d
    BY ONLY <2>1, <2>2, TokenFieldRead, b \in Tokens, d \in Tokens
  <2> QED
    BY <2>3 DEF DecimalTexts
<1>6. ASSUME NEW n \in Optional(Int), NEW m \in Optional(Int), NEW b \in Tokens, NEW d \in Tokens,
             DurText(n) \in Tokens, DurText(m) \in Tokens,
             Field(DurText(n), b) = Field(DurText(m), d)
      PROVE  n = m /\ b = d
  <2>2. ASSUME NEW k \in Optional(Int)
        PROVE  /\ k = None => DurText(k) = <<>>
               /\ k # None => /\ k[1] \in Int /\ k = Some(k[1]) /\ DurText(k) = <<ToString(k[1])>>
               /\ \A i \in 1..Len(DurText(k)) : DurText(k)[i] # "01"
    <3>1. CASE k = None
      BY <3>1 DEF DurText
    <3>2. CASE k # None
      <4>1. k[1] \in Int /\ k = Some(k[1])
        BY <3>2, Options DEF Optional
      <4>2. DurText(k) = <<ToString(k[1])>>
        BY <3>2 DEF DurText, Text
      <4>3. ToString(k[1]) # "01"
        BY <4>1 DEF DecimalTexts
      <4>4. \A i \in 1..Len(<<ToString(k[1])>>) : <<ToString(k[1])>>[i] = ToString(k[1])
        OBVIOUS
      <4> QED
        BY <3>2, <4>1, <4>2, <4>3, <4>4
    <3> QED
      BY <3>1, <3>2
  <2>3. DurText(n) = DurText(m) /\ b = d
    BY <1>6, <2>2, FieldRead
  <2>4. CASE n = None /\ m = None
    BY <2>3, <2>4
  <2>5. CASE n # None /\ m # None
    <3>1. <<ToString(n[1])>> = <<ToString(m[1])>>
      BY <2>2, <2>3, <2>5
    <3>2. ToString(n[1]) = ToString(m[1])
      BY <3>1
    <3>3. n[1] = m[1]
      BY <2>2, <2>5, <3>2 DEF DecimalTexts
    <3> QED
      BY <2>2, <2>3, <2>5, <3>3
  <2>6. CASE (n = None) # (m = None)
    <3>1. \E x : <<>> = <<x>>
      BY <2>2, <2>3, <2>6
    <3> QED
      BY <3>1
  <2> QED
    BY <2>4, <2>5, <2>6
<1> HIDE DEF Cat
<1>7. e.name = f.name /\ R2(e) = R2(f)
  <2>1. Field(e.name, R2(e)) = Field(f.name, R2(f))
    BY <1>1
  <2> HIDE DEF R2
  <2>2. /\ e.name \in PlainText /\ f.name \in PlainText
        /\ R2(e) \in Tokens /\ R2(f) \in Tokens
    BY <1>1, <1>3
  <2> QED
    BY ONLY <1>4, <2>1, <2>2
<1>8. e.ts = f.ts /\ R3(e) = R3(f)
  <2>1. Field(Text(e.ts), R3(e)) = Field(Text(f.ts), R3(f))
    BY <1>7
  <2> HIDE DEF R2, R3
  <2>2. e.ts \in Int /\ f.ts \in Int /\ R3(e) \in Tokens /\ R3(f) \in Tokens
    BY <1>1, <1>3
  <2> QED
    BY ONLY <1>5, <2>1, <2>2
<1>9. e.dur = f.dur /\ R4(e) = R4(f)
  <2>1. Field(DurText(e.dur), R4(e)) = Field(DurText(f.dur), R4(f))
    BY <1>8
  <2> HIDE DEF R2, R3, R4
  <2> QED
    BY <1>1, <1>3, <1>6, <2>1
<1>10. e.ph = f.ph /\ R5(e) = R5(f)
  <2>1. Field(<<e.ph>>, R5(e)) = Field(<<f.ph>>, R5(f))
    BY <1>9
  <2> HIDE DEF R2, R3, R4, R5
  <2>2. e.ph \in Token /\ f.ph \in Token /\ R5(e) \in Tokens /\ R5(f) \in Tokens
    BY <1>1, <1>3
  <2> QED
    BY ONLY <2>1, <2>2, TokenFieldRead
<1>11. e.pid = f.pid /\ R6(e) = R6(f)
  <2>1. Field(Text(e.pid), R6(e)) = Field(Text(f.pid), R6(f))
    BY <1>10
  <2> HIDE DEF R2, R3, R4, R5, R6
  <2> QED
    BY <1>1, <1>3, <1>5, <2>1
<1>12. e.tid = f.tid /\ R7(e) = R7(f)
  <2>1. Field(e.tid, R7(e)) = Field(f.tid, R7(f))
    BY <1>11
  <2> HIDE DEF R2, R3, R4, R5, R6, R7
  <2> QED
    BY <1>1, <1>3, <1>4, <2>1
<1>13. Cat(e) = Cat(f) /\ ArgText(e.args) = ArgText(f.args)
  <2>1. Field(Cat(e), ArgText(e.args)) = Field(Cat(f), ArgText(f.args))
    BY <1>12
  <2> HIDE DEF R2, R3, R4, R5, R6, R7
  <2> QED
    BY <1>1, <1>4, <2>1
<1>15. OrNone(e.cat) = OrNone(f.cat)
  <2>1. ASSUME NEW x, PlainEvent(x)
        PROVE  OrNone(x.cat) = IF Cat(x) = <<>> THEN None ELSE Some(Cat(x))
    <3>1. x.cat \in Optional(PlainText)
      BY <1>1, <2>1
    <3>2. CASE x.cat = None
      <4>1. Cat(x) = <<>>
        BY <3>2, Options DEF Cat
      <4> QED
        BY <3>2, <4>1 DEF OrNone
    <3>3. CASE \E t \in PlainText : x.cat = Some(t)
      <4>1. PICK t \in PlainText : x.cat = Some(t)
        BY <3>3
      <4>2. Cat(x) = t /\ (t # <<>> => Some(t) # Some(<<>>))
        BY <4>1, Options DEF Cat
      <4> QED
        BY <4>1, <4>2 DEF OrNone
    <3> QED
      BY <3>1, <3>2, <3>3 DEF Optional
  <2> QED
    BY <1>13, <2>1
<1>16. OrNone(e.args) = OrNone(f.args)
  <2>1. ASSUME NEW x, PlainEvent(x)
        PROVE  \E g : /\ IsFreeArgs(g) /\ ArgText(x.args) = ArgsText(g)
                      /\ OrNone(x.args) = OrNone(Some(g))
    <3>1. x.args = None \/ \E g : IsFreeArgs(g) /\ x.args = Some(g)
      BY <1>1, <2>1
    <3>2. CASE x.args = None
      <4>1. IsFreeArgs(<<>>) /\ ArgsText(<<>>) = <<>>
        BY NoArgsText, NoArgsAreFree
      <4> QED
        BY <3>2, <4>1, Options DEF ArgText, OrNone
    <3>3. CASE \E g : IsFreeArgs(g) /\ x.args = Some(g)
      BY <3>3, Options DEF ArgText
    <3> QED
      BY <3>1, <3>2, <3>3
  <2>2. PICK g : /\ IsFreeArgs(g) /\ ArgText(e.args) = ArgsText(g)
                 /\ OrNone(e.args) = OrNone(Some(g))
    BY <2>1
  <2>3. PICK h : /\ IsFreeArgs(h) /\ ArgText(f.args) = ArgsText(h)
                 /\ OrNone(f.args) = OrNone(Some(h))
    BY <2>1
  <2>4. ArgsText(g) = ArgsText(h)
    BY <1>13, <2>2, <2>3
  <2>5. g = h
    BY <2>2, <2>3, <2>4, ArgsRead
  <2> QED
    BY <2>2, <2>3, <2>5
<1>17. IsEvent(e) /\ IsEvent(f)
  BY DEF PlainEvent, PrintedEvent
<1> QED
  BY <1>7, <1>8, <1>9, <1>10, <1>11, <1>12, <1>15, <1>16, <1>17, ObservedFields

-----------------------------------------------------------------------------
(* No false alarm.  Fingerprints drop an empty category and empty arguments *)
(* alike, and tell nothing else apart that the fields of an event do not.   *)

\* Events that differ in no observed field have one fingerprint.
LEMMA SameFingerprint ==
  ASSUME NEW e, NEW f, IsEvent(e), IsEvent(f), Observed(e) = Observed(f)
  PROVE  Fingerprint(e) = Fingerprint(f)
<1>1. ASSUME NEW d, IsEvent(d)
      PROVE  /\ Observed(d).name = d.name /\ Observed(d).ts = d.ts /\ Observed(d).dur = d.dur
             /\ Observed(d).ph = d.ph /\ Observed(d).pid = d.pid /\ Observed(d).tid = d.tid
             /\ Observed(d).cat = OrNone(d.cat) /\ Observed(d).args = OrNone(d.args)
  BY <1>1, ObservedFields
<1>2. /\ e.name = f.name /\ e.ts = f.ts /\ e.dur = f.dur /\ e.ph = f.ph
      /\ e.pid = f.pid /\ e.tid = f.tid
      /\ OrNone(e.cat) = OrNone(f.cat) /\ OrNone(e.args) = OrNone(f.args)
  BY <1>1
<1>3. UnwrapOr(Some(<<>>), <<>>) = UnwrapOr(None, <<>>)
  BY Options
<1>4. UnwrapOr(e.cat, <<>>) = UnwrapOr(f.cat, <<>>)
  BY <1>2, <1>3 DEF OrNone
<1>5. ArgText(Some(<<>>)) = ArgText(None)
  BY NoArgsText, Options DEF ArgText
<1>6. ArgText(e.args) = ArgText(f.args)
  BY <1>2, <1>5 DEF OrNone
<1>7. /\ (IF e.args = None THEN <<>> ELSE ArgsText(e.args[1])) = ArgText(e.args)
      /\ (IF f.args = None THEN <<>> ELSE ArgsText(f.args[1])) = ArgText(f.args)
  BY DEF ArgText
<1> QED
  BY <1>2, <1>4, <1>6, <1>7 DEF Fingerprint

\* What is documented of an event, and what is observed of it.
LEMMA DocumentedFields ==
  ASSUME NEW e, IsEvent(e)
  PROVE  /\ Documented(e) = [name |-> e.name, ts |-> e.ts, dur |-> e.dur, cat |-> e.cat,
                             ph |-> e.ph, pid |-> e.pid, tid |-> e.tid, args |-> OrNone(e.args)]
         /\ Observed(e) = [Documented(e) EXCEPT !.cat = OrNone(e.cat)]
         /\ Documented(e).cat = e.cat
<1>1. Documented(e) = [name |-> e.name, ts |-> e.ts, dur |-> e.dur, cat |-> e.cat,
                       ph |-> e.ph, pid |-> e.pid, tid |-> e.tid, args |-> OrNone(e.args)]
  BY DEF IsEvent, Documented
<1>2. Observed(e) = [name |-> e.name, ts |-> e.ts, dur |-> e.dur, cat |-> OrNone(e.cat),
                     ph |-> e.ph, pid |-> e.pid, tid |-> e.tid, args |-> OrNone(e.args)]
  BY ObservedFields
<1> QED
  BY <1>1, <1>2

\* Events that differ in nothing documented to count have one fingerprint.
LEMMA AlwaysCoarse ==
  ASSUME NEW E, \A e \in E : IsEvent(e)
  PROVE  Coarse(E)
<1> SUFFICES ASSUME NEW e \in E, NEW f \in E, Documented(e) = Documented(f)
             PROVE  Fingerprint(e) = Fingerprint(f)
  BY DEF Coarse
<1>1. e.cat = f.cat
  BY DocumentedFields
<1>2. Observed(e) = Observed(f)
  BY <1>1, DocumentedFields
<1> QED
  BY <1>2, SameFingerprint

\* The events of a trace with the streams of a sound rank, or none, are sound.
LEMMA EventsOfRank ==
  ASSUME NEW tr, NEW rank, NEW streams, SoundStreams(streams),
         tr.ranks = Only(rank, streams) \/ tr.ranks = Kept(rank, streams),
         NEW e \in StreamEvents(tr)
  PROVE  SoundEvent(e)
<1>1. \A r \in DOMAIN tr.ranks : tr.ranks[r] = streams
  BY DEF Only, Kept
<1>2. PICK c \in Coords(tr) : e \in ToSet(At(tr)[c])
  BY DEF StreamEvents
<1>3. PICK r \in DOMAIN tr.ranks : \E k \in DOMAIN tr.ranks[r] : c = <<r, k>>
  BY <1>2 DEF Coords
<1>4. PICK k \in DOMAIN tr.ranks[r] : c = <<r, k>>
  BY <1>3
<1>5. At(tr)[c] = streams[k] /\ k \in DOMAIN streams
  <2>1. At(tr)[c] = tr.ranks[c[1]][c[2]] /\ c[1] = r /\ c[2] = k
    BY <1>2, <1>4 DEF At
  <2> QED
    BY <1>1, <1>4, <2>1
<1>6. PICK i \in DOMAIN streams[k] : e = streams[k][i]
  BY <1>2, <1>5 DEF ToSet
<1> QED
  BY <1>5, <1>6 DEF SoundStreams

\* So are those of every trace a verify compares.
LEMMA ComparedAreSound ==
  ASSUME RoundTripInv, Verifying, NEW e \in StreamEvents(original) \cup StreamEvents(reconstructed)
  PROVE  SoundEvent(e)
<1>1. PICK file \in DOMAIN docs, against \in {"artifact", "itself"} :
        /\ original = FromFile(file) /\ original.ok
        /\ reconstructed = IF against = "artifact" THEN Reconstruction(Input) ELSE InMemory(original)
        /\ against = "artifact" => artifact # None
  BY DEF Verifying
<1>2. SoundInput(original)
  BY <1>1, FromFileIsSound DEF RoundTripInv
<1>3. ASSUME NEW tr, SoundInput(tr)
      PROVE  /\ \A d \in StreamEvents(tr) : SoundEvent(d)
             /\ \A d \in StreamEvents(Reconstruction(tr)) : SoundEvent(d)
             /\ \A d \in StreamEvents(InMemory(tr)) : SoundEvent(d)
  <2>1. PICK rank, streams, metadata, t : SoundTrace(tr, rank, streams, metadata, t)
    BY <1>3 DEF SoundInput
  <2>2. tr = Trace(rank, streams, metadata, t) /\ SoundStreams(streams)
    BY <2>1 DEF SoundTrace
  <2>3. tr.ranks = Only(rank, streams)
    BY <2>2 DEF Trace, Only
  <2> DEFINE b == BuiltStreams(streams)
  <2>4. SoundStreams(b)
    BY <2>2, BuiltAreSound
  <2>5. Reconstruction(tr).ranks = Kept(rank, b)
    BY <2>2, ReconstructionOf
  <2>6. InMemory(tr).ranks = Kept(rank, b)
    BY <2>2, InMemoryOf
  <2>7. \A d \in StreamEvents(tr) : SoundEvent(d)
    BY <2>2, <2>3, EventsOfRank
  <2> HIDE DEF b
  <2> QED
    BY <2>4, <2>5, <2>6, <2>7, EventsOfRank
<1>4. CASE against = "artifact"
  <2>1. SoundInput(Input) /\ reconstructed = Reconstruction(Input)
    BY <1>1, <1>4, InputIsSound
  <2> QED
    BY <1>2, <1>3, <2>1
<1>5. CASE against # "artifact"
  BY <1>1, <1>2, <1>3, <1>5
<1> QED
  BY <1>4, <1>5

\* verify raises no false alarm: traces with the same content pass, whatever separators
\* their argument keys hold, in whatever order the streams are walked.
THEOREM NoFalseAlarm == RoundTripSpec => [](verdict # None /\ SameContent => verdict[1])
<1>1. ASSUME RoundTripInv, verdict # None, SameContent PROVE verdict[1]
  <2>1. ComparingInv /\ Verifying
    BY <1>1 DEF RoundTripInv, NotComparing
  <2>2. Coarse(StreamEvents(original) \cup StreamEvents(reconstructed))
    <3>1. \A e : SoundEvent(e) => IsEvent(e)
      BY DEF SoundEvent, IsEvent
    <3> QED
      BY <1>1, <2>1, <3>1, ComparedAreSound, AlwaysCoarse
  <2> QED
    BY <1>1, <2>1, <2>2, SameContentPasses
<1>2. RoundTripInv => (verdict # None /\ SameContent => verdict[1])
  BY <1>1
<1> QED
  BY <1>2, RoundTripInvariant, PTL

-----------------------------------------------------------------------------
(* The chain of commands.                                                   *)

\* Fingerprints do not see empty arguments.
LEMMA BuiltReadsTheSame ==
  ASSUME NEW e, SoundEvent(e)
  PROVE  Fingerprint(Built(e)) = Fingerprint(e)
<1> DEFINE E == {e, Built(e)}
<1>1. SoundEvent(Built(e)) /\ Documented(Built(e)) = Documented(e)
  BY BuiltEvent
<1>2. \A d \in E : IsEvent(d)
  BY <1>1 DEF SoundEvent, IsEvent
<1> HIDE DEF E
<1>3. Coarse(E)
  BY <1>2, AlwaysCoarse
<1> QED
  BY <1>1, <1>3 DEF Coarse, E

\* Whatever the input, a verify of it says yes of its compression in memory, and of its
\* artifact if the metadata are the same there; of the trace without empty arguments as
\* well.
LEMMA SoundPasses ==
  ASSUME ComparingInv, verdict # None, NEW tr, SoundInput(tr),
         original \in {tr, Plain(tr)}, reconstructed \in {InMemory(tr), Reconstruction(tr)},
         original.metadata = reconstructed.metadata
  PROVE  verdict = Some(TRUE)
<1> DEFINE p == OrigStreams
           q == ReconStreams
<1>1. p = CollectStreams(original) /\ q = CollectStreams(reconstructed)
  BY DEF OrigStreams, ReconStreams
<1>2. /\ CollectStreams(Plain(tr)) = q
      /\ DOMAIN q = DOMAIN CollectStreams(tr)
      /\ \A key \in DOMAIN CollectStreams(tr) :
           /\ CollectStreams(tr)[key] \in Seq(StreamEvents(tr))
           /\ q[key] = BuiltList(CollectStreams(tr)[key])
  BY <1>1, SoundCollected
<1>3. CASE original = Plain(tr)
  <2>1. p = q
    BY <1>1, <1>2, <1>3
  <2> QED
    BY <2>1, SameFingerprintsPass
<1>4. CASE original = tr
  <2>1. \A e \in StreamEvents(tr) : SoundEvent(e)
    <3>1. PICK rank, streams, metadata, t : SoundTrace(tr, rank, streams, metadata, t)
      BY DEF SoundInput
    <3>2. tr.ranks = Only(rank, streams) /\ SoundStreams(streams)
      BY <3>1 DEF SoundTrace, Trace, Only
    <3> QED
      BY <3>2, EventsOfRank
  <2>2. ASSUME NEW key \in DOMAIN p
        PROVE  /\ Len(p[key]) = Len(q[key])
               /\ \A i \in DOMAIN p[key] : Fingerprint(p[key][i]) = Fingerprint(q[key][i])
    <3> DEFINE list == p[key]
               E == StreamEvents(tr)
    <3>1. list \in Seq(E) /\ q[key] = BuiltList(list)
      BY <1>1, <1>2, <1>4
    <3> HIDE DEF p, q, list, E
    <3>2. /\ Len(BuiltList(list)) = Len(list)
          /\ \A i \in DOMAIN list : BuiltList(list)[i] = Built(list[i])
      BY <3>1, BuiltLists
    <3>3. \A i \in DOMAIN list : SoundEvent(list[i])
      BY <2>1, <3>1 DEF E
    <3> QED
      BY <3>1, <3>2, <3>3, BuiltReadsTheSame DEF list
  <2>3. DOMAIN p = DOMAIN q
    BY <1>1, <1>2, <1>4
  <2> QED
    BY <2>2, <2>3, SameFingerprintsPass
<1> QED
  BY <1>3, <1>4

\* Without an artifact verify says yes of any file that can be read: compression in
\* memory loses nothing a comparison sees.
THEOREM SelfVerified ==
  RoundTripSpec => [](verdict = Some(FALSE) => verifying[1].against = "artifact")
<1>1. ASSUME RoundTripInv, verdict = Some(FALSE) PROVE verifying[1].against = "artifact"
  <2>1. verdict # None /\ Some(FALSE) # Some(TRUE)
    BY <1>1, Options DEF Some
  <2>2. ComparingInv /\ Verifying
    BY <1>1, <2>1 DEF RoundTripInv, NotComparing
  <2>3. PICK file \in DOMAIN docs, against \in {"artifact", "itself"} :
          /\ verifying = Some([file |-> file, against |-> against])
          /\ original = FromFile(file) /\ original.ok
          /\ reconstructed = IF against = "artifact" THEN Reconstruction(Input) ELSE InMemory(original)
    BY <2>2 DEF Verifying
  <2>4. against # "itself"
    <3> SUFFICES ASSUME against = "itself" PROVE FALSE
      OBVIOUS
    <3>1. SoundInput(original) /\ reconstructed = InMemory(original)
      BY <1>1, <2>3, FromFileIsSound DEF RoundTripInv
    <3>2. original.metadata = reconstructed.metadata
      <4>1. PICK rank, streams, metadata, t : SoundTrace(original, rank, streams, metadata, t)
        BY <3>1 DEF SoundInput
      <4>2. original = Trace(rank, streams, metadata, t) /\ SoundStreams(streams)
        BY <4>1 DEF SoundTrace
      <4>3. InMemory(original).metadata = Only(rank, metadata)
        BY <4>2, InMemoryOf
      <4> QED
        BY <3>1, <4>2, <4>3 DEF Trace, Only
    <3>3. verdict = Some(TRUE)
      BY <2>1, <2>2, <3>1, <3>2, SoundPasses
    <3> QED
      BY <1>1, <2>1, <3>3
  <2>5. verifying[1].against = against
    BY <2>3, Options
  <2> QED
    BY <2>4, <2>5
<1>2. RoundTripInv => (verdict = Some(FALSE) => verifying[1].against = "artifact")
  BY <1>1
<1> QED
  BY <1>2, RoundTripInvariant, PTL

\* Of a supported input the whole chain closes: decompress never fails, the restored
\* file has its origin, and verify says no of another file only.
THEOREM ChainIsClosed == RoundTripSpec => []ChainCloses
<1>1. ASSUME RoundTripInv, artifact # None, Supported(Input)
      PROVE  /\ ~failure
             /\ Restored => FromFile("restored").ok /\ FromFile("restored").startTs = Input.startTs
             /\ verdict = Some(FALSE) => verifying[1].file = "other" \/ verifying[1].against = "itself"
  <2>1. SoundInput(Input)
    BY <1>1, InputIsSound
  <2>2. /\ Plain(Input).ok = TRUE /\ Plain(Input).startTs = Input.startTs
        /\ Plain(Input).metadata = Input.metadata
        /\ Reconstruction(Input).metadata = Input.metadata
        /\ \E document : ChromeDocument(Reconstruction(Input)) = Some(document)
    BY <1>1, <2>1, SupportedInput
  <2>3. ~failure
    BY <1>1, <2>2, Options DEF RoundTripInv
  <2>4. Restored => FromFile("restored") = Plain(Input)
    BY <1>1, RestoredAgain
  <2>5. ASSUME verdict = Some(FALSE)
        PROVE  verifying[1].file = "other" \/ verifying[1].against = "itself"
    <3>1. verdict # None /\ Some(FALSE) # Some(TRUE)
      BY <2>5, Options DEF Some
    <3>2. ComparingInv /\ Verifying
      BY <1>1, <3>1 DEF RoundTripInv, NotComparing
    <3>3. PICK file \in DOMAIN docs, against \in {"artifact", "itself"} :
            /\ verifying = Some([file |-> file, against |-> against])
            /\ original = FromFile(file) /\ original.ok
            /\ reconstructed = IF against = "artifact" THEN Reconstruction(Input) ELSE InMemory(original)
      BY <3>2 DEF Verifying
    <3>4. ASSUME file # "other", against = "artifact" PROVE FALSE
      <4>1. file = "trace" \/ (file = "restored" /\ Restored)
        BY <1>1, <3>3, <3>4 DEF RoundTripInv, Files, Restored
      <4>2. original \in {Input, Plain(Input)}
        BY <2>4, <3>3, <4>1 DEF Input
      <4>3. reconstructed = Reconstruction(Input) /\ original.metadata = reconstructed.metadata
        BY <2>2, <3>3, <3>4, <4>2
      <4>4. verdict = Some(TRUE)
        BY <2>1, <3>1, <3>2, <4>2, <4>3, SoundPasses
      <4> QED
        BY <2>5, <3>1, <4>4
    <3>5. verifying[1].file = file /\ verifying[1].against = against
      BY <3>3, Options
    <3> QED
      BY <3>3, <3>4, <3>5
  <2> QED
    BY <2>2, <2>3, <2>4, <2>5
<1>2. RoundTripInv =>
        /\ artifact # None /\ Supported(Input) =>
             /\ ~failure
             /\ Restored => FromFile("restored").ok /\ FromFile("restored").startTs = Input.startTs
             /\ verdict = Some(FALSE) => verifying[1].file = "other" \/ verifying[1].against = "itself"
  BY <1>1
<1>3. /\ artifact # None /\ Supported(Input) =>
           /\ ~failure
           /\ Restored => FromFile("restored").ok /\ FromFile("restored").startTs = Input.startTs
           /\ verdict = Some(FALSE) => verifying[1].file = "other" \/ verifying[1].against = "itself"
      /\ verdict = Some(FALSE) => verifying[1].against = "artifact"
      => ChainCloses
  BY DEF ChainCloses
<1> QED
  BY <1>2, <1>3, RoundTripInvariant, SelfVerified, PTL

-----------------------------------------------------------------------------
(* No missed difference.                                                    *)

\* Every event compared is printed as the JSON output prints it.
PrintedTraces == \A e \in EventsIn(original) \cup EventsIn(reconstructed) : PrintedEvent(e)

\* The events of a trace are those at the coordinates of its streams.
LEMMA EventsByCoords == \A tr : StreamEvents(tr) = EventsIn(tr)
<1> SUFFICES ASSUME NEW tr PROVE StreamEvents(tr) = EventsIn(tr)
  OBVIOUS
<1> DEFINE Of(rank) == {tr.ranks[rank][k] : k \in DOMAIN tr.ranks[rank]}
<1>1. \A c \in Coords(tr) : c[1] \in DOMAIN tr.ranks /\ c[2] \in DOMAIN tr.ranks[c[1]]
  BY DEF Coords
<1>2. \A rank \in DOMAIN tr.ranks : \A k \in DOMAIN tr.ranks[rank] :
        /\ <<rank, k>> \in Coords(tr)
        /\ <<rank, k>>[1] = rank /\ <<rank, k>>[2] = k
  BY DEF Coords
<1>3. \A c \in Coords(tr) : At(tr)[c] = tr.ranks[c[1]][c[2]]
  BY DEF At
<1>4. \A rank, e : e \in EventsOf(tr.ranks[rank]) <=>
        \E k \in DOMAIN tr.ranks[rank] : e \in ToSet(tr.ranks[rank][k])
  BY DEF EventsOf, ToSet
<1>5. ASSUME NEW e \in StreamEvents(tr) PROVE e \in EventsIn(tr)
  <2>1. PICK c \in Coords(tr) : e \in ToSet(At(tr)[c])
    BY DEF StreamEvents
  <2>2. e \in EventsOf(tr.ranks[c[1]])
    BY <1>1, <1>3, <1>4, <2>1
  <2> QED
    BY <1>1, <2>2 DEF EventsIn
<1>6. ASSUME NEW e \in EventsIn(tr) PROVE e \in StreamEvents(tr)
  <2>1. PICK rank \in DOMAIN tr.ranks : e \in EventsOf(tr.ranks[rank])
    BY DEF EventsIn
  <2>2. PICK k \in DOMAIN tr.ranks[rank] : e \in ToSet(tr.ranks[rank][k])
    BY <1>4, <2>1
  <2>3. At(tr)[<<rank, k>>] = tr.ranks[rank][k]
    BY <1>2, <1>3
  <2> QED
    BY <1>2, <2>2, <2>3 DEF StreamEvents
<1> QED
  BY <1>5, <1>6

\* Where the code is not blind, fingerprints tell printed events apart exactly as far as
\* they are documented to count.
LEMMA PrintedAreFaithful ==
  ASSUME DecimalTexts, PrintedTraces, ~Blind
  PROVE  /\ Faithful
         /\ \A e, f \in EventsIn(original) \cup EventsIn(reconstructed) :
              Observed(e) = Observed(f) <=> Documented(e) = Documented(f)
<1> DEFINE E == EventsIn(original) \cup EventsIn(reconstructed)
<1>1. ASSUME NEW e \in E
      PROVE  PlainEvent(e) /\ IsEvent(e) /\ OrNone(e.cat) = e.cat
  <2>1. PrintedEvent(e)
    BY DEF PrintedTraces
  <2>2. ~EmptyCategory(e) /\ ~SeparatorInArgs(e)
    BY DEF Blind
  <2>3. OrNone(e.cat) = e.cat
    BY <2>2 DEF EmptyCategory, OrNone
  <2>4. ASSUME NEW g, IsPlainArgs(g), e.args = Some(g)
        PROVE  IsFreeArgs(g)
    <3>1. e.args # None /\ e.args[1] = g
      BY <2>4, Options
    <3>2. \A k \in DOMAIN g : k \in ArgKeys /\ k \in DOMAIN KeyText
      BY <2>4, KeyAssumption DEF IsPlainArgs, ArgKeys
    <3>3. \A k \in DOMAIN g : FreeKey(k)
      BY <2>2, <3>1, <3>2 DEF SeparatorInArgs, FreeKey
    <3> QED
      BY <2>4, <3>3 DEF IsFreeArgs
  <2>5. PlainEvent(e)
    BY <2>1, <2>4 DEF PrintedEvent, PlainEvent
  <2> QED
    BY <2>1, <2>3, <2>5 DEF PrintedEvent
<1>2. \A e, f \in E : Fingerprint(e) = Fingerprint(f) <=> Observed(e) = Observed(f)
  <2> HIDE DEF E
  <2> QED
    BY <1>1, SameFingerprint, FingerprintRead
<1>3. Faithful
  BY <1>2, EventsByCoords DEF Faithful
<1>4. ASSUME NEW e \in E
      PROVE  Observed(e) = Documented(e)
  <2>1. Documented(e) = [name |-> e.name, ts |-> e.ts, dur |-> e.dur, cat |-> e.cat,
                         ph |-> e.ph, pid |-> e.pid, tid |-> e.tid, args |-> OrNone(e.args)]
    BY <1>1, DocumentedFields
  <2>2. Observed(e) = [name |-> e.name, ts |-> e.ts, dur |-> e.dur, cat |-> OrNone(e.cat),
                       ph |-> e.ph, pid |-> e.pid, tid |-> e.tid, args |-> OrNone(e.args)]
    BY <1>1, ObservedFields
  <2> QED
    BY <1>1, <2>1, <2>2
<1> QED
  BY <1>3, <1>4

\* Then what is observed to agree is documented to.
LEMMA ObservedIsDocumented ==
  ASSUME ComparingInv, ObservedContent, original.startTs = reconstructed.startTs,
         \A e, f \in EventsIn(original) \cup EventsIn(reconstructed) :
           Observed(e) = Observed(f) <=> Documented(e) = Documented(f)
  PROVE  SameContent
<1> DEFINE E == StreamEvents(original) \cup StreamEvents(reconstructed)
<1>1. IsTraceValue(original) /\ IsTraceValue(reconstructed)
  BY DEF ComparingInv
<1>2. /\ DOMAIN OrigStreams = DOMAIN ReconStreams
      /\ \A key \in DOMAIN OrigStreams : Agree(key)
  BY DEF ObservedContent, SameMultisets, Agree, Alike
<1>3. \A key \in DOMAIN OrigStreams : key \in Common(original, reconstructed)
  BY <1>2 DEF Common, OrigStreams, ReconStreams
<1>4. \A e, f \in E : Observed(e) = Observed(f) <=> Documented(e) = Documented(f)
  BY EventsByCoords
<1>5. ASSUME NEW key \in DOMAIN OrigStreams
      PROVE  /\ Len(OrigStreams[key]) = Len(ReconStreams[key])
             /\ \A e \in ToSet(OrigStreams[key]) :
                  Doubles(OrigStreams[key], e) = Doubles(ReconStreams[key], e)
  <2> DEFINE p == OrigStreams[key]
             q == ReconStreams[key]
  <2>1. p \in Seq(E) /\ q \in Seq(E)
    BY <1>1, <1>3, CommonFacts DEF OrigStreams, ReconStreams
  <2>2. Len(p) = Len(q) /\ \A e \in ToSet(p) : Alike(p, e) = Alike(q, e)
    BY <1>2 DEF Agree
  <2> HIDE DEF p, q, E
  <2>3. \A s \in Seq(E) : \A i \in DOMAIN s : s[i] \in E
    OBVIOUS
  <2>4. ASSUME NEW s \in Seq(E), NEW e \in E
        PROVE  Doubles(s, e) = Alike(s, e)
    <3>1. {i \in DOMAIN s : Documented(s[i]) = Documented(e)}
            = {i \in DOMAIN s : Observed(s[i]) = Observed(e)}
      BY <1>4, <2>3
    <3> QED
      BY <3>1 DEF Doubles, Alike
  <2>5. ToSet(p) \subseteq E
    BY <2>1, <2>3 DEF ToSet
  <2>6. \A e \in ToSet(p) : Doubles(p, e) = Doubles(q, e)
    BY <2>1, <2>2, <2>4, <2>5
  <2> QED
    BY <2>2, <2>6 DEF p, q
<1>6. SameMultisets(Documented)
  BY <1>2, <1>5 DEF SameMultisets, Doubles
<1> QED
  BY <1>6 DEF SameContent, ObservedContent

\* verify says yes of traces with the same content, and of others only if they differ in
\* what the code is blind to; whatever the traces, if the decimal texts of numbers differ
\* and the events are printed as the JSON output prints them.
THEOREM VerdictHolds == DecimalTexts => (VerifySpec => [](PrintedTraces => VerdictIsRight))
<1> SUFFICES ASSUME DecimalTexts PROVE VerifySpec => [](PrintedTraces => VerdictIsRight)
  OBVIOUS
<1>1. ASSUME VerifyInv, PrintedTraces, verdict # None PROVE ComparingInv
  BY <1>1 DEF VerifyInv, NotComparing
<1>2. ASSUME VerifyInv, PrintedTraces, verdict # None, SameContent PROVE verdict[1]
  <2>1. Coarse(StreamEvents(original) \cup StreamEvents(reconstructed))
    <3>1. \A e \in StreamEvents(original) \cup StreamEvents(reconstructed) : IsEvent(e)
      BY <1>2, EventsByCoords DEF PrintedTraces, PrintedEvent
    <3> QED
      BY <3>1, AlwaysCoarse
  <2> QED
    BY <1>1, <1>2, <2>1, SameContentPasses
<1>3. ASSUME VerifyInv, PrintedTraces, verdict = Some(TRUE), ~Blind,
             verdict # None /\ Faithful => (verdict[1] <=> ObservedContent)
      PROVE  SameContent
  <2>1. verdict # None /\ verdict[1]
    BY <1>3, Options
  <2>2. ObservedContent
    BY <1>3, <2>1, PrintedAreFaithful
  <2>3. original.startTs = reconstructed.startTs
    BY <1>3 DEF Blind
  <2> QED
    BY <1>1, <1>3, <2>1, <2>2, <2>3, PrintedAreFaithful, ObservedIsDocumented
<1>4. VerifyInv /\ (verdict # None /\ Faithful => (verdict[1] <=> ObservedContent))
        => (PrintedTraces => VerdictIsRight)
  BY <1>2, <1>3 DEF VerdictIsRight
<1> QED
  BY <1>4, VerifyInvariant, VerdictIsExact, PTL

\* So it is for every verify of the command line.
THEOREM CommandsHold == DecimalTexts => (RoundTripSpec => [](PrintedTraces => VerdictIsRight))
BY CommandsVerify, VerdictHolds, PTL
=============================================================================
