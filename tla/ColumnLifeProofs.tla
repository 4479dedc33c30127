--------------------------- MODULE ColumnLifeProofs ---------------------------
(***************************************************************************)
(* A column gives back what was stored in it, for every width of the        *)
(* integers, every set of values and every sequence of push, extend_from    *)
(* and compact.  For each column type one predicate says that a column      *)
(* holds a sequence of cells, and one lemma per operation that it still     *)
(* does afterwards; the facts about single operations are ColumnsProofs'.   *)
(***************************************************************************)
EXTENDS ColumnLife, ColumnsProofs

\* Names of one pattern have digits at the same places, each run within the
\* width a digit column can note.
NarrowRows ==
  \A r \in RowSets : \A a, b \in r : DOMAIN a = DOMAIN b /\ a \in [DOMAIN a -> NarrowRun]

-----------------------------------------------------------------------------
\* NumColumn.

NarrowFits(c) == c.tag = "I32" => \A i \in 1..Len(c.values) : FitsI32(c.values[i])

NumHolds(c, vs) ==
  /\ c \in NumColumn /\ NarrowFits(c)
  /\ NumLen(c) = Len(vs)
  /\ \A i \in 1..Len(vs) : NumGet(c, i - 1) = vs[i]

\* Past its end a numeric column reads nothing.
LEMMA NumPastEnd ==
  ASSUME NEW c \in NumColumn
  PROVE  NumGet(c, NumLen(c)) = None
  BY DEF NumColumn, NumGet, NumLen, At

\* Pushing a number appends it to what the column holds.
LEMMA NumHoldsPush ==
  ASSUME NEW vs \in Seq(Int), NEW c, NumHolds(c, vs), NEW v \in Int
  PROVE  NumHolds(NumPush(c, v), Append(vs, v))
<1> DEFINE d == NumPush(c, v)
<1>1. /\ d \in NumColumn /\ NumLen(d) = Len(vs) + 1
      /\ \A i \in 0..(Len(vs) - 1) : NumGet(d, i) = NumGet(c, i)
      /\ NumGet(d, Len(vs)) = v
  BY NumPushCells DEF NumHolds
<1>2. NarrowFits(d)
  BY DEF NumPush, NarrowFits
<1> HIDE DEF d
<1>3. ASSUME NEW i \in 1..(Len(vs) + 1) PROVE NumGet(d, i - 1) = Append(vs, v)[i]
  <2>1. CASE i = Len(vs) + 1
    BY <1>1, <2>1
  <2>2. CASE i \in 1..Len(vs)
    BY <1>1, <2>2 DEF NumHolds
  <2> QED
    BY <2>1, <2>2
<1> QED
  BY <1>1, <1>2, <1>3 DEF NumHolds, d

\* Compacting a numeric column keeps what it holds.
LEMMA NumHoldsCompact ==
  ASSUME NEW vs \in Seq(Int), NEW c, NumHolds(c, vs), Len(vs) < U32Mod
  PROVE  NumHolds(NumCompact(c), vs)
<1> DEFINE d == NumCompact(c)
<1>1. /\ d \in NumColumn /\ NumLen(d) = Len(vs)
      /\ \A i \in 0..(Len(vs) - 1) : NumGet(d, i) = NumGet(c, i)
  BY NumCompactCells DEF NumHolds
<1>2. NarrowFits(d)
  <2>1. NumValues(c) \in Seq(Int) /\ Len(NumValues(c)) = NumLen(c) /\ NumLen(c) \in Nat
    BY NumCells DEF NumHolds
  <2>2. SUFFICES ASSUME d.tag = "I32" PROVE \A i \in 1..Len(d.values) : FitsI32(d.values[i])
    BY DEF NarrowFits
  <2>3. /\ d.values = [i \in 1..NumLen(c) |-> AsI32(NumValues(c)[i])]
        /\ \A i \in 1..NumLen(c) : FitsI32(NumValues(c)[i])
    BY <2>2 DEF NumCompact, NumEmpty
  <2>4. \A i \in 1..NumLen(c) : AsI32(NumValues(c)[i]) = NumValues(c)[i]
    BY <2>1, <2>3, AsI32Exact
  <2> QED
    BY <2>1, <2>3, <2>4
<1> HIDE DEF d
<1>3. ASSUME NEW i \in 1..Len(vs) PROVE NumGet(d, i - 1) = vs[i]
  BY <1>1 DEF NumHolds
<1> QED
  BY <1>1, <1>2, <1>3 DEF NumHolds, d

\* What two sequences of cells are when one follows the other.
LEMMA JoinedCells ==
  ASSUME NEW S, NEW vs \in Seq(S), NEW ws \in Seq(S)
  PROVE  /\ vs \o ws \in Seq(S) /\ Len(vs \o ws) = Len(vs) + Len(ws)
         /\ Len(vs) = 0 => vs \o ws = ws
         /\ Len(ws) = 0 => vs \o ws = vs
  OBVIOUS

\* A column of stored i64 holds them.
LEMMA NumHoldsStored ==
  ASSUME NEW vs \in Seq(Int)
  PROVE  NumHolds([tag |-> "I64", values |-> vs], vs)
  BY DEF NumHolds, NumColumn, NarrowFits, NumLen, NumGet, At

\* The values read out of a numeric column are those it holds.
LEMMA NumValuesHeld ==
  ASSUME NEW vs \in Seq(Int), NEW c, NumHolds(c, vs)
  PROVE  NumValues(c) = vs
<1>1. /\ NumValues(c) \in Seq(Int) /\ Len(NumValues(c)) = Len(vs)
      /\ \A i \in 1..Len(vs) : NumValues(c)[i] = vs[i]
  BY NumCells DEF NumHolds
<1> QED
  BY <1>1

\* Extending a numeric column appends what the other holds.
LEMMA NumHoldsExtend ==
  ASSUME NEW vs \in Seq(Int), NEW ws \in Seq(Int),
         NEW c, NumHolds(c, vs), NEW d, NumHolds(d, ws)
  PROVE  NumHolds(NumExtendFrom(c, d), vs \o ws)
<1>1. NumLen(c) = Len(vs) /\ NumLen(d) = Len(ws)
  BY DEF NumHolds
<1>2. NumValues(c) = vs /\ NumValues(d) = ws
  BY NumValuesHeld
<1>3. CASE Len(ws) = 0
  BY <1>1, <1>3, JoinedCells DEF NumExtendFrom
<1>4. CASE Len(ws) # 0 /\ Len(vs) = 0
  BY <1>1, <1>4, JoinedCells DEF NumExtendFrom
<1>5. CASE Len(ws) # 0 /\ Len(vs) # 0
  <2>1. NumExtendFrom(c, d) = [tag |-> "I64", values |-> vs \o ws]
    BY <1>1, <1>2, <1>5 DEF NumExtendFrom
  <2>2. vs \o ws \in Seq(Int)
    BY JoinedCells
  <2> QED
    BY <2>1, <2>2, NumHoldsStored
<1> QED
  BY <1>3, <1>4, <1>5

-----------------------------------------------------------------------------
\* StringColumn and PhaseColumn.

RunHolds(S, c, vs) ==
  /\ c \in RunColumn(S)
  /\ RunLen(c) = Len(vs)
  /\ \A i \in 1..Len(vs) : RunGet(c, i - 1) = vs[i]

\* Past its end a column of runs reads nothing.
LEMMA RunPastEnd ==
  ASSUME NEW S, NEW c \in RunColumn(S)
  PROVE  RunGet(c, RunLen(c)) = None
  BY DEF RunColumn, RunGet, RunLen, At

\* Pushing a value appends it to what a column of runs holds.
LEMMA RunHoldsPush ==
  ASSUME NEW S, NEW vs \in Seq(S), NEW c, RunHolds(S, c, vs), NEW v \in S
  PROVE  RunHolds(S, RunPush(c, v), Append(vs, v))
<1> DEFINE d == RunPush(c, v)
<1>1. /\ d \in RunColumn(S) /\ RunLen(d) = Len(vs) + 1
      /\ \A i \in 0..(Len(vs) - 1) : RunGet(d, i) = RunGet(c, i)
      /\ RunGet(d, Len(vs)) = v
  BY RunPushCells DEF RunHolds
<1> HIDE DEF d
<1>2. ASSUME NEW i \in 1..(Len(vs) + 1) PROVE RunGet(d, i - 1) = Append(vs, v)[i]
  <2>1. CASE i = Len(vs) + 1
    BY <1>1, <2>1
  <2>2. CASE i \in 1..Len(vs)
    BY <1>1, <2>2 DEF RunHolds
  <2> QED
    BY <2>1, <2>2
<1> QED
  BY <1>1, <1>2 DEF RunHolds, d

\* Compacting a column of runs keeps what it holds.
LEMMA RunHoldsCompact ==
  ASSUME NEW S, NEW vs \in Seq(S), NEW c, RunHolds(S, c, vs), Len(vs) < U32Mod
  PROVE  RunHolds(S, RunCompact(c), vs)
<1>1. /\ RunCompact(c) \in RunColumn(S) /\ RunLen(RunCompact(c)) = Len(vs)
      /\ \A i \in 0..(Len(vs) - 1) : RunGet(RunCompact(c), i) = RunGet(c, i)
  BY RunCompactCells DEF RunHolds
<1>2. ASSUME NEW i \in 1..Len(vs) PROVE RunGet(RunCompact(c), i - 1) = vs[i]
  BY <1>1 DEF RunHolds
<1> QED
  BY <1>1, <1>2 DEF RunHolds

\* A column of one value per instance holds them.
LEMMA RunHoldsStored ==
  ASSUME NEW S, NEW vs \in Seq(S)
  PROVE  RunHolds(S, [tag |-> "PerInstance", values |-> vs], vs)
  BY DEF RunHolds, RunColumn, RunLen, RunGet, At

\* The values read out of a column of runs are those it holds.
LEMMA RunValuesHeld ==
  ASSUME NEW S, NEW vs \in Seq(S), NEW c, RunHolds(S, c, vs)
  PROVE  RunValues(c) = vs
<1>1. /\ RunValues(c) \in Seq(S) /\ Len(RunValues(c)) = Len(vs)
      /\ \A i \in 1..Len(vs) : RunValues(c)[i] = vs[i]
  BY RunCells DEF RunHolds
<1> QED
  BY <1>1

\* Extending a column of runs appends what the other holds.
LEMMA RunHoldsExtend ==
  ASSUME NEW S, NEW vs \in Seq(S), NEW ws \in Seq(S),
         NEW c, RunHolds(S, c, vs), NEW d, RunHolds(S, d, ws)
  PROVE  RunHolds(S, RunExtendFrom(c, d), vs \o ws)
<1>1. RunLen(c) = Len(vs) /\ RunLen(d) = Len(ws)
  BY DEF RunHolds
<1>2. RunValues(c) = vs /\ RunValues(d) = ws
  BY RunValuesHeld
<1>3. CASE Len(ws) = 0
  BY <1>1, <1>3, JoinedCells DEF RunExtendFrom
<1>4. CASE Len(ws) # 0 /\ Len(vs) = 0
  BY <1>1, <1>4, JoinedCells DEF RunExtendFrom
<1>5. CASE Len(ws) # 0 /\ Len(vs) # 0
  <2>1. RunExtendFrom(c, d) = [tag |-> "PerInstance", values |-> vs \o ws]
    BY <1>1, <1>2, <1>5 DEF RunExtendFrom
  <2>2. vs \o ws \in Seq(S)
    BY JoinedCells
  <2> QED
    BY <2>1, <2>2, RunHoldsStored
<1> QED
  BY <1>3, <1>4, <1>5

-----------------------------------------------------------------------------
\* ArgColumn: built, then sealed by compact.

ArgSealed(c) ==
  /\ c.tag \in DOMAIN TypedKind \cup {"ExactConstant", "Exact"}
  /\ NarrowFits(c)

ArgHolds(c, vs) ==
  /\ (c \in ArgBuild /\ c.values = vs) \/ ArgSealed(c)
  /\ \A i \in 1..Len(vs) : ArgGet(c, i - 1) = vs[i]

\* An argument column is built per instance, and a sealed one is not.
LEMMA ArgBuildTag ==
  /\ \A c \in ArgBuild : c.tag = "PerInstance"
  /\ \A c : ArgSealed(c) => c.tag # "PerInstance"
  BY DEF ArgBuild, ArgSealed, TypedKind

\* Pushing an argument value appends it to what the column holds.
LEMMA ArgHoldsPush ==
  ASSUME NEW vs \in Seq(JsonValue), NEW c, ArgHolds(c, vs), c.tag = "PerInstance",
         NEW v \in JsonValue
  PROVE  ArgHolds(ArgPush(c, v), Append(vs, v))
<1> DEFINE d == ArgPush(c, v)
<1>1. c \in ArgBuild /\ c.values = vs
  BY ArgBuildTag DEF ArgHolds
<1>2. /\ d \in ArgBuild
      /\ \A i \in 0..(Len(vs) - 1) : ArgGet(d, i) = ArgGet(c, i)
      /\ ArgGet(d, Len(vs)) = v
  BY <1>1, ArgPushCells
<1>3. d.values = Append(vs, v)
  BY <1>1 DEF ArgPush, ArgBuild
<1> HIDE DEF d
<1>4. ASSUME NEW i \in 1..(Len(vs) + 1) PROVE ArgGet(d, i - 1) = Append(vs, v)[i]
  <2>1. CASE i = Len(vs) + 1
    BY <1>2, <2>1
  <2>2. CASE i \in 1..Len(vs)
    BY <1>2, <2>2 DEF ArgHolds
  <2> QED
    BY <2>1, <2>2
<1> QED
  BY <1>2, <1>3, <1>4 DEF ArgHolds, d

\* compact seals a build column, unless it is empty.
LEMMA ArgCompactSeals ==
  ASSUME NEW c \in ArgBuild, c.values # <<>>
  PROVE  ArgSealed(ArgCompact(c))
<1> DEFINE vs == c.values
           variant == ArgVariant(vs)
           d == ArgCompact(c)
<1>1. c.tag = "PerInstance" /\ vs \in Seq(JsonValue)
  BY DEF ArgBuild
<1>2. /\ variant \in {"ExactConstant", "Bool", "I32", "I64", "F64", "StrDict", "Str", "Exact"}
      /\ variant = "I32" => \A i \in 1..Len(vs) : FitsI32(vs[i].v)
  BY <1>1, VariantMeaning
<1> HIDE DEF variant
<1>3. d.tag = variant
  BY <1>1, <1>2 DEF ArgCompact, variant
<1>4. NarrowFits(d)
  <2> SUFFICES ASSUME variant = "I32" PROVE \A i \in 1..Len(d.values) : FitsI32(d.values[i])
    BY <1>3 DEF NarrowFits
  <2>1. d.values = [i \in 1..Len(vs) |-> AsI32(vs[i].v)]
    BY <1>1 DEF ArgCompact, variant
  <2>2. \A i \in 1..Len(vs) : vs[i].v \in Int
    BY <1>1 DEF JsonValue
  <2>3. \A i \in 1..Len(vs) : AsI32(vs[i].v) = vs[i].v
    BY <1>2, <2>2, AsI32Exact
  <2> QED
    BY <1>1, <1>2, <2>1, <2>3
<1> QED
  BY <1>2, <1>3, <1>4 DEF ArgSealed, TypedKind

\* Compacting an argument column keeps what it holds.
LEMMA ArgHoldsCompact ==
  ASSUME NEW vs \in Seq(JsonValue), NEW c, ArgHolds(c, vs)
  PROVE  ArgHolds(ArgCompact(c), vs)
<1>1. CASE ArgSealed(c)
  <2>1. ArgCompact(c) = c
    BY <1>1, ArgBuildTag DEF ArgCompact
  <2> QED
    BY <2>1
<1>2. CASE c \in ArgBuild /\ c.values = <<>>
  BY <1>2 DEF ArgCompact
<1>3. CASE c \in ArgBuild /\ c.values = vs /\ vs # <<>>
  <2>1. \A i \in 0..(Len(vs) - 1) : ArgGet(ArgCompact(c), i) = ArgGet(c, i)
    BY <1>3, ArgCompactCells
  <2>2. ASSUME NEW i \in 1..Len(vs) PROVE ArgGet(ArgCompact(c), i - 1) = vs[i]
    BY <2>1 DEF ArgHolds
  <2> QED
    BY <1>3, <2>2, ArgCompactSeals DEF ArgHolds
<1> QED
  BY <1>1, <1>2, <1>3 DEF ArgHolds

-----------------------------------------------------------------------------
\* NameNums: built row by row, then transposed by compact.

NumsHold(P, c, vs) ==
  /\ NumsBuild(c, P, Len(vs)) \/ c.tag = "Columnar"
  /\ \A i \in 1..Len(vs) : DecodeNameNums(c, i - 1) = vs[i]

\* Pushing the numbers of a name appends the row to what the column holds.
LEMMA NumsHoldPush ==
  ASSUME NEW P, NEW vs \in Seq(NarrowRow(P)), NEW c, NumsHold(P, c, vs), c.tag # "Columnar",
         NEW row \in NarrowRow(P)
  PROVE  NumsHold(P, PushNameNums(c, row), Append(vs, row))
<1> DEFINE d == PushNameNums(c, row)
           n == Len(vs)
<1>1. n \in Nat /\ NumsPushed(d, c, P, n, row)
  BY PushNameNumsRows DEF NumsHold
<1>2. /\ NumsBuild(d, P, n + 1) /\ DecodeNameNums(d, n) = row
      /\ \A i \in 0..(n - 1) : DecodeNameNums(d, i) = DecodeNameNums(c, i)
  BY <1>1 DEF NumsPushed
<1> HIDE DEF d
<1>3. ASSUME NEW i \in 1..(n + 1) PROVE DecodeNameNums(d, i - 1) = Append(vs, row)[i]
  <2>1. CASE i = n + 1
    BY <1>2, <2>1
  <2>2. CASE i \in 1..n
    BY <1>2, <2>2 DEF NumsHold
  <2> QED
    BY <2>1, <2>2
<1>4. Len(Append(vs, row)) = n + 1
  OBVIOUS
<1> QED
  BY <1>2, <1>3, <1>4 DEF NumsHold, d

\* Transposing the rows of numbers keeps what the column holds.
LEMMA NumsHoldCompact ==
  ASSUME NEW P, NEW vs \in Seq(NarrowRow(P)), NEW c, NumsHold(P, c, vs)
  PROVE  NumsHold(P, CompressNameNums(c), vs)
<1>1. CASE c.tag # "Rows"
  BY <1>1 DEF CompressNameNums
<1>2. CASE c.tag = "Rows"
  <2>1. NumsBuild(c, P, Len(vs)) /\ Len(vs) \in Nat
    BY <1>2 DEF NumsHold
  <2>2. \A i \in 0..(Len(vs) - 1) :
          DecodeNameNums(CompressNameNums(c), i) = DecodeNameNums(c, i)
    BY <2>1, CompressNameNumsRows
  <2>3. CompressNameNums(c).tag = "Columnar"
    BY <1>2 DEF CompressNameNums
  <2>4. ASSUME NEW i \in 1..Len(vs) PROVE DecodeNameNums(CompressNameNums(c), i - 1) = vs[i]
    BY <2>2 DEF NumsHold
  <2> QED
    BY <2>3, <2>4 DEF NumsHold
<1> QED
  BY <1>1, <1>2

-----------------------------------------------------------------------------
\* The column holds what its caller stored.
Stored ==
  CASE kind = "num"  -> NumHolds(column, log)
    [] kind = "text" -> RunHolds(Texts, column, log)
    [] kind = "arg"  -> ArgHolds(column, log)
    [] OTHER         -> \E P : rows \subseteq NarrowRow(P) /\ NumsHold(P, column, log)

LifeInv ==
  /\ kind \in Kinds
  /\ log \in Seq(Values(kind, rows)) /\ Len(log) <= MaxLog
  /\ Stored

\* The rows of one column have the same places.
LEMMA RowsHavePlaces ==
  ASSUME NarrowRows, NEW r \in RowSets
  PROVE  \E P : r \subseteq NarrowRow(P)
<1>1. CASE r = {}
  BY <1>1
<1>2. ASSUME NEW a \in r PROVE r \subseteq NarrowRow(DOMAIN a)
  BY DEF NarrowRows, NarrowRow
<1> QED
  BY <1>1, <1>2

\* An empty column holds nothing.
LEMMA InitLifeInv ==
  ASSUME NarrowRows, Init
  PROVE  LifeInv
<1>1. /\ kind \in Kinds /\ column = EmptyColumn(kind)
      /\ log = <<>> /\ Len(log) = 0 /\ log \in Seq(Values(kind, rows))
  BY DEF Init
<1>2. Stored
  <2>1. CASE kind = "num"
    <3>1. NumHolds(NumEmpty, <<>>)
      BY DEF NumHolds, NumEmpty, NumColumn, NarrowFits, NumLen
    <3> QED
      BY <1>1, <2>1, <3>1 DEF Stored, EmptyColumn
  <2>2. CASE kind = "text"
    <3>1. RunHolds(Texts, RunEmpty, <<>>)
      BY DEF RunHolds, RunEmpty, RunColumn, RunLen
    <3> QED
      BY <1>1, <2>2, <3>1 DEF Stored, EmptyColumn
  <2>3. CASE kind = "arg"
    <3>1. ArgHolds(ArgEmpty, <<>>)
      BY DEF ArgHolds, ArgEmpty, ArgBuild
    <3> QED
      BY <1>1, <2>3, <3>1 DEF Stored, EmptyColumn
  <2>4. CASE kind = "digits"
    <3>1. PICK P : rows \subseteq NarrowRow(P)
      BY <2>4, RowsHavePlaces DEF Init
    <3>2. NumsHold(P, NameNumsEmpty, <<>>)
      BY DEF NumsHold, NumsBuild
    <3>3. column = NameNumsEmpty
      BY <1>1, <2>4 DEF EmptyColumn
    <3> QED
      BY <1>1, <2>4, <3>1, <3>2, <3>3 DEF Stored
  <2> QED
    BY <1>1, <2>1, <2>2, <2>3, <2>4 DEF Kinds
<1> QED
  BY <1>1, <1>2, LogAssumption DEF LifeInv

\* A step for one column type at a time.
LEMMA PushKeeps ==
  ASSUME LifeInv, NEW v \in Values(kind, rows), Push(v)
  PROVE  LifeInv'
<1> USE DEF Values
<1>1. kind' = kind /\ rows' = rows /\ log' = Append(log, v)
      /\ column' = PushCell(kind, column, v) /\ Len(log) < MaxLog
  BY DEF Push
<1>2. log' \in Seq(Values(kind, rows)) /\ Len(log') <= MaxLog
  BY <1>1, LogAssumption DEF LifeInv
<1>3. Stored'
  <2>1. CASE kind = "num"
    <3>1. log \in Seq(Int) /\ v \in Int /\ NumHolds(column, log)
      BY <2>1, ValueAssumption DEF LifeInv, Stored
    <3>2. NumHolds(column', log')
      BY <1>1, <2>1, <3>1, NumHoldsPush DEF PushCell
    <3> QED
      BY <1>1, <2>1, <3>2 DEF Stored
  <2>2. CASE kind = "text"
    <3>1. log \in Seq(Texts) /\ v \in Texts /\ RunHolds(Texts, column, log)
      BY <2>2 DEF LifeInv, Stored
    <3>2. RunHolds(Texts, column', log')
      BY <1>1, <2>2, <3>1, RunHoldsPush DEF PushCell
    <3> QED
      BY <1>1, <2>2, <3>2 DEF Stored
  <2>3. CASE kind = "arg"
    <3>1. log \in Seq(JsonValue) /\ v \in JsonValue /\ ArgHolds(column, log)
      BY <2>3, ValueAssumption DEF LifeInv, Stored
    <3>2. ArgHolds(column', log')
      BY <1>1, <2>3, <3>1, ArgHoldsPush DEF PushCell, Push
    <3> QED
      BY <1>1, <2>3, <3>2 DEF Stored
  <2>4. CASE kind = "digits"
    <3>1. PICK P : rows \subseteq NarrowRow(P) /\ NumsHold(P, column, log)
      BY <2>4 DEF LifeInv, Stored
    <3>2. log \in Seq(NarrowRow(P)) /\ v \in NarrowRow(P)
      BY <2>4, <3>1 DEF LifeInv
    <3>3. NumsHold(P, column', log')
      BY <1>1, <2>4, <3>1, <3>2, NumsHoldPush DEF PushCell, Push
    <3> QED
      BY <1>1, <2>4, <3>1, <3>3 DEF Stored
  <2> QED
    BY <2>1, <2>2, <2>3, <2>4 DEF LifeInv, Kinds
<1> QED
  BY <1>1, <1>2, <1>3 DEF LifeInv

\* compact() keeps the invariant.
LEMMA CompactKeeps ==
  ASSUME LifeInv, Compact
  PROVE  LifeInv'
<1> USE DEF Values
<1>1. kind' = kind /\ rows' = rows /\ log' = log /\ column' = CompactColumn(kind, column)
  BY DEF Compact
<1>2. Len(log) < U32Mod
  BY LogAssumption, WidthAssumption DEF LifeInv
<1>3. Stored'
  <2>1. CASE kind = "num"
    <3>1. log \in Seq(Int) /\ NumHolds(column, log)
      BY <2>1, ValueAssumption DEF LifeInv, Stored
    <3>2. NumHolds(column', log')
      BY <1>1, <1>2, <2>1, <3>1, NumHoldsCompact DEF CompactColumn
    <3> QED
      BY <1>1, <2>1, <3>2 DEF Stored
  <2>2. CASE kind = "text"
    <3>1. log \in Seq(Texts) /\ RunHolds(Texts, column, log)
      BY <2>2 DEF LifeInv, Stored
    <3>2. RunHolds(Texts, column', log')
      BY <1>1, <1>2, <2>2, <3>1, RunHoldsCompact DEF CompactColumn
    <3> QED
      BY <1>1, <2>2, <3>2 DEF Stored
  <2>3. CASE kind = "arg"
    <3>1. log \in Seq(JsonValue) /\ ArgHolds(column, log)
      BY <2>3, ValueAssumption DEF LifeInv, Stored
    <3>2. ArgHolds(column', log')
      BY <1>1, <2>3, <3>1, ArgHoldsCompact DEF CompactColumn
    <3> QED
      BY <1>1, <2>3, <3>2 DEF Stored
  <2>4. CASE kind = "digits"
    <3>1. PICK P : rows \subseteq NarrowRow(P) /\ NumsHold(P, column, log)
      BY <2>4 DEF LifeInv, Stored
    <3>2. log \in Seq(NarrowRow(P))
      BY <2>4, <3>1 DEF LifeInv
    <3>3. NumsHold(P, column', log')
      BY <1>1, <2>4, <3>1, <3>2, NumsHoldCompact DEF CompactColumn
    <3> QED
      BY <1>1, <2>4, <3>1, <3>3 DEF Stored
  <2> QED
    BY <2>1, <2>2, <2>3, <2>4 DEF LifeInv, Kinds
<1> QED
  BY <1>1, <1>3 DEF LifeInv

\* extend_from() keeps the invariant.
LEMMA ExtendKeeps ==
  ASSUME LifeInv, NEW n \in 0..MaxOther, NEW compacted \in BOOLEAN,
         NEW vs \in [1..n -> Values(kind, rows)], ExtendFrom(vs, compacted)
  PROVE  LifeInv'
<1> DEFINE built == Built(kind, vs)
           other == IF compacted THEN CompactColumn(kind, built) ELSE built
<1>1. /\ kind' = kind /\ rows' = rows /\ log' = log \o vs
      /\ kind \in {"num", "text"} /\ Len(log) + Len(vs) <= MaxLog
      /\ column' = IF kind = "num" THEN NumExtendFrom(column, other)
                   ELSE RunExtendFrom(column, other)
  BY DEF ExtendFrom
<1>2. vs \in Seq(Values(kind, rows)) /\ log \in Seq(Values(kind, rows))
  BY LogAssumption DEF LifeInv
<1> HIDE DEF other
<1>3. log' \in Seq(Values(kind, rows)) /\ Len(log') <= MaxLog
  BY <1>1, <1>2, JoinedCells
<1>4. Len(vs) < U32Mod
  BY <1>1, <1>2, LogAssumption, WidthAssumption
<1>5. CASE kind = "num"
  <2>1. log \in Seq(Int) /\ vs \in Seq(Int) /\ NumHolds(column, log)
    BY <1>2, <1>5, ValueAssumption DEF LifeInv, Stored, Values
  <2>2. NumHolds(built, vs)
    <3>1. CASE vs = <<>>
      BY <1>5, <3>1 DEF Built, EmptyColumn, NumEmpty, NumHolds, NumColumn, NarrowFits, NumLen
    <3>2. CASE vs # <<>>
      BY <1>5, <2>1, <3>2, NumHoldsStored DEF Built
    <3> QED
      BY <3>1, <3>2
  <2>3. NumHolds(other, vs)
    BY <1>4, <1>5, <2>1, <2>2, NumHoldsCompact DEF other, CompactColumn
  <2>4. NumHolds(column', log')
    BY <1>1, <1>5, <2>1, <2>3, NumHoldsExtend
  <2> QED
    BY <1>1, <1>3, <1>5, <2>4 DEF LifeInv, Stored
<1>6. CASE kind = "text"
  <2>1. log \in Seq(Texts) /\ vs \in Seq(Texts) /\ RunHolds(Texts, column, log)
    BY <1>2, <1>6 DEF LifeInv, Stored, Values
  <2>2. RunHolds(Texts, built, vs)
    <3>1. CASE vs = <<>>
      BY <1>6, <3>1 DEF Built, EmptyColumn, RunEmpty, RunHolds, RunColumn, RunLen
    <3>2. CASE vs # <<>>
      BY <1>6, <2>1, <3>2, RunHoldsStored DEF Built
    <3> QED
      BY <3>1, <3>2
  <2>3. RunHolds(Texts, other, vs)
    BY <1>4, <1>6, <2>1, <2>2, RunHoldsCompact DEF other, CompactColumn
  <2>4. RunHolds(Texts, column', log')
    BY <1>1, <1>6, <2>1, <2>3, RunHoldsExtend
  <2> QED
    BY <1>1, <1>3, <1>6, <2>4 DEF LifeInv, Stored
<1> QED
  BY <1>1, <1>5, <1>6

\* Every operation of a column keeps the invariant.
LEMMA NextLifeInv == LifeInv /\ [Next]_vars => LifeInv'
<1> SUFFICES ASSUME LifeInv, [Next]_vars PROVE LifeInv'
  OBVIOUS
<1>1. ASSUME NEW v \in Values(kind, rows), Push(v) PROVE LifeInv'
  BY <1>1, PushKeeps
<1>2. ASSUME NEW n \in 0..MaxOther, NEW compacted \in BOOLEAN,
             NEW vs \in [1..n -> Values(kind, rows)], ExtendFrom(vs, compacted)
      PROVE  LifeInv'
  BY <1>2, ExtendKeeps
<1>3. CASE Compact
  BY <1>3, CompactKeeps
<1>4. CASE UNCHANGED vars
  BY <1>4 DEF vars, LifeInv, Stored
<1> QED
  BY <1>1, <1>2, <1>3, <1>4 DEF Next

\* The invariant gives the properties the run checks.
LEMMA LifeInvSuffices == LifeInv => TypeOK /\ CellsFaithful
<1> SUFFICES ASSUME LifeInv PROVE TypeOK /\ CellsFaithful
  OBVIOUS
<1> USE DEF TypeOK, CellsFaithful, Cell
<1>1. CASE kind = "num"
  <2>1. NumHolds(column, log)
    BY <1>1 DEF LifeInv, Stored
  <2>2. NumGet(column, NumLen(column)) = None
    BY <2>1, NumPastEnd DEF NumHolds
  <2> QED
    BY <1>1, <2>1, <2>2 DEF NumHolds, NarrowFits, Kinds
<1>2. CASE kind = "text"
  <2>1. RunHolds(Texts, column, log)
    BY <1>2 DEF LifeInv, Stored
  <2>2. RunGet(column, RunLen(column)) = None
    BY <2>1, RunPastEnd DEF RunHolds
  <2> QED
    BY <1>2, <2>1, <2>2 DEF RunHolds, Kinds
<1>3. CASE kind = "arg"
  <2>1. ArgHolds(column, log)
    BY <1>3 DEF LifeInv, Stored
  <2>2. /\ column.tag \in DOMAIN TypedKind \cup {"PerInstance", "ExactConstant", "Exact"}
        /\ NarrowFits(column)
    BY <2>1, ArgBuildTag DEF ArgHolds, ArgSealed, NarrowFits
  <2> QED
    BY <1>3, <2>1, <2>2 DEF ArgHolds, NarrowFits, Kinds
<1>4. CASE kind = "digits"
  <2>1. PICK P : NumsHold(P, column, log)
    BY <1>4 DEF LifeInv, Stored
  <2>2. column.tag \in {"Empty", "Rows", "Columnar"}
    BY <2>1 DEF NumsHold, NumsBuild, NameNumsEmpty
  <2> QED
    BY <1>4, <2>1, <2>2 DEF NumsHold, Kinds
<1> QED
  BY <1>1, <1>2, <1>3, <1>4 DEF LifeInv, Kinds

\* A column stays within the representations of its Rust type (event.rs, the
\* column enums), for names whose digit runs are no wider than a u8 says.
THEOREM ColumnTypeCorrect == NarrowRows => (Spec => []TypeOK)
<1> SUFFICES ASSUME NarrowRows PROVE Spec => []TypeOK
  OBVIOUS
<1>1. Init => LifeInv
  BY InitLifeInv
<1> QED
  BY <1>1, NextLifeInv, LifeInvSuffices, PTL DEF Spec

\* Every cell reads back as the value that was stored, through any sequence of
\* push, extend_from and compact, for every width of the integers (event.rs and
\* slp.rs), as long as no digit run is wider than a u8 says.
THEOREM CellsReadBack == NarrowRows => (Spec => []CellsFaithful)
<1> SUFFICES ASSUME NarrowRows PROVE Spec => []CellsFaithful
  OBVIOUS
<1>1. Init => LifeInv
  BY InitLifeInv
<1> QED
  BY <1>1, NextLifeInv, LifeInvSuffices, PTL DEF Spec
=============================================================================
