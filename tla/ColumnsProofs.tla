---------------------------- MODULE ColumnsProofs ----------------------------
(***************************************************************************)
(* Facts about the columns, for every width and every value: appending     *)
(* keeps the cells that were there, and compaction keeps every cell.       *)
(***************************************************************************)
EXTENDS Columns, TLAPS, FiniteSetTheorems, FunctionTheorems

\* `v as i32` is the identity on the values compact found to fit.
LEMMA AsI32Exact ==
  ASSUME NEW v \in Int, FitsI32(v)
  PROVE  AsI32(v) = v
<1> DEFINE m == I32Max - I32Min + 1
           d == v - I32Min
<1>1. I32Min \in Int /\ I32Max \in Int /\ m \in Int /\ m > 0
  BY WidthAssumption
<1>2. d \in Int /\ 0 <= d /\ d < m
  BY <1>1 DEF FitsI32
<1> HIDE DEF m, d
<1>3. d % m = d
  BY <1>1, <1>2
<1> QED
  BY <1>1, <1>3 DEF AsI32, m, d

\* `n as u32` is the identity below 2^32.
LEMMA AsU32Exact ==
  ASSUME NEW n \in Nat, n < U32Mod
  PROVE  AsU32(n) = n
BY WidthAssumption DEF AsU32

-----------------------------------------------------------------------------
\* A numeric column of any variant holds integers, as many as it says.
LEMMA NumCells ==
  ASSUME NEW c \in NumColumn
  PROVE  /\ NumLen(c) \in Nat
         /\ \A i \in 0..(NumLen(c) - 1) : NumGet(c, i) \in Int
         /\ NumValues(c) \in Seq(Int)
         /\ Len(NumValues(c)) = NumLen(c)
         /\ \A i \in 1..NumLen(c) : NumValues(c)[i] = NumGet(c, i - 1)
<1>1. NumLen(c) \in Nat
  BY DEF NumColumn, NumLen
<1>2. \A i \in 0..(NumLen(c) - 1) : NumGet(c, i) \in Int
  BY DEF NumColumn, NumLen, NumGet, At
<1>3. NumValues(c) \in Seq(Int) /\ Len(NumValues(c)) = NumLen(c)
  BY <1>1, <1>2 DEF NumValues
<1> QED
  BY <1>1, <1>2, <1>3 DEF NumValues

\* push appends one cell and keeps the others.
LEMMA NumPushCells ==
  ASSUME NEW c \in NumColumn, NEW v \in Int
  PROVE  /\ NumPush(c, v) \in NumColumn
         /\ NumLen(NumPush(c, v)) = NumLen(c) + 1
         /\ \A i \in 0..(NumLen(c) - 1) : NumGet(NumPush(c, v), i) = NumGet(c, i)
         /\ NumGet(NumPush(c, v), NumLen(c)) = v
<1> DEFINE vs == NumValues(c)
<1>1. /\ vs \in Seq(Int) /\ Len(vs) = NumLen(c) /\ NumLen(c) \in Nat
      /\ \A i \in 1..NumLen(c) : vs[i] = NumGet(c, i - 1)
  BY NumCells
<1>2. NumPush(c, v) = [tag |-> "I64", values |-> Append(vs, v)]
  BY DEF NumPush
<1> HIDE DEF vs
<1>3. Append(vs, v) \in Seq(Int) /\ Len(Append(vs, v)) = NumLen(c) + 1
  BY <1>1
<1>4. NumPush(c, v) \in NumColumn
  BY <1>2, <1>3 DEF NumColumn
<1>5. NumLen(NumPush(c, v)) = NumLen(c) + 1
  BY <1>2, <1>3 DEF NumLen
<1>6. ASSUME NEW i \in 0..NumLen(c)
      PROVE  NumGet(NumPush(c, v), i) = Append(vs, v)[i + 1]
  BY <1>1, <1>2, <1>3 DEF NumGet, At
<1>7. ASSUME NEW i \in 0..(NumLen(c) - 1)
      PROVE  NumGet(NumPush(c, v), i) = NumGet(c, i)
  <2>1. i + 1 \in 1..NumLen(c) /\ (i + 1) - 1 = i /\ i \in 0..NumLen(c)
    BY <1>1
  <2> QED
    BY <1>1, <1>6, <2>1
<1>8. NumGet(NumPush(c, v), NumLen(c)) = v
  BY <1>1, <1>6
<1> QED
  BY <1>4, <1>5, <1>7, <1>8

\* compact keeps the length and every cell, in range or not.
LEMMA NumCompactCells ==
  ASSUME NEW c \in NumColumn, NumLen(c) < U32Mod
  PROVE  /\ NumCompact(c) \in NumColumn
         /\ NumLen(NumCompact(c)) = NumLen(c)
         /\ \A i \in 0..(NumLen(c) - 1) : NumGet(NumCompact(c), i) = NumGet(c, i)
<1> DEFINE vs == NumValues(c)
           n  == NumLen(c)
<1>1. /\ vs \in Seq(Int) /\ Len(vs) = n /\ n \in Nat
      /\ \A i \in 1..n : vs[i] = NumGet(c, i - 1)
  BY NumCells
<1>2. n < U32Mod /\ AsU32(n) = n
  BY <1>1, AsU32Exact
<1>3. CASE n = 0
  <2>1. NumCompact(c) = NumEmpty
    BY <1>3 DEF NumCompact
  <2> QED
    BY <1>3, <2>1 DEF NumColumn, NumEmpty, NumLen
<1>4. CASE n # 0 /\ AllSame(vs)
  <2>1. NumCompact(c) = [tag |-> "Constant", len |-> n, value |-> vs[1]]
    BY <1>2, <1>4 DEF NumCompact
  <2> HIDE DEF vs, n
  <2>2. \A i \in 1..n : vs[i] = vs[1] /\ vs[1] \in Int
    BY <1>1, <1>4 DEF AllSame
  <2>3. NumCompact(c) \in NumColumn /\ NumLen(NumCompact(c)) = n
    BY <1>1, <1>4, <2>1, <2>2 DEF NumColumn, NumLen
  <2>4. ASSUME NEW i \in 0..(n - 1)
        PROVE  NumGet(NumCompact(c), i) = NumGet(c, i)
    <3>1. i + 1 \in 1..n /\ i < n /\ (i + 1) - 1 = i
      BY <1>1
    <3>2. NumGet(c, i) = vs[1]
      BY <1>1, <2>2, <3>1
    <3> QED
      BY <2>1, <3>1, <3>2 DEF NumGet
  <2> QED
    BY <2>3, <2>4 DEF n
<1>5. CASE n # 0 /\ ~AllSame(vs) /\ \A i \in 1..n : FitsI32(vs[i])
  <2> DEFINE ns == [i \in 1..n |-> AsI32(vs[i])]
  <2>1. NumCompact(c) = [tag |-> "I32", values |-> ns]
    BY <1>5 DEF NumCompact
  <2> HIDE DEF vs, n
  <2>2. \A i \in 1..n : vs[i] \in Int /\ AsI32(vs[i]) = vs[i]
    BY <1>1, <1>5, AsI32Exact
  <2>3. ns \in Seq(Int) /\ Len(ns) = n /\ \A i \in 1..n : ns[i] = vs[i]
    BY <1>1, <2>2
  <2> HIDE DEF ns
  <2>4. NumCompact(c) \in NumColumn /\ NumLen(NumCompact(c)) = n
    BY <2>1, <2>3 DEF NumColumn, NumLen
  <2>5. ASSUME NEW i \in 0..(n - 1)
        PROVE  NumGet(NumCompact(c), i) = NumGet(c, i)
    <3>1. i + 1 \in 1..n /\ (i + 1) - 1 = i
      BY <1>1
    <3>2. NumGet(NumCompact(c), i) = ns[i + 1]
      BY <2>1, <2>3, <3>1 DEF NumGet, At
    <3> QED
      BY <1>1, <2>3, <3>1, <3>2
  <2> QED
    BY <2>4, <2>5 DEF n
<1>6. CASE n # 0 /\ ~AllSame(vs) /\ ~\A i \in 1..n : FitsI32(vs[i])
  <2>1. NumCompact(c) = [tag |-> "I64", values |-> vs]
    BY <1>6 DEF NumCompact
  <2> HIDE DEF vs, n
  <2>4. NumCompact(c) \in NumColumn /\ NumLen(NumCompact(c)) = n
    BY <1>1, <2>1 DEF NumColumn, NumLen
  <2>5. ASSUME NEW i \in 0..(n - 1)
        PROVE  NumGet(NumCompact(c), i) = NumGet(c, i)
    <3>1. i + 1 \in 1..n /\ (i + 1) - 1 = i
      BY <1>1
    <3>2. NumGet(NumCompact(c), i) = vs[i + 1]
      BY <1>1, <2>1, <3>1 DEF NumGet, At
    <3> QED
      BY <1>1, <3>1, <3>2
  <2> QED
    BY <2>4, <2>5 DEF n
<1> QED
  BY <1>3, <1>4, <1>5, <1>6

-----------------------------------------------------------------------------
\* A text or phase column of any variant holds its values, as many as it says.
LEMMA RunCells ==
  ASSUME NEW S, NEW c \in RunColumn(S)
  PROVE  /\ RunLen(c) \in Nat
         /\ \A i \in 0..(RunLen(c) - 1) : RunGet(c, i) \in S
         /\ RunValues(c) \in Seq(S)
         /\ Len(RunValues(c)) = RunLen(c)
         /\ \A i \in 1..RunLen(c) : RunValues(c)[i] = RunGet(c, i - 1)
<1>1. RunLen(c) \in Nat
  BY DEF RunColumn, RunLen
<1>2. \A i \in 0..(RunLen(c) - 1) : RunGet(c, i) \in S
  BY DEF RunColumn, RunLen, RunGet, At
<1>3. RunValues(c) \in Seq(S) /\ Len(RunValues(c)) = RunLen(c)
  BY <1>1, <1>2 DEF RunValues
<1> QED
  BY <1>1, <1>2, <1>3 DEF RunValues

\* push appends one cell and keeps the others.
LEMMA RunPushCells ==
  ASSUME NEW S, NEW c \in RunColumn(S), NEW v \in S
  PROVE  /\ RunPush(c, v) \in RunColumn(S)
         /\ RunLen(RunPush(c, v)) = RunLen(c) + 1
         /\ \A i \in 0..(RunLen(c) - 1) : RunGet(RunPush(c, v), i) = RunGet(c, i)
         /\ RunGet(RunPush(c, v), RunLen(c)) = v
<1> DEFINE vs == RunValues(c)
<1>1. /\ vs \in Seq(S) /\ Len(vs) = RunLen(c) /\ RunLen(c) \in Nat
      /\ \A i \in 1..RunLen(c) : vs[i] = RunGet(c, i - 1)
  BY RunCells
<1>2. RunPush(c, v) = [tag |-> "PerInstance", values |-> Append(vs, v)]
  BY DEF RunPush
<1> HIDE DEF vs
<1>3. Append(vs, v) \in Seq(S) /\ Len(Append(vs, v)) = RunLen(c) + 1
  BY <1>1
<1>4. RunPush(c, v) \in RunColumn(S)
  BY <1>2, <1>3 DEF RunColumn
<1>5. RunLen(RunPush(c, v)) = RunLen(c) + 1
  BY <1>2, <1>3 DEF RunLen
<1>6. ASSUME NEW i \in 0..RunLen(c)
      PROVE  RunGet(RunPush(c, v), i) = Append(vs, v)[i + 1]
  BY <1>1, <1>2, <1>3 DEF RunGet, At
<1>7. ASSUME NEW i \in 0..(RunLen(c) - 1)
      PROVE  RunGet(RunPush(c, v), i) = RunGet(c, i)
  <2>1. i + 1 \in 1..RunLen(c) /\ (i + 1) - 1 = i /\ i \in 0..RunLen(c)
    BY <1>1
  <2> QED
    BY <1>1, <1>6, <2>1
<1>8. RunGet(RunPush(c, v), RunLen(c)) = v
  BY <1>1, <1>6
<1> QED
  BY <1>4, <1>5, <1>7, <1>8

\* compact keeps the length and every cell.
LEMMA RunCompactCells ==
  ASSUME NEW S, NEW c \in RunColumn(S), RunLen(c) < U32Mod
  PROVE  /\ RunCompact(c) \in RunColumn(S)
         /\ RunLen(RunCompact(c)) = RunLen(c)
         /\ \A i \in 0..(RunLen(c) - 1) : RunGet(RunCompact(c), i) = RunGet(c, i)
<1> DEFINE vs == RunValues(c)
           n  == RunLen(c)
<1>1. /\ vs \in Seq(S) /\ Len(vs) = n /\ n \in Nat
      /\ \A i \in 1..n : vs[i] = RunGet(c, i - 1)
  BY RunCells
<1>2. n < U32Mod /\ AsU32(n) = n
  BY <1>1, AsU32Exact
<1>3. CASE n = 0
  <2>1. RunCompact(c) = RunEmpty
    BY <1>3 DEF RunCompact
  <2> QED
    BY <1>3, <2>1 DEF RunColumn, RunEmpty, RunLen
<1>4. CASE n # 0 /\ AllSame(vs)
  <2>1. RunCompact(c) = [tag |-> "Constant", len |-> n, value |-> RunGet(c, 0)]
    BY <1>2, <1>4 DEF RunCompact
  <2> HIDE DEF vs, n
  <2>2. \A i \in 1..n : vs[i] = RunGet(c, 0) /\ RunGet(c, 0) \in S
    <3>1. 1 \in 1..n /\ 1 - 1 = 0
      BY <1>1, <1>4
    <3>2. vs[1] = RunGet(c, 0) /\ vs[1] \in S
      BY <1>1, <3>1
    <3> QED
      BY <1>1, <1>4, <3>2 DEF AllSame
  <2>3. RunCompact(c) \in RunColumn(S) /\ RunLen(RunCompact(c)) = n
    <3>1. 1 \in 1..n /\ RunGet(c, 0) \in S
      BY <1>1, <1>4, <2>2
    <3> QED
      BY <1>1, <2>1, <3>1 DEF RunColumn, RunLen
  <2>4. ASSUME NEW i \in 0..(n - 1)
        PROVE  RunGet(RunCompact(c), i) = RunGet(c, i)
    <3>1. i + 1 \in 1..n /\ i < n /\ (i + 1) - 1 = i
      BY <1>1
    <3>2. RunGet(c, i) = RunGet(c, 0)
      <4>1. vs[i + 1] = RunGet(c, (i + 1) - 1)
        BY <1>1, <3>1
      <4>2. vs[i + 1] = RunGet(c, 0)
        BY <2>2, <3>1
      <4> QED
        BY <3>1, <4>1, <4>2
    <3>3. RunGet(RunCompact(c), i) = RunGet(c, 0)
      BY <2>1, <3>1 DEF RunGet
    <3> QED
      BY <3>2, <3>3
  <2> QED
    BY <2>3, <2>4 DEF n
<1>5. CASE n # 0 /\ ~AllSame(vs)
  BY <1>5 DEF RunCompact
<1> QED
  BY <1>3, <1>4, <1>5

-----------------------------------------------------------------------------
\* JSON values survive the type-tagged form they have in artifacts.
LEMMA ExactRoundTrip ==
  ASSUME NEW x \in JsonValue
  PROVE  /\ ExactIntoJson(ExactFromJson(x)) = x
         /\ ExactFromJson(x) \in ExactArgValue
<1> DEFINE tag == ExactTag[x.kind]
<1>1. x.kind \in DOMAIN ExactTag /\ x = [kind |-> x.kind, v |-> x.v]
  BY DEF JsonValue, ExactTag
<1>2. \A k \in DOMAIN ExactTag : ExactTag[k] = tag => k = x.kind
  BY <1>1 DEF ExactTag
<1>3. (CHOOSE k \in DOMAIN ExactTag : ExactTag[k] = tag) = x.kind
  BY <1>1, <1>2
<1>4. ExactFromJson(x) = [exact |-> tag, v |-> x.v]
  BY DEF ExactFromJson
<1>5. tag \in {ExactTag[k] : k \in DOMAIN ExactTag} /\ x.v \in Int
  BY <1>1 DEF JsonValue
<1> HIDE DEF tag
<1>6. ExactFromJson(x) \in ExactArgValue
  BY <1>4, <1>5 DEF ExactArgValue
<1> QED
  BY <1>1, <1>3, <1>4, <1>6 DEF ExactIntoJson

\* An argument column while its template is built.
ArgBuild == [tag : {"PerInstance"}, values : Seq(JsonValue)]

\* push appends one argument and keeps the others.
LEMMA ArgPushCells ==
  ASSUME NEW c \in ArgBuild, NEW x \in JsonValue
  PROVE  /\ ArgPush(c, x) \in ArgBuild
         /\ Len(ArgPush(c, x).values) = Len(c.values) + 1
         /\ \A i \in 0..(Len(c.values) - 1) : ArgGet(ArgPush(c, x), i) = ArgGet(c, i)
         /\ ArgGet(ArgPush(c, x), Len(c.values)) = x
<1> DEFINE vs == c.values
<1>1. c = [tag |-> "PerInstance", values |-> vs] /\ vs \in Seq(JsonValue)
  BY DEF ArgBuild
<1>2. ArgPush(c, x) = [tag |-> "PerInstance", values |-> Append(vs, x)]
  BY <1>1 DEF ArgPush
<1> HIDE DEF vs
<1>3. Append(vs, x) \in Seq(JsonValue) /\ Len(Append(vs, x)) = Len(vs) + 1
  BY <1>1
<1>4. ASSUME NEW i \in 0..Len(vs)
      PROVE  ArgGet(ArgPush(c, x), i) = Append(vs, x)[i + 1]
  BY <1>1, <1>2, <1>3 DEF ArgGet, At
<1>5. ASSUME NEW i \in 0..(Len(vs) - 1)
      PROVE  ArgGet(ArgPush(c, x), i) = ArgGet(c, i)
  <2>1. i \in 0..Len(vs) /\ i + 1 \in 1..Len(vs)
    BY <1>1
  <2>2. ArgGet(c, i) = vs[i + 1]
    BY <1>1, <2>1 DEF ArgGet, At
  <2> QED
    BY <1>1, <1>4, <2>1, <2>2
<1>6. ArgGet(ArgPush(c, x), Len(vs)) = x
  BY <1>1, <1>4
<1>7. ArgPush(c, x) \in ArgBuild /\ Len(ArgPush(c, x).values) = Len(vs) + 1
  BY <1>2, <1>3 DEF ArgBuild
<1> QED
  BY <1>5, <1>6, <1>7 DEF vs

\* What the scan of compact has established when it selects a variant.
LEMMA VariantMeaning ==
  ASSUME NEW vs \in Seq(JsonValue), vs # <<>>
  PROVE  LET variant == ArgVariant(vs)
         IN  /\ variant \in {"ExactConstant", "Bool", "I32", "I64", "F64",
                             "StrDict", "Str", "Exact"}
             /\ variant = "ExactConstant" =>
                  \A i \in 1..Len(vs) : JsonExactEq(vs[i], vs[1])
             /\ variant \in DOMAIN TypedKind =>
                  \A i \in 1..Len(vs) : vs[i].kind = TypedKind[variant]
             /\ variant = "I32" => \A i \in 1..Len(vs) : FitsI32(vs[i].v)
BY DEF ArgVariant, TypedKind

\* The dictionary of a column numbers every string that occurs in it.
LEMMA DictComplete ==
  ASSUME NEW vs \in Seq(JsonValue), NEW i \in 1..Len(vs)
  PROVE  LET id == DictId(DictOf(vs), vs[i].v)
         IN  id + 1 \in DOMAIN DictOf(vs) /\ DictOf(vs)[id + 1] = vs[i].v
            /\ id \in Int
<1> DEFINE strings == {vs[j].v : j \in 1..Len(vs)}
           n == Cardinality(strings)
           IsDict(d) == \A s \in strings : \E k \in 1..n : d[k] = s
<1>1. IsFiniteSet(strings)
  <2> DEFINE f == [j \in 1..Len(vs) |-> vs[j].v]
  <2>1. f \in Surjection(1..Len(vs), strings)
    BY Fun_IsSurj
  <2>2. IsFiniteSet(1..Len(vs))
    BY FS_Interval
  <2> QED
    BY <2>1, <2>2, FS_Surjection
<1>2. \E d \in [1..n -> strings] : IsDict(d)
  <2>1. ExistsBijection(1..n, strings)
    BY <1>1, FS_CardinalityType
  <2>2. PICK d : d \in Bijection(1..n, strings)
    BY <2>1 DEF ExistsBijection
  <2>3. d \in [1..n -> strings] /\ IsDict(d)
    BY <2>2 DEF Bijection, Surjection
  <2> QED
    BY <2>3
<1>3. DictOf(vs) = CHOOSE d \in [1..n -> strings] : IsDict(d)
  BY DEF DictOf
<1> DEFINE dict == DictOf(vs)
           s    == vs[i].v
<1>4. dict \in [1..n -> strings] /\ IsDict(dict)
  BY <1>2, <1>3
<1>5. n \in Nat
  BY <1>1, FS_CardinalityType
<1>6. s \in strings
  OBVIOUS
<1> HIDE DEF strings, n, dict, s
<1>7. \E k \in DOMAIN dict : dict[k] = s
  BY <1>4, <1>6
<1> DEFINE k == CHOOSE k \in DOMAIN dict : dict[k] = s
<1>8. k \in DOMAIN dict /\ dict[k] = s
  BY <1>7
<1>9. DictId(dict, s) = k - 1
  BY DEF DictId
<1> HIDE DEF k
<1>10. k \in Int /\ (k - 1) + 1 = k
  BY <1>4, <1>5, <1>8
<1> QED
  BY <1>8, <1>9, <1>10 DEF dict, s

\* compact keeps every argument, whichever variant it selects, and a column
\* that is not a constant keeps its length.
LEMMA ArgCompactCells ==
  ASSUME NEW c \in ArgBuild
  PROVE  /\ \A i \in 0..(Len(c.values) - 1) : ArgGet(ArgCompact(c), i) = ArgGet(c, i)
         /\ ArgCompact(c).tag # "ExactConstant" =>
              ArgLen(ArgCompact(c)) = Len(c.values)
<1> DEFINE vs == c.values
           variant == ArgVariant(vs)
           d == ArgCompact(c)
<1>1. c = [tag |-> "PerInstance", values |-> vs] /\ vs \in Seq(JsonValue)
  BY DEF ArgBuild
<1>2. CASE vs = <<>>
  BY <1>1, <1>2 DEF ArgCompact, ArgLen
<1>3. CASE vs # <<>>
  <2>1. /\ variant \in {"ExactConstant", "Bool", "I32", "I64", "F64", "StrDict",
                       "Str", "Exact"}
        /\ variant = "ExactConstant" => \A j \in 1..Len(vs) : JsonExactEq(vs[j], vs[1])
        /\ variant \in DOMAIN TypedKind =>
             \A j \in 1..Len(vs) : vs[j].kind = TypedKind[variant]
        /\ variant = "I32" => \A j \in 1..Len(vs) : FitsI32(vs[j].v)
    BY <1>1, <1>3, VariantMeaning
  <2>2. \A i \in 0..(Len(vs) - 1) : i + 1 \in 1..Len(vs) /\ ArgGet(c, i) = vs[i + 1]
    BY <1>1 DEF ArgGet, At
  <2>3. \A j \in 1..Len(vs) : /\ vs[j] \in JsonValue /\ vs[j].v \in Int
                             /\ vs[j] = [kind |-> vs[j].kind, v |-> vs[j].v]
    BY <1>1 DEF JsonValue
  <2>4. CASE variant = "ExactConstant"
    <3>1. d = [tag |-> variant, value |-> ExactFromJson(vs[1])]
      BY <1>1, <1>3, <2>4 DEF ArgCompact
    <3>2. 1 \in 1..Len(vs)
      BY <1>1, <1>3
    <3>3. \A j \in 1..Len(vs) : vs[j] = vs[1]
      BY <2>1, <2>3, <2>4, <3>2 DEF JsonExactEq
    <3>4. ExactIntoJson(ExactFromJson(vs[1])) = vs[1]
      BY <2>3, <3>2, ExactRoundTrip
    <3>5. \A i : ArgGet(d, i) = vs[1]
      BY <2>4, <3>1, <3>4 DEF ArgGet
    <3> QED
      BY <2>2, <2>4, <3>1, <3>3, <3>5
  <2>5. CASE variant = "StrDict"
    <3> DEFINE dict == DictOf(vs)
               ids  == [j \in 1..Len(vs) |-> DictId(dict, vs[j].v)]
    <3>1. d = [tag |-> variant, dict |-> dict, ids |-> ids]
      BY <1>1, <1>3, <2>5 DEF ArgCompact
    <3>2. \A j \in 1..Len(vs) : /\ ids[j] \in Int
                               /\ dict[ids[j] + 1] = vs[j].v
      BY <1>1, DictComplete
    <3>3. ids \in Seq(Int) /\ Len(ids) = Len(vs)
      BY <1>1, <3>2
    <3> HIDE DEF dict, ids, vs
    <3>4. ASSUME NEW i \in 0..(Len(vs) - 1)
          PROVE  ArgGet(d, i) = vs[i + 1]
      <4>1. i + 1 \in 1..Len(vs) /\ At(ids, i) = ids[i + 1] /\ ids[i + 1] \in Int
        BY <1>1, <3>2, <3>3 DEF At
      <4>2. ids[i + 1] # None
        BY <4>1, NoneAssumption
      <4>3. ArgGet(d, i) = [kind |-> TypedKind["StrDict"], v |-> dict[ids[i + 1] + 1]]
        BY <2>5, <3>1, <4>1, <4>2 DEF ArgGet
      <4>4. vs[i + 1] = [kind |-> TypedKind["StrDict"], v |-> vs[i + 1].v]
        BY <2>1, <2>3, <2>5, <4>1 DEF TypedKind
      <4> QED
        BY <3>2, <4>1, <4>3, <4>4
    <3>5. ArgLen(d) = Len(vs)
      BY <2>5, <3>1, <3>3 DEF ArgLen
    <3> QED
      BY <2>2, <3>4, <3>5 DEF vs
  <2>6. CASE variant = "Exact"
    <3> DEFINE xs == [j \in 1..Len(vs) |-> ExactFromJson(vs[j])]
    <3>1. d = [tag |-> variant, values |-> xs]
      BY <1>1, <1>3, <2>6 DEF ArgCompact
    <3>2. Len(xs) = Len(vs) /\ Len(vs) \in Nat
      BY <1>1
    <3>3. \A j \in 1..Len(vs) : /\ xs[j] = ExactFromJson(vs[j])
                               /\ ExactIntoJson(xs[j]) = vs[j]
                               /\ xs[j] \in ExactArgValue
      BY <2>3, ExactRoundTrip
    <3> HIDE DEF xs, vs
    <3>4. ASSUME NEW i \in 0..(Len(vs) - 1)
          PROVE  ArgGet(d, i) = vs[i + 1]
      <4>1. i + 1 \in 1..Len(vs) /\ At(xs, i) = xs[i + 1]
        BY <3>2 DEF At
      <4>2. ArgGet(d, i) = IF xs[i + 1] = None THEN None ELSE ExactIntoJson(xs[i + 1])
        BY <2>6, <3>1, <4>1 DEF ArgGet
      <4>3. xs[i + 1] # None
        BY <3>3, <4>1, NoneAssumption
      <4> QED
        BY <3>3, <4>1, <4>2, <4>3
    <3>5. ArgLen(d) = Len(vs)
      BY <2>6, <3>1, <3>2 DEF ArgLen
    <3> QED
      BY <2>2, <3>4, <3>5 DEF vs
  <2>7. CASE variant \in {"Bool", "I32", "I64", "F64", "Str"}
    <3> DEFINE xs == [j \in 1..Len(vs) |-> vs[j].v]
    <3>1. d = [tag |-> variant, values |-> xs]
      <4>1. CASE variant = "I32"
        <5>1. \A j \in 1..Len(vs) : AsI32(vs[j].v) = vs[j].v
          BY <2>1, <2>3, <4>1, AsI32Exact
        <5>2. d = [tag |-> variant, values |-> [j \in 1..Len(vs) |-> AsI32(vs[j].v)]]
          BY <1>1, <1>3, <4>1 DEF ArgCompact
        <5> QED
          BY <5>1, <5>2
      <4>2. CASE variant # "I32"
        BY <1>1, <1>3, <2>7, <4>2 DEF ArgCompact
      <4> QED
        BY <4>1, <4>2
    <3>2. xs \in Seq(Int) /\ Len(xs) = Len(vs) /\ Len(vs) \in Nat
      <4>1. Len(vs) \in Nat
        BY <1>1
      <4>2. \A j \in 1..Len(vs) : vs[j].v \in Int
        BY <2>3
      <4> HIDE DEF vs
      <4> QED
        BY <4>1, <4>2
    <3>3. \A j \in 1..Len(vs) : xs[j] = vs[j].v
      OBVIOUS
    <3> HIDE DEF xs, vs
    <3>4. ASSUME NEW i \in 0..(Len(vs) - 1)
          PROVE  ArgGet(d, i) = vs[i + 1]
      <4>1. i + 1 \in 1..Len(vs) /\ At(xs, i) = xs[i + 1] /\ xs[i + 1] \in Int
        BY <3>2 DEF At
      <4>2. xs[i + 1] # None
        BY <4>1, NoneAssumption
      <4>3. ArgGet(d, i) = [kind |-> TypedKind[variant], v |-> xs[i + 1]]
        BY <2>7, <3>1, <4>1, <4>2 DEF ArgGet
      <4>4. vs[i + 1] = [kind |-> TypedKind[variant], v |-> vs[i + 1].v]
        BY <2>1, <2>3, <2>7, <4>1 DEF TypedKind
      <4> QED
        BY <3>3, <4>1, <4>3, <4>4
    <3>5. ArgLen(d) = Len(vs)
      BY <2>7, <3>1, <3>2 DEF ArgLen
    <3> QED
      BY <2>2, <3>4, <3>5 DEF vs
  <2> QED
    BY <2>1, <2>4, <2>5, <2>6, <2>7
<1> QED
  BY <1>2, <1>3

-----------------------------------------------------------------------------
\* How many decimal digits a parsed value has is a number (MaxDigits bounds it).
LEMMA DigitsNat ==
  ASSUME NEW v \in Nat
  PROVE  Digits(v) \in Nat
<1> DEFINE ds == {d \in 0..MaxDigits : d = 0 \/ v >= 10^d}
<1>1. IsFiniteSet(0..MaxDigits)
  BY WidthAssumption, FS_Interval
<1>2. IsFiniteSet(ds)
  BY <1>1, FS_Subset
<1>3. Cardinality(ds) \in Nat
  BY <1>2, FS_CardinalityType
<1> QED
  BY <1>3 DEF Digits

\* Formatting a value gives back the run it was parsed from: unpadded with
\* width 0, padded with the width of the run.
LEMMA FormatExact ==
  ASSUME NEW r \in DigitRun, NEW width \in Nat, r.ascii,
         (width = 0 /\ r.zeros = 0) \/ width = RunWidth(r)
  PROVE  FormatIntWithWidth(r.value, width) = r
<1>1. Digits(r.value) \in Nat /\ r.zeros \in Nat
  BY DigitsNat DEF DigitRun
<1>2. r = [ascii |-> TRUE, zeros |-> r.zeros, value |-> r.value]
  BY DEF DigitRun
<1>3. (IF width > Digits(r.value) THEN width - Digits(r.value) ELSE 0) = r.zeros
  BY <1>1 DEF RunWidth
<1> QED
  BY <1>2, <1>3 DEF FormatIntWithWidth

\* Every digit run survives its column, padding included, as long as the
\* width of a padded column fits a u8.
LEMMA DigitColumnCells ==
  ASSUME NEW runs \in Seq(NarrowRun), runs # <<>>,
         NEW i \in 0..(Len(runs) - 1)
  PROVE  DigitGet(CompactDigitColumn(runs), i) = runs[i + 1]
<1> DEFINE c == CompactDigitColumn(runs)
           values == [j \in 1..Len(runs) |-> runs[j].value]
           Padded  == \E j \in 1..Len(runs) : runs[j].zeros > 0
           Uniform == \A j \in 1..Len(runs) : RunWidth(runs[j]) = RunWidth(runs[1])
<1>1. /\ i + 1 \in 1..Len(runs) /\ 1 \in 1..Len(runs) /\ Len(runs) \in Nat
      /\ At(runs, i) = runs[i + 1]
  BY DEF At
<1>2. \A j \in 1..Len(runs) : /\ runs[j] \in DigitRun /\ RunWidth(runs[j]) <= U8Max
                             /\ runs[j].zeros \in Nat /\ runs[j].value \in Nat
                             /\ runs[j].ascii \in BOOLEAN
                             /\ RunWidth(runs[j]) \in Nat
  <2> TAKE j \in 1..Len(runs)
  <2>1. runs[j] \in NarrowRun
    OBVIOUS
  <2>2. /\ runs[j] \in DigitRun /\ RunWidth(runs[j]) <= U8Max
        /\ runs[j].zeros \in Nat /\ runs[j].value \in Nat /\ runs[j].ascii \in BOOLEAN
    BY <2>1 DEF NarrowRun, DigitRun
  <2>3. Digits(runs[j].value) \in Nat
    BY <2>2, DigitsNat
  <2> QED
    BY <2>2, <2>3 DEF RunWidth
<1>3. CASE c = [tag |-> "Constant", value |-> runs[1]] /\ AllSame(runs)
  BY <1>1, <1>3 DEF DigitGet, AllSame
<1>4. CASE c = [tag |-> "Strings", values |-> runs]
  BY <1>1, <1>4 DEF DigitGet
<1>5. CASE /\ \/ c = [tag |-> "I32", width |-> DigitWidth(runs), values |-> values]
              \/ c = [tag |-> "I64", width |-> DigitWidth(runs), values |-> values]
           /\ \A j \in 1..Len(runs) : runs[j].ascii
           /\ Padded => Uniform
  <2>1. /\ values[i + 1] = runs[i + 1].value /\ Len(values) = Len(runs)
        /\ i + 1 \in 1..Len(values)
    BY <1>1
  <2>2. DigitGet(c, i) = FormatIntWithWidth(runs[i + 1].value, DigitWidth(runs))
    <3> HIDE DEF values
    <3> QED
      BY <1>5, <2>1 DEF DigitGet
  <2>3. /\ DigitWidth(runs) \in Nat
        /\ \/ DigitWidth(runs) = 0 /\ runs[i + 1].zeros = 0
           \/ DigitWidth(runs) = RunWidth(runs[i + 1])
    <3>1. CASE ~Padded
      <4>1. \A j \in 1..Len(runs) : runs[j].zeros = 0
        BY <1>2, <3>1
      <4> QED
        BY <1>1, <4>1 DEF DigitWidth
    <3>2. CASE Padded
      <4>1. DigitWidth(runs) = RunWidth(runs[1])
        BY <1>1, <1>2, <3>2 DEF DigitWidth
      <4>2. RunWidth(runs[i + 1]) = RunWidth(runs[1]) /\ RunWidth(runs[1]) \in Nat
        BY <1>1, <1>2, <1>5, <3>2
      <4> QED
        BY <4>1, <4>2
    <3> QED
      BY <3>1, <3>2
  <2>4. FormatIntWithWidth(runs[i + 1].value, DigitWidth(runs)) = runs[i + 1]
    BY <1>1, <1>2, <1>5, <2>3, FormatExact
  <2> QED
    BY <2>2, <2>4
<1> QED
  BY <1>3, <1>4, <1>5 DEF CompactDigitColumn

-----------------------------------------------------------------------------
\* NameNums after n names of a pattern with the placeholders P were pushed.
NumsBuild(c, P, n) ==
  IF P = {} \/ n = 0 THEN c = NameNumsEmpty
  ELSE c \in [tag : {"Rows"}, rows : Seq([P -> NarrowRun])] /\ Len(c.rows) = n

\* A name without digits has one possible row, the empty one.
LEMMA NoRowUnique ==
  ASSUME NEW row \in [{} -> NarrowRun]
  PROVE  row = NoRow
BY DEF NoRow

\* d holds the n rows of c, and row.
NumsPushed(d, c, P, n, row) ==
  /\ NumsBuild(d, P, n + 1)
  /\ DecodeNameNums(d, n) = row
  /\ \A i \in 0..(n - 1) : DecodeNameNums(d, i) = DecodeNameNums(c, i)

NarrowRow(P) == [P -> NarrowRun]

\* Pushing the digits of one more name keeps the digits of the others.
LEMMA PushNameNumsRows ==
  ASSUME NEW P, NEW n \in Nat, NEW c, NumsBuild(c, P, n), NEW row \in NarrowRow(P)
  PROVE  NumsPushed(PushNameNums(c, row), c, P, n, row)
<1> USE DEF NumsPushed, NarrowRow
<1> DEFINE d == PushNameNums(c, row)
<1>1. CASE P = {}
  <2>1. c = NameNumsEmpty /\ row = NoRow /\ DOMAIN row = {}
    BY <1>1, NoRowUnique DEF NumsBuild
  <2>2. d = c
    BY <2>1 DEF PushNameNums, NameNumsEmpty
  <2> QED
    BY <1>1, <2>1, <2>2 DEF NumsBuild, DecodeNameNums, NameNumsEmpty
<1>2. CASE P # {} /\ n = 0
  <2>1. c = NameNumsEmpty /\ DOMAIN row # {}
    BY <1>2 DEF NumsBuild
  <2>2. d = [tag |-> "Rows", rows |-> <<row>>]
    BY <2>1 DEF PushNameNums, NameNumsEmpty
  <2>3. <<row>> \in Seq([P -> NarrowRun]) /\ Len(<<row>>) = 1 /\ <<row>>[1] = row
    OBVIOUS
  <2>4. NumsBuild(d, P, n + 1)
    BY <1>2, <2>2, <2>3 DEF NumsBuild
  <2>5. DecodeNameNums(d, n) = row
    BY <1>2, <2>2, <2>3 DEF DecodeNameNums
  <2> QED
    BY <1>2, <2>4, <2>5
<1>3. CASE P # {} /\ n # 0
  <2> DEFINE rows == c.rows
  <2>1. /\ c = [tag |-> "Rows", rows |-> rows]
        /\ rows \in Seq([P -> NarrowRun]) /\ Len(rows) = n
    BY <1>3 DEF NumsBuild
  <2> HIDE DEF rows
  <2>2. d = [tag |-> "Rows", rows |-> Append(rows, row)]
    BY <2>1 DEF PushNameNums
  <2>3. /\ Append(rows, row) \in Seq([P -> NarrowRun])
        /\ Len(Append(rows, row)) = n + 1
    BY <2>1
  <2>4. NumsBuild(d, P, n + 1)
    BY <1>3, <2>2, <2>3 DEF NumsBuild
  <2>5. ASSUME NEW i \in 0..n
        PROVE  DecodeNameNums(d, i) = Append(rows, row)[i + 1]
    BY <2>1, <2>2, <2>3 DEF DecodeNameNums
  <2>6. ASSUME NEW i \in 0..(n - 1)
        PROVE  DecodeNameNums(d, i) = DecodeNameNums(c, i)
    <3>1. i \in 0..n /\ i + 1 \in 1..n /\ Append(rows, row)[i + 1] = rows[i + 1]
      BY <2>1
    <3>2. DecodeNameNums(c, i) = rows[i + 1]
      BY <2>1, <3>1 DEF DecodeNameNums
    <3> QED
      BY <2>5, <3>1, <3>2
  <2>7. DecodeNameNums(d, n) = row
    BY <2>1, <2>5
  <2> QED
    BY <2>4, <2>6, <2>7
<1> QED
  BY <1>1, <1>2, <1>3

\* Transposing the rows into digit columns keeps the digits of every name.
LEMMA CompressNameNumsRows ==
  ASSUME NEW P, NEW n \in Nat, NEW c, NumsBuild(c, P, n), NEW i \in 0..(n - 1)
  PROVE  DecodeNameNums(CompressNameNums(c), i) = DecodeNameNums(c, i)
<1>1. CASE P = {} \/ n = 0
  BY <1>1 DEF NumsBuild, CompressNameNums, NameNumsEmpty
<1>2. CASE P # {} /\ n # 0
  <2> DEFINE rows == c.rows
             Column(p) == [j \in 1..Len(rows) |-> rows[j][p]]
             cols == [p \in DOMAIN rows[1] |-> CompactDigitColumn(Column(p))]
             d == CompressNameNums(c)
  <2>1. /\ c = [tag |-> "Rows", rows |-> rows]
        /\ rows \in Seq([P -> NarrowRun]) /\ Len(rows) = n
    BY <1>2 DEF NumsBuild
  <2>2. d = [tag |-> "Columnar", cols |-> cols]
    BY <2>1 DEF CompressNameNums
  <2> HIDE DEF rows
  <2>3. i + 1 \in 1..n /\ 1 \in 1..n
    BY <1>2
  <2>4. rows[1] \in [P -> NarrowRun] /\ rows[i + 1] \in [P -> NarrowRun]
    BY <2>1, <2>3
  <2>5. ASSUME NEW p \in P
        PROVE  DigitGet(cols[p], i) = rows[i + 1][p]
    <3>1. \A j \in 1..n : rows[j][p] \in NarrowRun
      BY <2>1
    <3>2. /\ Column(p) \in Seq(NarrowRun) /\ Len(Column(p)) = n /\ Column(p) # <<>>
          /\ Column(p)[i + 1] = rows[i + 1][p]
      BY <1>2, <2>1, <2>3, <3>1
    <3>3. cols[p] = CompactDigitColumn(Column(p))
      BY <2>4
    <3> HIDE DEF Column
    <3>4. DigitGet(CompactDigitColumn(Column(p)), i) = Column(p)[i + 1]
      BY <3>2, DigitColumnCells
    <3> QED
      BY <3>2, <3>3, <3>4
  <2>6. DOMAIN cols = P
    BY <2>4
  <2> HIDE DEF cols
  <2>7. DecodeNameNums(d, i) = [p \in P |-> DigitGet(cols[p], i)]
    BY <2>2, <2>6 DEF DecodeNameNums
  <2>8. [p \in P |-> DigitGet(cols[p], i)] = rows[i + 1]
    BY <2>4, <2>5
  <2>9. DecodeNameNums(c, i) = rows[i + 1]
    BY <2>1, <2>3 DEF DecodeNameNums
  <2> QED
    BY <2>7, <2>8, <2>9
<1> QED
  BY <1>1, <1>2

=============================================================================
