------------------------------ MODULE SlpProofs ------------------------------
(***************************************************************************)
(* Encoding a column with the linear predictor and decoding it is the       *)
(* identity, for every width of the words and every set of columns.  The    *)
(* facts about wrapping come first: a wrapped sum is the only value of the   *)
(* range congruent to it, so a step that wrapped still leads to the value   *)
(* it was computed from.                                                    *)
(***************************************************************************)
EXTENDS Slp, WellFoundedInduction, TLAPS

Width == 2 * (I64Max + 1)

\* Quotient and remainder are unique.
LEMMA RemainderUnique ==
  ASSUME NEW m \in Nat \ {0}, NEW p \in Int, NEW q \in Int,
         NEW r \in 0..(m - 1), NEW s \in 0..(m - 1), m * p + r = m * q + s
  PROVE  r = s
<1>1. CASE p = q
  BY <1>1, SMT
<1>2. CASE p > q
  <2>1. m * (p - q) >= m
    BY <1>2, SMT
  <2> QED
    BY <2>1, SMT
<1>3. CASE p < q
  <2>1. m * (q - p) >= m
    BY <1>3, SMT
  <2> QED
    BY <2>1, SMT
<1> QED
  BY <1>1, <1>2, <1>3, SMT

\* A wrapped number lies in the range of an i64 and differs from the number by
\* a multiple of the width (wrapping_add, wrapping_sub, wrapping_mul).
LEMMA WrapIsCongruent ==
  ASSUME NEW x \in Int
  PROVE  WrapI64(x) \in Int64 /\ \E k \in Int : WrapI64(x) = x + Width * k
<1> DEFINE y == x + I64Max + 1
<1>1. Width \in Nat \ {0} /\ y \in Int /\ I64Max \in Nat
  BY SlpAssumption, SMT DEF Width
<1>2. y % Width \in 0..(Width - 1)
  BY <1>1, SMT
<1>3. y \div Width \in Int /\ y % Width = y - Width * (y \div Width)
  BY <1>1, SMT
<1>4. WrapI64(x) = (y % Width) - (I64Max + 1)
  BY DEF WrapI64, Width
<1>5. WrapI64(x) \in Int64
  BY <1>1, <1>2, <1>4, SMT DEF Int64, Width
<1>6. WrapI64(x) = x + Width * (-(y \div Width))
  <2> HIDE DEF y
  <2>1. Width * (-(y \div Width)) = -(Width * (y \div Width))
    BY <1>1, <1>3, SMT
  <2>2. WrapI64(x) = y - Width * (y \div Width) - (I64Max + 1)
    BY <1>1, <1>3, <1>4, SMT
  <2>3. y = x + I64Max + 1
    BY DEF y
  <2>4. Width * (y \div Width) \in Int
    BY <1>1, <1>3, SMT
  <2> QED
    BY <1>1, <2>1, <2>2, <2>3, <2>4, SMT
<1>7. -(y \div Width) \in Int
  BY <1>3, SMT
<1> QED
  BY <1>5, <1>6, <1>7

\* No other value of the range is congruent to it.
LEMMA WrapIsUnique ==
  ASSUME NEW v \in Int64, NEW k \in Int
  PROVE  WrapI64(v + Width * k) = v
<1> DEFINE x == v + Width * k
<1>1. Width \in Nat \ {0} /\ I64Max \in Nat /\ v \in Int /\ Width * k \in Int
  BY SlpAssumption, SMT DEF Width, Int64
<1>2. x \in Int
  BY <1>1, SMT
<1>3. PICK j \in Int : WrapI64(x) = x + Width * j
  BY <1>2, WrapIsCongruent
<1>4. WrapI64(x) \in Int64
  BY <1>2, WrapIsCongruent
<1> DEFINE r == WrapI64(x) + I64Max + 1
           s == v + I64Max + 1
<1>5. r \in 0..(Width - 1) /\ s \in 0..(Width - 1)
  BY <1>1, <1>4, SMT DEF Int64, Width
<1>6. Width * 0 + r = Width * (k + j) + s
  <2>1. Width * (k + j) = Width * k + Width * j
    BY <1>1, SMT
  <2>2. Width * j \in Int
    BY <1>1, SMT
  <2> HIDE DEF Width
  <2> QED
    BY <1>1, <1>3, <2>1, <2>2, SMT DEF Width
<1>7. r = s
  <2> HIDE DEF r, s
  <2>1. k + j \in Int
    BY SMT
  <2> QED
    BY <1>1, <1>5, <1>6, <2>1, RemainderUnique
<1> QED
  BY <1>1, <1>4, <1>7, SMT DEF Int64

\* Wrapping leaves an i64 alone.
LEMMA WrapIdentity ==
  ASSUME NEW v \in Int64
  PROVE  WrapI64(v) = v
<1>1. WrapI64(v + Width * 0) = v
  BY WrapIsUnique
<1>2. v + Width * 0 = v
  BY SlpAssumption, SMT DEF Int64, Width
<1> QED
  BY <1>1, <1>2

\* A wrapped difference leads back, as in step = v1.wrapping_sub(v0).
LEMMA WrapDifference ==
  ASSUME NEW a \in Int64, NEW b \in Int64
  PROVE  WrapI64(a + WrapI64(b - a)) = b
<1>1. a \in Int /\ b \in Int /\ Width \in Int
  BY SlpAssumption, SMT DEF Int64, Width
<1>2. PICK k \in Int : WrapI64(b - a) = (b - a) + Width * k
  <2>1. b - a \in Int
    BY <1>1, SMT
  <2> QED
    BY <2>1, WrapIsCongruent
<1>3. a + WrapI64(b - a) = b + Width * k
  <2>1. Width * k \in Int
    BY <1>1, SMT
  <2> QED
    BY <1>1, <1>2, <2>1, SMT
<1> QED
  BY <1>3, WrapIsUnique

\* What a segment made of two values predicts for them.
LEMMA PredictFirstTwo ==
  ASSUME NEW s, s.start \in Int64
  PROVE  /\ s.step \in Int64 => Predict(s, 0) = s.start
         /\ \A b \in Int64 : s.step = WrapI64(b - s.start) => Predict(s, 1) = b
<1>1. 0 \in Int64
  BY SlpAssumption, SMT DEF Int64
<1>2. ASSUME s.step \in Int64
      PROVE  Predict(s, 0) = s.start
  <2>1. s.step * 0 = 0 /\ s.start + 0 = s.start
    BY <1>2, SlpAssumption, SMT DEF Int64
  <2> QED
    BY <1>1, <2>1, WrapIdentity DEF Predict
<1>3. ASSUME NEW b \in Int64, s.step = WrapI64(b - s.start)
      PROVE  Predict(s, 1) = b
  <2>1. b - s.start \in Int
    BY SlpAssumption, SMT DEF Int64
  <2>2. s.step \in Int64
    BY <1>3, <2>1, WrapIsCongruent
  <2>3. s.step * 1 = s.step
    BY <2>2, SlpAssumption, SMT DEF Int64
  <2>4. WrapI64(s.step * 1) = s.step
    BY <2>2, <2>3, WrapIdentity
  <2> QED
    BY <1>3, <2>4, WrapDifference DEF Predict
<1> QED
  BY <1>2, <1>3

\* A prediction is an i64.
LEMMA PredictInt64 ==
  ASSUME NEW s, s.start \in Int64, s.step \in Int64, NEW k \in Nat
  PROVE  Predict(s, k) \in Int64
<1>1. s.start \in Int /\ s.step \in Int
  BY SlpAssumption, SMT DEF Int64
<1>2. s.step * k \in Int
  BY <1>1, SMT
<1>3. WrapI64(s.step * k) \in Int
  <2>1. WrapI64(s.step * k) \in Int64
    BY <1>2, WrapIsCongruent
  <2> QED
    BY <2>1, SlpAssumption, SMT DEF Int64
<1>4. s.start + WrapI64(s.step * k) \in Int
  BY <1>1, <1>3, SMT
<1> QED
  BY <1>4, WrapIsCongruent DEF Predict
-----------------------------------------------------------------------------
\* A segment predicts the values from an index on.
Predicts(vals, s, from) ==
  \A m \in 0..(s.length - 1) :
    from + m < Len(vals) /\ vals[from + m + 1] = Predict(s, m)

\* The segments stand for the first upto values, the k-th for those from
\* offset[k] on.
Covers(vals, segs, offset, upto) ==
  /\ offset \in [1..(Len(segs) + 1) -> Nat]
  /\ offset[1] = 0 /\ offset[Len(segs) + 1] = upto
  /\ \A k \in 1..Len(segs) :
       offset[k + 1] = offset[k] + segs[k].length /\ Predicts(vals, segs[k], offset[k])

OpenInv ==
  /\ open.length >= 2 /\ open.j = i + open.length /\ open.j <= Len(values)
  /\ Predicts(values, open, i)

EncodeInv ==
  /\ at = 1 /\ n = 0 /\ out = <<>> /\ i <= Len(values)
  /\ \E offset : Covers(values, segments, offset, i)
  /\ open # NoSegment => OpenInv

DecodeInv ==
  /\ at <= Len(segments) + 1
  /\ at <= Len(segments) => n <= segments[at].length
  /\ at = Len(segments) + 1 => n = 0
  /\ \E offset : /\ Covers(values, segments, offset, Len(values))
                /\ Len(out) = offset[at] + n
  /\ \A q \in 1..Len(out) : q <= Len(values) /\ out[q] = values[q]
  /\ phase = "done" => at = Len(segments) + 1

SlpInv ==
  /\ TypeOK
  /\ phase = "encode" => EncodeInv
  /\ phase # "encode" => DecodeInv

\* Appending a segment that predicts the values after the covered ones.
LEMMA CoversAppend ==
  ASSUME NEW vals, NEW segs \in Seq(Segment), NEW s \in Segment, NEW upto \in Nat,
         NEW offset, Covers(vals, segs, offset, upto), Predicts(vals, s, upto)
  PROVE  \E longer : Covers(vals, Append(segs, s), longer, upto + s.length)
<1> DEFINE more == Append(segs, s)
           last == Len(segs) + 2
           longer == [k \in 1..last |-> IF k = last THEN upto + s.length ELSE offset[k]]
<1>1. s.length \in Nat
  BY SlpAssumption, SMT DEF Segment
<1>2. /\ Len(segs) \in Nat /\ Len(more) = Len(segs) + 1
      /\ more[Len(segs) + 1] = s
      /\ \A k \in 1..Len(segs) : more[k] = segs[k]
  BY SMT
<1>3. /\ offset \in [1..(Len(segs) + 1) -> Nat] /\ offset[1] = 0
      /\ offset[Len(segs) + 1] = upto
  BY DEF Covers
<1>4. longer \in [1..(Len(more) + 1) -> Nat]
  BY <1>1, <1>2, <1>3, SMT
<1>5. longer[1] = 0 /\ longer[Len(more) + 1] = upto + s.length
  BY <1>2, <1>3, SMT
<1>6. ASSUME NEW k \in 1..Len(more)
      PROVE  /\ longer[k + 1] = longer[k] + more[k].length
             /\ Predicts(vals, more[k], longer[k])
  <2>1. CASE k = Len(segs) + 1
    <3>1. longer[k] = upto /\ longer[k + 1] = upto + s.length /\ more[k] = s
      BY <1>2, <1>3, <2>1, SMT
    <3> QED
      BY <3>1
  <2>2. CASE k \in 1..Len(segs)
    <3>1. longer[k] = offset[k] /\ longer[k + 1] = offset[k + 1] /\ more[k] = segs[k]
      BY <1>2, <2>2, SMT
    <3>2. offset[k + 1] = offset[k] + segs[k].length /\ Predicts(vals, segs[k], offset[k])
      BY <2>2 DEF Covers
    <3> QED
      BY <3>1, <3>2
  <2> QED
    BY <1>2, <2>1, <2>2, SMT
<1> HIDE DEF longer
<1> QED
  BY <1>4, <1>5, <1>6 DEF Covers

\* A column encoded is a sequence of i64 shorter than 2^32.
LEMMA ColumnFacts ==
  ASSUME values \in Inputs
  PROVE  /\ values \in Seq(Int64) /\ Len(values) \in Nat /\ Len(values) < U32Mod
         /\ \A k \in 1..Len(values) : values[k] \in Int64
<1>1. values \in Seq(Int64) /\ Len(values) < U32Mod
  BY SlpAssumption
<1> QED
  BY <1>1, SMT

\* A segment's length is a number.
LEMMA SegmentLengths ==
  ASSUME NEW segs \in Seq(Segment), NEW k \in 1..Len(segs)
  PROVE  segs[k] \in Segment /\ segs[k].length \in Nat
<1>1. segs[k] \in Segment
  BY SMT
<1> QED
  BY <1>1, SlpAssumption, SMT DEF Segment

\* The offsets of segments that cover a column are numbers.
LEMMA OffsetInNat ==
  ASSUME NEW vals, NEW segs \in Seq(Segment), NEW offset, NEW upto,
         Covers(vals, segs, offset, upto), NEW k \in 1..(Len(segs) + 1)
  PROVE  offset[k] \in Nat
<1>1. offset \in [1..(Len(segs) + 1) -> Nat]
  BY DEF Covers
<1> QED
  BY <1>1

\* At first no segment is emitted.
LEMMA InitSlpInv == Init => SlpInv
<1> SUFFICES ASSUME Init PROVE SlpInv
  OBVIOUS
<1>1. values \in Inputs /\ Len(values) \in Nat
  BY ColumnFacts DEF Init
<1>2. TypeOK
  BY <1>1, SlpAssumption, SMT DEF Init, TypeOK, Segment, NoSegment, Int64
<1>3. \E offset : Covers(values, segments, offset, i)
  <2> DEFINE offset == [k \in 1..1 |-> 0]
  <2>1. Covers(values, segments, offset, i)
    BY SMT DEF Covers, Init
  <2> QED
    BY <2>1
<1>4. EncodeInv
  BY <1>1, <1>3, SMT DEF EncodeInv, Init
<1> QED
  BY <1>2, <1>4 DEF SlpInv, Init

\* Every step of the encoder keeps the invariant.
LEMMA NextSlpInv == SlpInv /\ [Next]_vars => SlpInv'
<1> SUFFICES ASSUME SlpInv, [Next]_vars PROVE SlpInv'
  OBVIOUS
<1> USE DEF SlpInv
<1>1. /\ values \in Inputs /\ values \in Seq(Int64) /\ Len(values) \in Nat
      /\ Len(values) < U32Mod /\ \A k \in 1..Len(values) : values[k] \in Int64
  BY ColumnFacts DEF TypeOK
<1>2. /\ segments \in Seq(Segment) /\ Len(segments) \in Nat /\ i \in Nat /\ n \in Nat
      /\ at \in Nat \ {0} /\ out \in Seq(Int64) /\ Len(out) \in Nat
      /\ I64Max \in Nat /\ U32Mod \in Nat \ {0}
  BY SlpAssumption, SMT DEF TypeOK
<1>3. CASE LastValue
  <2> DEFINE s == [start |-> values[i + 1], step |-> 0, length |-> 1]
  <2>1. i + 1 = Len(values) /\ segments' = Append(segments, s) /\ phase = "encode"
    BY <1>3 DEF LastValue
  <2>2. s \in Segment /\ s.start \in Int64 /\ s.step \in Int64
    BY <1>1, <1>2, <2>1, SMT DEF Segment, Int64
  <2>3. Predict(s, 0) = values[i + 1]
    BY <2>2, PredictFirstTwo
  <2>4. Predicts(values, s, i)
    BY <1>1, <1>2, <2>1, <2>3, SMT DEF Predicts
  <2>5. TypeOK'
    BY <1>2, <1>3, <2>1, <2>2, SMT DEF TypeOK, LastValue
  <2>6. \E offset : Covers(values, segments', offset, Len(values))
    <3>1. PICK offset : Covers(values, segments, offset, i)
      BY <2>1 DEF EncodeInv
    <3>2. \E longer : Covers(values, segments', longer, i + s.length)
      BY <1>2, <2>1, <2>2, <2>4, <3>1, CoversAppend
    <3>3. i + s.length = Len(values)
      BY <1>2, <2>1, SMT
    <3> QED
      BY <3>2, <3>3
  <2>7. PICK offset : Covers(values, segments', offset, Len(values))
    BY <2>6
  <2>8. at = 1 /\ n = 0 /\ out = <<>> /\ Len(segments') = Len(segments) + 1
    BY <1>2, <2>1, SMT DEF EncodeInv
  <2>9. segments'[1].length \in Nat
    <3>1. segments' \in Seq(Segment)
      BY <2>5 DEF TypeOK
    <3>2. 1 \in 1..Len(segments')
      BY <1>2, <2>8, SMT
    <3> QED
      BY <3>1, <3>2, SegmentLengths
  <2>10. DecodeInv'
    <3>1. offset[1] = 0
      BY <2>7 DEF Covers
    <3>2. values' = values /\ at' = 1 /\ n' = 0 /\ out' = <<>> /\ phase' = "decode"
      BY <1>3, <2>8 DEF LastValue
    <3>3. Covers(values', segments', offset, Len(values)') /\ Len(out)' = offset[at'] + n'
      BY <2>7, <3>1, <3>2, SMT
    <3>4. at' <= Len(segments') + 1 /\ at' <= Len(segments') => n' <= segments'[at'].length
      BY <1>2, <2>8, <2>9, <3>2, SMT
    <3> QED
      BY <3>2, <3>3, <3>4, <1>2, <2>8, SMT DEF DecodeInv
  <2> QED
    BY <2>5, <2>10, <1>3 DEF LastValue
<1>4. CASE Open
  <2>1. /\ phase = "encode" /\ i + 1 < Len(values) /\ EncodeInv
        /\ open' = [start |-> values[i + 1], step |-> WrapI64(values[i + 2] - values[i + 1]),
                    length |-> 2, j |-> i + 2]
        /\ UNCHANGED <<values, segments, i, out, at, n, phase>>
    BY <1>4 DEF Open
  <2>2. values[i + 1] \in Int64 /\ values[i + 2] \in Int64
    BY <1>1, <1>2, <2>1, SMT
  <2>3. open'.step \in Int64 /\ open'.start \in Int64
    <3>1. values[i + 2] - values[i + 1] \in Int
      BY <2>2, <1>2, SMT DEF Int64
    <3> QED
      BY <2>1, <2>2, <3>1, WrapIsCongruent
  <2>4. Predict(open', 0) = values[i + 1] /\ Predict(open', 1) = values[i + 2]
    BY <2>1, <2>2, <2>3, PredictFirstTwo
  <2>5. Predicts(values, open', i)
    BY <1>1, <1>2, <2>1, <2>4, SMT DEF Predicts
  <2>6. TypeOK'
    <3>1. 2 < U32Mod
      BY <1>1, <1>2, <2>1, SMT
    <3>2. open' \in [start : Int64, step : Int64, length : 0..(U32Mod - 1), j : Nat]
      BY <1>2, <2>1, <2>3, <3>1, SMT
    <3> QED
      BY <2>1, <3>2 DEF TypeOK
  <2>7. OpenInv'
    BY <1>1, <1>2, <2>1, <2>5, SMT DEF OpenInv
  <2>8. EncodeInv'
    BY <2>1, <2>7 DEF EncodeInv
  <2> QED
    BY <2>1, <2>6, <2>8
<1>5. CASE Extend
  <2>1. /\ phase = "encode" /\ open.j < Len(values) /\ EncodeInv /\ OpenInv
        /\ values[open.j + 1] = Predict(open, open.length)
        /\ UNCHANGED <<values, segments, i, out, at, n, phase>>
    BY <1>5 DEF Extend, Fits, EncodeInv
  <2>2. /\ open.start \in Int64 /\ open.step \in Int64 /\ open.length \in Nat
        /\ open.j \in Nat /\ open.j = i + open.length
    BY <1>2, <2>1, SMT DEF TypeOK, OpenInv
  <2>3. open.length + 1 \in 0..(U32Mod - 1)
    BY <1>1, <1>2, <2>1, <2>2, SMT
  <2>4. (open.length + 1) % U32Mod = open.length + 1
    BY <1>2, <2>3, SMTT(30)
  <2>5. open' = [start |-> open.start, step |-> open.step,
                 length |-> open.length + 1, j |-> open.j + 1]
    <3>1. open \in [start : Int64, step : Int64, length : 0..(U32Mod - 1), j : Nat]
      BY DEF TypeOK
    <3>2. open' = [open EXCEPT !.length = (@ + 1) % U32Mod, !.j = @ + 1]
      BY <1>5 DEF Extend
    <3>3. open' = [open EXCEPT !.length = open.length + 1, !.j = open.j + 1]
      BY <2>4, <3>2
    <3> HIDE <3>2
    <3> QED
      BY <3>1, <3>3
  <2>6. Predicts(values, open', i)
    <3> SUFFICES ASSUME NEW m \in 0..(open'.length - 1)
                 PROVE  i + m < Len(values) /\ values[i + m + 1] = Predict(open', m)
      BY DEF Predicts
    <3>1. Predict(open', m) = Predict(open, m)
      BY <2>5 DEF Predict
    <3>2. CASE m = open.length
      BY <1>1, <1>2, <2>1, <2>2, <3>1, <3>2, SMT
    <3>3. CASE m # open.length
      <4>1. m \in 0..(open.length - 1)
        BY <2>2, <2>5, <3>3, SMT
      <4> QED
        BY <2>1, <3>1, <4>1 DEF OpenInv, Predicts
    <3> QED
      BY <3>2, <3>3
  <2>7. TypeOK'
    BY <2>1, <2>2, <2>3, <2>5, SMT DEF TypeOK
  <2>8. OpenInv'
    <3>1. open'.length = open.length + 1 /\ open'.j = open.j + 1
      BY <2>5
    <3>2. open.length >= 2 /\ open.length + 1 >= 2 /\ open.j + 1 = i + (open.length + 1)
      BY <1>2, <2>1, <2>2, SMT DEF OpenInv
    <3>3. open.j + 1 <= Len(values)
      BY <1>2, <2>1, <2>2, SMT
    <3> QED
      BY <2>1, <2>6, <3>1, <3>2, <3>3 DEF OpenInv
  <2>9. EncodeInv'
    BY <2>1, <2>8 DEF EncodeInv
  <2> QED
    BY <2>1, <2>7, <2>9
<1>6. CASE Close
  <2>1. /\ phase = "encode" /\ EncodeInv /\ OpenInv
        /\ segments' = Append(segments, Closed(open)) /\ i' = i + open.length
        /\ open' = NoSegment
        /\ UNCHANGED <<values, out, at, n, phase>>
    BY <1>6 DEF Close, EncodeInv
  <2>2. Closed(open) \in Segment /\ Closed(open).length = open.length
    BY SMT DEF TypeOK, Closed, Segment
  <2>3. Predicts(values, Closed(open), i)
    BY <2>1 DEF OpenInv, Predicts, Predict, Closed
  <2>4. \E offset : Covers(values, segments', offset, i')
    <3>1. PICK offset : Covers(values, segments, offset, i)
      BY <2>1 DEF EncodeInv
    <3> QED
      BY <1>2, <2>1, <2>2, <2>3, <3>1, CoversAppend
  <2>5. open.length \in Nat /\ i + open.length <= Len(values)
    BY <1>2, <2>1, SMT DEF TypeOK, OpenInv
  <2>6. TypeOK'
    BY <1>2, <2>1, <2>2, <2>5, SMT DEF TypeOK, NoSegment, Int64
  <2>7. EncodeInv'
    BY <2>1, <2>4, <2>5 DEF EncodeInv
  <2> QED
    BY <2>1, <2>6, <2>7
<1>7. CASE EncodeEnds
  <2>1. /\ phase = "encode" /\ i >= Len(values) /\ EncodeInv /\ phase' = "decode"
        /\ UNCHANGED <<values, segments, i, open, out, at, n>>
    BY <1>7 DEF EncodeEnds
  <2>2. i = Len(values)
    BY <1>1, <1>2, <2>1, SMT DEF EncodeInv
  <2>3. PICK offset : Covers(values, segments, offset, Len(values))
    BY <2>1, <2>2 DEF EncodeInv
  <2>4. at = 1 /\ n = 0 /\ out = <<>> /\ offset[1] = 0
    BY <2>1, <2>3 DEF EncodeInv, Covers
  <2>5. at <= Len(segments) => segments[at].length \in Nat
    <3>1. SUFFICES ASSUME at <= Len(segments) PROVE segments[at].length \in Nat
      OBVIOUS
    <3>2. at \in 1..Len(segments)
      BY <1>2, <3>1, SMT
    <3> QED
      BY <1>2, <3>2, SegmentLengths
  <2>6. DecodeInv
    BY <1>1, <1>2, <2>1, <2>3, <2>4, <2>5, SMT DEF DecodeInv
  <2>7. DecodeInv'
    BY <2>1, <2>6 DEF DecodeInv
  <2> QED
    BY <2>1, <2>7 DEF TypeOK
<1>8. CASE DecodeValue
  <2>1. /\ phase = "decode" /\ at <= Len(segments) /\ n < segments[at].length
        /\ DecodeInv /\ out' = Append(out, Predict(segments[at], n)) /\ n' = n + 1
        /\ UNCHANGED <<values, segments, i, open, at, phase>>
    BY <1>8 DEF DecodeValue
  <2>2. segments[at] \in Segment
    BY <1>2, <2>1, SMT
  <2>3. /\ segments[at].start \in Int64 /\ segments[at].step \in Int64
        /\ segments[at].length \in Nat
    BY <1>2, <2>2, SMT DEF Segment
  <2>4. Predict(segments[at], n) \in Int64
    BY <1>2, <2>3, PredictInt64
  <2>5. TypeOK'
    BY <1>2, <2>1, <2>4, SMT DEF TypeOK
  <2>6. PICK offset : /\ Covers(values, segments, offset, Len(values))
                      /\ Len(out) = offset[at] + n
    BY <2>1 DEF DecodeInv
  <2>7. /\ offset[at] + n < Len(values)
        /\ values[offset[at] + n + 1] = Predict(segments[at], n)
    <3>1. Predicts(values, segments[at], offset[at])
      BY <1>2, <2>1, <2>6, SMT DEF Covers
    <3>2. n \in 0..(segments[at].length - 1)
      BY <1>2, <2>1, <2>3, SMT
    <3> QED
      BY <3>1, <3>2 DEF Predicts
  <2>8. /\ Len(out') = Len(out) + 1 /\ out'[Len(out) + 1] = Predict(segments[at], n)
        /\ \A q \in 1..Len(out) : out'[q] = out[q]
    BY <1>2, <2>1, <2>4, SMT
  <2>9. \A q \in 1..Len(out') : q <= Len(values) /\ out'[q] = values[q]
    <3> SUFFICES ASSUME NEW q \in 1..Len(out')
                 PROVE  q <= Len(values) /\ out'[q] = values[q]
      OBVIOUS
    <3>1. CASE q = Len(out) + 1
      BY <1>1, <1>2, <2>6, <2>7, <2>8, <3>1, SMT
    <3>2. CASE q \in 1..Len(out)
      BY <2>1, <2>8, <3>2 DEF DecodeInv
    <3> QED
      BY <1>2, <2>8, <3>1, <3>2, SMT
  <2>10. Len(out') = offset[at] + n'
    <3>1. at \in 1..(Len(segments) + 1)
      BY <1>2, <2>1, SMT
    <3>2. offset[at] \in Nat
      BY <1>2, <2>6, <3>1, OffsetInNat
    <3>3. Len(out') = (offset[at] + n) + 1
      BY <2>6, <2>8
    <3>4. n' = n + 1 /\ n \in Nat
      BY <1>2, <2>1
    <3> QED
      BY <3>2, <3>3, <3>4, SMT
  <2>11. n' <= segments[at].length /\ at # Len(segments) + 1
    BY <1>2, <2>1, <2>3, SMT
  <2>12. DecodeInv'
    BY <2>1, <2>6, <2>9, <2>10, <2>11 DEF DecodeInv
  <2> QED
    BY <2>1, <2>5, <2>12
<1>9. CASE NextSegment
  <2>1. /\ phase = "decode" /\ at <= Len(segments) /\ n >= segments[at].length
        /\ DecodeInv /\ at' = at + 1 /\ n' = 0
        /\ UNCHANGED <<values, segments, i, open, out, phase>>
    BY <1>9 DEF NextSegment
  <2>2. TypeOK'
    BY <1>2, <2>1, SMT DEF TypeOK
  <2>3. PICK offset : /\ Covers(values, segments, offset, Len(values))
                      /\ Len(out) = offset[at] + n
    BY <2>1 DEF DecodeInv
  <2>4. segments[at].length \in Nat /\ at \in 1..Len(segments)
    <3>1. at \in 1..Len(segments)
      BY <1>2, <2>1, SMT
    <3> QED
      BY <1>2, <3>1, SegmentLengths
  <2>5. offset[at + 1] = offset[at] + segments[at].length
    BY <2>3, <2>4 DEF Covers
  <2>6. n = segments[at].length
    BY <1>2, <2>1, <2>4, SMT DEF DecodeInv
  <2>7. Len(out) = offset[at'] + n'
    <3>1. at \in 1..(Len(segments) + 1)
      BY <1>2, <2>1, SMT
    <3>2. offset[at] \in Nat
      BY <1>2, <2>3, <3>1, OffsetInNat
    <3> QED
      BY <1>2, <2>1, <2>3, <2>4, <2>5, <2>6, <3>2, SMT
  <2>8. at' <= Len(segments) + 1
    BY <1>2, <2>1, SMT
  <2>9. at' <= Len(segments) => n' <= segments[at'].length
    <3>1. SUFFICES ASSUME at' <= Len(segments) PROVE 0 <= segments[at'].length
      BY <2>1
    <3>2. at' \in 1..Len(segments)
      BY <1>2, <2>1, <3>1, SMT
    <3>3. segments[at'].length \in Nat
      BY <1>2, <3>2, SegmentLengths
    <3> QED
      BY <3>3, SMT
  <2>10. DecodeInv'
    BY <2>1, <2>3, <2>7, <2>8, <2>9 DEF DecodeInv
  <2> QED
    BY <2>1, <2>2, <2>10
<1>10. CASE DecodeEnds
  <2>1. /\ phase = "decode" /\ at > Len(segments) /\ DecodeInv /\ phase' = "done"
        /\ UNCHANGED <<values, segments, i, open, out, at, n>>
    BY <1>10 DEF DecodeEnds
  <2>2. at = Len(segments) + 1
    BY <1>2, <2>1, SMT DEF DecodeInv
  <2>3. DecodeInv'
    BY <2>1, <2>2 DEF DecodeInv
  <2> QED
    BY <2>1, <2>3 DEF TypeOK
<1>11. CASE UNCHANGED vars
  BY <1>11 DEF vars, TypeOK, EncodeInv, DecodeInv, OpenInv
<1> QED
  BY <1>3, <1>4, <1>5, <1>6, <1>7, <1>8, <1>9, <1>10, <1>11 DEF Next

-----------------------------------------------------------------------------
(* Random access.  The walk of get subtracts the lengths of the segments it *)
(* passes: before the k-th segment index - offset[k] is left.               *)

\* Every set of natural numbers that is not empty has a least element.
LEMMA LeastNumber ==
  ASSUME NEW S \in SUBSET Nat, S # {}
  PROVE  \E m \in S : \A k \in S : m <= k
<1>1. PICK m \in S : \A k \in S : ~ (<<k, m>> \in OpToRel(<, Nat))
  BY NatLessThanWellFounded, WFMin
<1>2. \A k \in S : ~(k < m)
  BY <1>1 DEF OpToRel
<1> QED
  BY <1>2

\* Induction over the positions of a sequence, for a predicate given as a set.
LEMMA PositionInduction ==
  ASSUME NEW last \in Nat, NEW S, 1 \in S, \A k \in 1..last : k \in S => k + 1 \in S
  PROVE  1..(last + 1) \subseteq S
<1> DEFINE Rest == (1..(last + 1)) \ S
<1> SUFFICES ASSUME Rest # {} PROVE FALSE
  OBVIOUS
<1>1. PICK m \in Rest : \A k \in Rest : m <= k
  <2>1. Rest \in SUBSET Nat
    OBVIOUS
  <2> QED
    BY <2>1, LeastNumber
<1>2. m # 1 /\ m \in 1..(last + 1)
  OBVIOUS
<1>3. m - 1 \in 1..last /\ m - 1 \notin Rest
  BY <1>1, <1>2
<1>4. m - 1 \in S /\ (m - 1) + 1 = m
  BY <1>3
<1> QED
  BY <1>3, <1>4

\* The recursion of get: what is left of the index before each segment.
Walks(less, segs, index) ==
  less = [k \in 1..(Len(segs) + 1) |->
            IF k = 1 THEN index ELSE less[k - 1] - segs[k - 1].length]

\* It is index - offset[k].
LEMMA Walk ==
  ASSUME NEW vals, NEW segs \in Seq(Segment), NEW offset, NEW upto, NEW index \in Nat,
         Covers(vals, segs, offset, upto), NEW less,
         Walks(less, segs, index)
  PROVE  \A k \in 1..(Len(segs) + 1) : less[k] = index - offset[k]
<1> DEFINE last == Len(segs)
           S == {k \in 1..(last + 1) : less[k] = index - offset[k]}
<1>1. last \in Nat
  OBVIOUS
<1>2. 1 \in S
  <2>1. offset[1] = 0 /\ less[1] = index
    BY <1>1 DEF Covers, Walks
  <2> QED
    BY <1>1, <2>1
<1>3. ASSUME NEW k \in 1..last, k \in S
      PROVE  k + 1 \in S
  <2>1. k + 1 \in 1..(last + 1) /\ k + 1 # 1 /\ (k + 1) - 1 = k
    BY <1>1
  <2>2. less[k + 1] = less[k] - segs[k].length
    BY <2>1 DEF Walks
  <2>3. offset[k + 1] = offset[k] + segs[k].length
    BY DEF Covers
  <2>4. less[k] = index - offset[k]
    BY <1>3
  <2>5. offset[k] \in Nat /\ segs[k].length \in Nat
    <3>1. k \in 1..(Len(segs) + 1)
      BY <1>1
    <3> QED
      BY <3>1, OffsetInNat, SegmentLengths
  <2>6. less[k + 1] = index - offset[k + 1]
    BY <2>2, <2>3, <2>4, <2>5
  <2> QED
    BY <2>1, <2>6
<1>4. 1..(last + 1) \subseteq S
  <2> HIDE DEF S, last
  <2> QED
    BY <1>1, <1>2, <1>3, PositionInduction
<1> QED
  BY <1>4

\* There is such a walk.
LEMMA WalkExists ==
  ASSUME NEW vals, NEW segs \in Seq(Segment), NEW offset, NEW upto, NEW index \in Nat,
         Covers(vals, segs, offset, upto)
  PROVE  \E less : Walks(less, segs, index)
<1> DEFINE last == Len(segs)
           left == [k \in 1..(last + 1) |-> index - offset[k]]
<1>1. last \in Nat
  OBVIOUS
<1>2. ASSUME NEW k \in 1..(last + 1)
      PROVE  left[k] = IF k = 1 THEN index ELSE left[k - 1] - segs[k - 1].length
  <2>1. CASE k = 1
    <3>1. offset[1] = 0
      BY DEF Covers
    <3> QED
      BY <2>1, <3>1
  <2>2. CASE k # 1
    <3>1. k - 1 \in 1..last /\ (k - 1) + 1 = k /\ k - 1 \in 1..(last + 1)
      BY <1>1, <2>2
    <3> DEFINE p == k - 1
    <3>2. offset[p + 1] = offset[p] + segs[p].length
      BY <3>1 DEF Covers
    <3>3. offset[p] \in Nat /\ segs[p].length \in Nat
      <4>1. p \in 1..(Len(segs) + 1) /\ p \in 1..Len(segs)
        BY <3>1
      <4> HIDE DEF p
      <4> QED
        BY <4>1, OffsetInNat, SegmentLengths
    <3>4. left[k] = index - offset[k] /\ left[p] = index - offset[p]
      BY <3>1
    <3>5. offset[k] = offset[p] + segs[p].length
      BY <3>1, <3>2
    <3> HIDE DEF p, left
    <3>6. left[k] = left[p] - segs[p].length
      BY <3>3, <3>4, <3>5
    <3> QED
      BY <2>2, <3>6 DEF p
  <2> QED
    BY <2>1, <2>2
<1>3. left = [k \in 1..(last + 1) |->
                IF k = 1 THEN index ELSE left[k - 1] - segs[k - 1].length]
  <2>1. left = [k \in 1..(last + 1) |-> left[k]]
    OBVIOUS
  <2> HIDE DEF left
  <2> QED
    BY <1>2, <2>1
<1> QED
  BY <1>3 DEF Walks

\* The offsets grow up to the end of the covered values.
LEMMA OffsetsGrow ==
  ASSUME NEW vals, NEW segs \in Seq(Segment), NEW offset, NEW upto,
         Covers(vals, segs, offset, upto), NEW k \in 1..Len(segs)
  PROVE  offset[k + 1] <= upto
<1> DEFINE last == Len(segs)
           Bad == {d \in Nat : d < last /\ offset[(last - d) + 1] > upto}
<1>1. last \in Nat /\ offset[last + 1] = upto
  BY DEF Covers
<1>2. Bad = {}
  <2> SUFFICES ASSUME Bad # {} PROVE FALSE
    OBVIOUS
  <2>1. PICK d \in Bad : \A e \in Bad : d <= e
    <3>1. Bad \in SUBSET Nat
      OBVIOUS
    <3> HIDE DEF Bad
    <3> QED
      BY <3>1, LeastNumber
  <2>2. d \in Nat /\ d < last /\ offset[(last - d) + 1] > upto
    OBVIOUS
  <2>3. upto \in Nat
    <3>1. Len(segs) + 1 \in 1..(Len(segs) + 1)
      BY <1>1
    <3>2. offset[Len(segs) + 1] \in Nat
      BY <3>1, OffsetInNat
    <3> QED
      BY <1>1, <3>2
  <2>4. d # 0
    BY <1>1, <2>2, <2>3
  <2>5. d - 1 \in Nat /\ d - 1 < last /\ ~(d <= d - 1) /\ (last - (d - 1)) + 1 = (last - d) + 2
    BY <1>1, <2>2, <2>4
  <2>6. ~(offset[(last - d) + 2] > upto)
    BY <2>1, <2>5
  <2> DEFINE p == (last - d) + 1
  <2>7. p \in 1..Len(segs) /\ p \in 1..(Len(segs) + 1) /\ p + 1 = (last - d) + 2
        /\ p + 1 \in 1..(Len(segs) + 1)
    BY <1>1, <2>2, <2>4
  <2>8. offset[p] > upto /\ ~(offset[p + 1] > upto)
    BY <2>2, <2>6, <2>7
  <2> HIDE DEF p
  <2>9. offset[p + 1] = offset[p] + segs[p].length
    BY <2>7 DEF Covers
  <2>10. segs[p].length \in Nat /\ offset[p] \in Nat
    BY <2>7, SegmentLengths, OffsetInNat
  <2> QED
    BY <2>3, <2>8, <2>9, <2>10
<1>3. last - k \in Nat /\ last - k < last /\ (last - (last - k)) + 1 = k + 1
  BY <1>1
<1>4. last - k \notin Bad
  BY <1>2
<1>5. ~(offset[k + 1] > upto)
  BY <1>3, <1>4
<1>6. offset[k + 1] \in Nat /\ upto \in Nat
  <2>1. k + 1 \in 1..(Len(segs) + 1) /\ Len(segs) + 1 \in 1..(Len(segs) + 1)
    BY <1>1
  <2>2. offset[k + 1] \in Nat /\ offset[Len(segs) + 1] \in Nat
    BY <2>1, OffsetInNat
  <2> QED
    BY <1>1, <2>2
<1> QED
  BY <1>5, <1>6

\* Every covered index lies in a segment, and the first segment that ends after it
\* is that one.
LEMMA SegmentOf ==
  ASSUME NEW vals, NEW segs \in Seq(Segment), NEW offset, NEW upto,
         Covers(vals, segs, offset, upto), NEW index \in Nat, index < upto
  PROVE  \E k \in 1..Len(segs) :
           /\ offset[k] <= index /\ index < offset[k + 1]
           /\ \A j \in 1..Len(segs) : index < offset[j + 1] => k <= j
<1> DEFINE After == {k \in 1..Len(segs) : index < offset[k + 1]}
<1>1. Len(segs) \in Nat /\ offset[1] = 0 /\ offset[Len(segs) + 1] = upto
  BY DEF Covers
<1>2. Len(segs) # 0
  BY <1>1
<1>3. Len(segs) \in After
  BY <1>1, <1>2
<1>4. PICK k \in After : \A j \in After : k <= j
  <2>1. After \in SUBSET Nat
    OBVIOUS
  <2> HIDE DEF After
  <2> QED
    BY <1>3, <2>1, LeastNumber
<1>5. k \in 1..Len(segs) /\ index < offset[k + 1]
  OBVIOUS
<1>6. offset[k] <= index
  <2>1. CASE k = 1
    BY <1>1, <2>1
  <2>2. CASE k # 1
    <3> DEFINE p == k - 1
    <3>1. p \in 1..Len(segs) /\ p + 1 = k /\ ~(k <= p) /\ k \in 1..(Len(segs) + 1)
      BY <1>1, <1>5, <2>2
    <3> HIDE DEF p
    <3>2. ~(index < offset[p + 1])
      BY <1>4, <3>1
    <3>3. offset[k] \in Nat
      BY <3>1, OffsetInNat
    <3> QED
      BY <3>1, <3>2, <3>3
  <2> QED
    BY <2>1, <2>2
<1> QED
  BY <1>4, <1>5, <1>6

\* What get returns, with the walk replaced by the offsets.
LEMMA GetByOffsets ==
  ASSUME segments \in Seq(Segment), NEW vals, NEW offset, NEW upto, NEW index \in Nat,
         Covers(vals, segments, offset, upto)
  PROVE  LET hits == {k \in 1..Len(segments) : index < offset[k + 1]} IN
         Get(index) = IF hits = {} THEN <<>>
                      ELSE LET k == CHOOSE k \in hits : \A other \in hits : k <= other
                           IN  <<Predict(segments[k], index - offset[k])>>
<1> DEFINE less == CHOOSE f : Walks(f, segments, index)
           hits == {k \in 1..Len(segments) : index < offset[k + 1]}
<1>1. Walks(less, segments, index)
  <2>1. \E f : Walks(f, segments, index)
    BY WalkExists
  <2> QED
    BY <2>1
<1>2. \A k \in 1..(Len(segments) + 1) : less[k] = index - offset[k]
  <2> HIDE DEF less
  <2> QED
    BY <1>1, Walk
<1>3. {k \in DOMAIN segments : less[k] < segments[k].length} = hits
  <2>1. DOMAIN segments = 1..Len(segments)
    OBVIOUS
  <2>2. ASSUME NEW k \in 1..Len(segments)
        PROVE  less[k] < segments[k].length <=> index < offset[k + 1]
    <3>1. k \in 1..(Len(segments) + 1) /\ Len(segments) \in Nat
      OBVIOUS
    <3>2. offset[k] \in Nat /\ segments[k].length \in Nat
      BY <3>1, OffsetInNat, SegmentLengths
    <3>3. offset[k + 1] = offset[k] + segments[k].length
      BY DEF Covers
    <3>4. less[k] = index - offset[k]
      BY <1>2, <3>1
    <3> HIDE DEF less
    <3> QED
      BY <3>2, <3>3, <3>4
  <2> HIDE DEF less
  <2> QED
    BY <2>1, <2>2
<1>4. Get(index) =
        LET all == {k \in DOMAIN segments : less[k] < segments[k].length}
        IN  IF all = {} THEN <<>>
            ELSE LET k == CHOOSE k \in all : \A other \in all : k <= other
                 IN  <<Predict(segments[k], less[k])>>
  BY DEF Get, Walks
<1> DEFINE first == CHOOSE k \in hits : \A other \in hits : k <= other
<1>5. Get(index) = IF hits = {} THEN <<>> ELSE <<Predict(segments[first], less[first])>>
  <2> HIDE DEF less, hits
  <2> QED
    BY <1>3, <1>4
<1>6. hits # {} => less[first] = index - offset[first]
  <2> SUFFICES ASSUME hits # {} PROVE less[first] = index - offset[first]
    OBVIOUS
  <2>1. \E k \in hits : \A other \in hits : k <= other
    <3>1. hits \in SUBSET Nat
      OBVIOUS
    <3> HIDE DEF hits, less
    <3> QED
      BY <3>1, LeastNumber
  <2>2. first \in hits
    <3> HIDE DEF hits, less
    <3> QED
      BY <2>1
  <2>3. first \in 1..(Len(segments) + 1)
    <3>1. first \in 1..Len(segments)
      BY <2>2
    <3> HIDE DEF first
    <3> QED
      BY <3>1
  <2> HIDE DEF less, first
  <2> QED
    BY <1>2, <2>3
<1> HIDE DEF less
<1> QED
  BY <1>5, <1>6

\* Random access to a covered column: the segment that holds the index predicts the
\* value, and past the end there is no such segment.
LEMMA GetIsRight ==
  ASSUME segments \in Seq(Segment), NEW vals \in Seq(Int64), NEW offset,
         Covers(vals, segments, offset, Len(vals))
  PROVE  /\ \A k \in 1..Len(vals) : Get(k - 1) = <<vals[k]>>
         /\ Get(Len(vals)) = <<>>
<1>1. ASSUME NEW q \in 1..Len(vals)
      PROVE  Get(q - 1) = <<vals[q]>>
  <2> DEFINE index == q - 1
             hits == {k \in 1..Len(segments) : index < offset[k + 1]}
             first == CHOOSE k \in hits : \A other \in hits : k <= other
  <2>1. index \in Nat /\ index < Len(vals) /\ index + 1 = q
    OBVIOUS
  <2>2. PICK k \in 1..Len(segments) :
          /\ offset[k] <= index /\ index < offset[k + 1]
          /\ \A j \in 1..Len(segments) : index < offset[j + 1] => k <= j
    <3> HIDE DEF index
    <3> QED
      BY <2>1, SegmentOf
  <2>3. k \in hits /\ \A other \in hits : k <= other
    BY <2>2
  <2>4. first = k
    <3>1. hits \in SUBSET Nat
      OBVIOUS
    <3> HIDE DEF hits
    <3>2. first \in hits /\ \A other \in hits : first <= other
      BY <2>3
    <3> HIDE DEF first
    <3>3. first <= k /\ k <= first /\ first \in Nat /\ k \in Nat
      BY <2>3, <3>1, <3>2
    <3> QED
      BY <3>3
  <2>5. Get(index) = IF hits = {} THEN <<>>
                     ELSE <<Predict(segments[first], index - offset[first])>>
    <3> HIDE DEF index
    <3> QED
      BY <2>1, GetByOffsets
  <2>6. Get(index) = <<Predict(segments[k], index - offset[k])>>
    <3> HIDE DEF first, hits, index
    <3> QED
      BY <2>3, <2>4, <2>5
  <2>7. /\ offset[k] \in Nat /\ segments[k].length \in Nat
        /\ offset[k + 1] = offset[k] + segments[k].length
    <3>1. k \in 1..(Len(segments) + 1)
      OBVIOUS
    <3> QED
      BY <3>1, OffsetInNat, SegmentLengths DEF Covers
  <2> DEFINE m == index - offset[k]
  <2>8. m \in 0..(segments[k].length - 1) /\ offset[k] + m = index
    BY <2>2, <2>7
  <2>9. vals[offset[k] + m + 1] = Predict(segments[k], m)
    <3>1. Predicts(vals, segments[k], offset[k])
      BY DEF Covers
    <3> HIDE DEF m
    <3> QED
      BY <2>8, <3>1 DEF Predicts
  <2>10. offset[k] + m + 1 = q
    BY <2>7
  <2> QED
    BY <2>6, <2>9, <2>10
<1>2. Get(Len(vals)) = <<>>
  <2> DEFINE hits == {k \in 1..Len(segments) : Len(vals) < offset[k + 1]}
  <2>1. hits = {}
    <3> SUFFICES ASSUME NEW k \in 1..Len(segments), Len(vals) < offset[k + 1] PROVE FALSE
      OBVIOUS
    <3>1. offset[k + 1] <= Len(vals)
      BY OffsetsGrow
    <3>2. offset[k + 1] \in Nat
      <4>1. k + 1 \in 1..(Len(segments) + 1)
        OBVIOUS
      <4> QED
        BY <4>1, OffsetInNat
    <3> QED
      BY <3>1, <3>2
  <2>2. Len(vals) \in Nat
    OBVIOUS
  <2> DEFINE first == CHOOSE k \in hits : \A other \in hits : k <= other
  <2>3. Get(Len(vals)) = IF hits = {} THEN <<>>
                         ELSE <<Predict(segments[first], Len(vals) - offset[first])>>
    BY <2>2, GetByOffsets
  <2> HIDE DEF hits
  <2> QED
    BY <2>1, <2>3
<1> QED
  BY <1>1, <1>2

\* The decoded column has the length of the encoded one and agrees with it
\* everywhere.
LEMMA SlpInvIsLossless == SlpInv => Lossless
<1> SUFFICES ASSUME SlpInv, phase = "done" PROVE out = values
  BY DEF Lossless
<1>1. DecodeInv /\ values \in Seq(Int64) /\ out \in Seq(Int64)
  BY ColumnFacts DEF SlpInv, TypeOK
<1>2. PICK offset : /\ Covers(values, segments, offset, Len(values))
                    /\ Len(out) = offset[at] + n
  BY <1>1 DEF DecodeInv
<1>3. at = Len(segments) + 1 /\ n = 0
  BY <1>1 DEF DecodeInv
<1>4. offset[at] = Len(values)
  BY <1>2, <1>3 DEF Covers
<1>5. Len(out) = Len(values)
  BY <1>1, <1>2, <1>3, <1>4, SMT
<1> QED
  BY <1>1, <1>5, SMT DEF DecodeInv

\* The machine of encode and decode keeps its types: every length fits a u32 and
\* every value an i64 (slp.rs, SlpColumn).
THEOREM SlpTypeCorrect == Spec => []TypeOK
<1>1. SlpInv => TypeOK
  BY DEF SlpInv
<1> QED
  BY <1>1, InitSlpInv, NextSlpInv, PTL DEF Spec

\* Decoding what encode made of a column gives the column back, for every width
\* of the words and every column shorter than 2^32 (SlpColumn::encode, decode).
THEOREM SlpIsLossless == Spec => []Lossless
  BY InitSlpInv, NextSlpInv, SlpInvIsLossless, PTL DEF Spec

\* Reading any position of an encoded column gives the value of the column there,
\* and reading just past its end gives none (SlpColumn::get).
THEOREM SlpGetAgrees == Spec => []GetAgrees
<1>1. SlpInv => GetAgrees
  <2> SUFFICES ASSUME SlpInv, phase # "encode"
               PROVE  /\ \A k \in 1..Len(values) : Get(k - 1) = <<values[k]>>
                      /\ Get(Len(values)) = <<>>
    BY DEF GetAgrees
  <2>1. values \in Seq(Int64) /\ segments \in Seq(Segment)
    BY ColumnFacts DEF SlpInv, TypeOK
  <2>2. PICK offset : Covers(values, segments, offset, Len(values))
    BY DEF SlpInv, DecodeInv
  <2> QED
    BY <2>1, <2>2, GetIsRight
<1> QED
  BY <1>1, InitSlpInv, NextSlpInv, PTL DEF Spec
=============================================================================
