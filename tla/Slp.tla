--------------------------------- MODULE Slp ---------------------------------
(***************************************************************************)
(* The segmented linear predictor (slp.rs): SlpColumn::encode splits a      *)
(* column of i64 into arithmetic runs, decode writes them out again, get    *)
(* reads one value.  The arithmetic wraps at the width of an i64, the       *)
(* length of a segment at that of a u32.                                    *)
(***************************************************************************)
EXTENDS Integers, Sequences

CONSTANTS
  I64Max,     \* i64::MAX
  U32Mod,     \* 2^32
  Inputs      \* the columns encoded

Int64 == -(I64Max + 1)..I64Max

\* Columns hold less than 2^32 values: a segment that reaches that length would
\* restart its length at 0 and encode would never move past it.
ASSUME SlpAssumption ==
  /\ I64Max \in Nat /\ U32Mod \in Nat \ {0}
  /\ Inputs \subseteq Seq(Int64)
  /\ \A c \in Inputs : Len(c) < U32Mod

VARIABLES
  values,     \* the argument of encode
  segments,   \* SlpColumn::segments
  i,          \* encode: index of the first value no closed segment covers
  open,       \* encode: the segment being extended and its j, or NoSegment
  out, at, n, \* decode: the values so far, the segment, the position in it
  phase
vars == <<values, segments, i, open, out, at, n, phase>>

-----------------------------------------------------------------------------
\* Mutant of WrapI64: the sum is not brought back into range.
Unwrapped(x) == x

WrapI64(x) == ((x + I64Max + 1) % (2 * (I64Max + 1))) - (I64Max + 1)

\* start.wrapping_add(step.wrapping_mul(k))
Predict(segment, k) == WrapI64(segment.start + WrapI64(segment.step * k))

NoSegment == [start |-> 0, step |-> 0, length |-> 0, j |-> 0]

Closed(segment) ==
  [start |-> segment.start, step |-> segment.step, length |-> segment.length]

Init ==
  /\ values \in Inputs
  /\ segments = <<>> /\ i = 0 /\ open = NoSegment
  /\ out = <<>> /\ at = 1 /\ n = 0
  /\ phase = "encode"

\* The last value alone ends the loop.
LastValue ==
  /\ phase = "encode" /\ open = NoSegment /\ i + 1 = Len(values)
  /\ segments' = Append(segments, [start |-> values[i + 1], step |-> 0, length |-> 1])
  /\ phase' = "decode"
  /\ UNCHANGED <<values, i, open, out, at, n>>

Open ==
  /\ phase = "encode" /\ open = NoSegment /\ i + 1 < Len(values)
  /\ open' = [start |-> values[i + 1], step |-> WrapI64(values[i + 2] - values[i + 1]),
              length |-> 2, j |-> i + 2]
  /\ UNCHANGED <<values, segments, i, out, at, n, phase>>

Fits == open.j < Len(values) /\ values[open.j + 1] = Predict(open, open.length)

\* Mutant of Extend: the same value is compared again and again, which never ends on
\* a constant run.
ExtendMutant ==
  /\ phase = "encode" /\ open # NoSegment /\ Fits
  /\ open' = [open EXCEPT !.length = (@ + 1) % U32Mod]
  /\ UNCHANGED <<values, segments, i, out, at, n, phase>>

Extend ==
  /\ phase = "encode" /\ open # NoSegment /\ Fits
  /\ open' = [open EXCEPT !.length = (@ + 1) % U32Mod, !.j = @ + 1]
  /\ UNCHANGED <<values, segments, i, out, at, n, phase>>

\* Mutant of Close: the value that broke the segment is skipped.
CloseMutant ==
  /\ phase = "encode" /\ open # NoSegment /\ ~Fits
  /\ segments' = Append(segments, Closed(open))
  /\ i' = open.j + 1
  /\ open' = NoSegment
  /\ UNCHANGED <<values, out, at, n, phase>>

Close ==
  /\ phase = "encode" /\ open # NoSegment /\ ~Fits
  /\ segments' = Append(segments, Closed(open))
  /\ i' = i + open.length
  /\ open' = NoSegment
  /\ UNCHANGED <<values, out, at, n, phase>>

EncodeEnds ==
  /\ phase = "encode" /\ open = NoSegment /\ i >= Len(values)
  /\ phase' = "decode"
  /\ UNCHANGED <<values, segments, i, open, out, at, n>>

DecodeValue ==
  /\ phase = "decode" /\ at <= Len(segments) /\ n < segments[at].length
  /\ out' = Append(out, Predict(segments[at], n))
  /\ n' = n + 1
  /\ UNCHANGED <<values, segments, i, open, at, phase>>

NextSegment ==
  /\ phase = "decode" /\ at <= Len(segments) /\ n >= segments[at].length
  /\ at' = at + 1 /\ n' = 0
  /\ UNCHANGED <<values, segments, i, open, out, phase>>

DecodeEnds ==
  /\ phase = "decode" /\ at > Len(segments)
  /\ phase' = "done"
  /\ UNCHANGED <<values, segments, i, open, out, at, n>>

Next ==
  \/ LastValue \/ Open \/ Extend \/ Close \/ EncodeEnds
  \/ DecodeValue \/ NextSegment \/ DecodeEnds

Spec == Init /\ [][Next]_vars /\ WF_vars(Next)

-----------------------------------------------------------------------------
\* SlpColumn::get walks the segments, less[k] is what is left of the index
\* before the k-th.
Get(index) ==
  LET less[k \in 1..Len(segments) + 1] ==
        IF k = 1 THEN index ELSE less[k - 1] - segments[k - 1].length
      hits == {k \in DOMAIN segments : less[k] < segments[k].length}
  IN  IF hits = {} THEN <<>>
      ELSE LET k == CHOOSE k \in hits : \A other \in hits : k <= other
           IN  <<Predict(segments[k], less[k])>>

-----------------------------------------------------------------------------
(* Properties.                                                              *)

Segment == [start : Int64, step : Int64, length : 0..(U32Mod - 1)]

TypeOK ==
  /\ values \in Inputs /\ segments \in Seq(Segment) /\ i \in Nat
  /\ open \in [start : Int64, step : Int64, length : 0..(U32Mod - 1), j : Nat]
  /\ out \in Seq(Int64) /\ at \in Nat \ {0} /\ n \in Nat
  /\ phase \in {"encode", "decode", "done"}

\* Decoding an encoded column gives the column back, also where differences and
\* products pass the ends of an i64 (SlpColumn::encode and decode).
Lossless == phase = "done" => out = values

\* Random access agrees with the column, and is None exactly past its end
\* (SlpColumn::get).
GetAgrees ==
  phase # "encode" =>
    /\ \A k \in 1..Len(values) : Get(k - 1) = <<values[k]>>
    /\ Get(Len(values)) = <<>>

\* Encoding and decoding come to an end for every column shorter than 2^32.
Ends == <>(phase = "done")
=============================================================================
