------------------------------- MODULE Columns -------------------------------
(***************************************************************************)
(* The per-instance columns of a template (event.rs and slp.rs).  A        *)
(* template is filled one event at a time by `push` and is shrunk once by  *)
(* `compact`, which replaces each column by the smallest variant that      *)
(* still decodes to the same values.                                       *)
(*                                                                         *)
(* Everything here is a pure operator: a column is a record whose `tag` is *)
(* the Rust enum variant.  Instance ids count from 0, as in the code, and  *)
(* position i + 1 of a TLA+ sequence holds the cell of instance i.         *)
(***************************************************************************)
EXTENDS Integers, Sequences, FiniteSets

CONSTANTS
  None,      \* Rust's Option::None
  I32Min,    \* i32::MIN
  I32Max,    \* i32::MAX
  I64Max,    \* i64::MAX, the largest digit run an integer column can hold
  U8Max,     \* u8::MAX, the widest zero padding a digit column can hold
  U32Mod,    \* 2^32, the size of the id and length space
  MaxDigits  \* the decimal digits of the largest value that is formatted

ASSUME WidthAssumption ==
  /\ I32Min \in Int /\ I32Max \in Int /\ I32Min <= 0 /\ 0 < I32Max
  /\ I64Max \in Int /\ I32Max <= I64Max
  /\ U8Max \in Nat \ {0}
  /\ U32Mod \in Nat \ {0}
  /\ MaxDigits \in Nat

\* `n as u32` and `v as i32`: the casts keep the low bits.
AsU32(n) == n % U32Mod

AsI32(v) == I32Min + ((v - I32Min) % (I32Max - I32Min + 1))

FitsI32(v) == I32Min <= v /\ v <= I32Max

\* Rust's values.get(i): None beyond the end.
At(values, i) == IF i + 1 \in 1..Len(values) THEN values[i + 1] ELSE None

AllSame(values) == \A i \in 1..Len(values) : values[i] = values[1]

-----------------------------------------------------------------------------
(***************************************************************************)
(* NumColumn: timestamps, durations, ids and GPU pids.                     *)
(***************************************************************************)

NumColumn ==
  [tag : {"Empty"}]
    \cup [tag : {"Constant"}, len : Nat, value : Int]
    \cup [tag : {"I32", "I64"}, values : Seq(Int)]

NumEmpty == [tag |-> "Empty"]

NumLen(c) ==
  CASE c.tag = "Empty"    -> 0
    [] c.tag = "Constant" -> c.len
    [] OTHER              -> Len(c.values)

NumGet(c, i) ==
  CASE c.tag = "Empty"    -> None
    [] c.tag = "Constant" -> IF i < c.len THEN c.value ELSE None
    [] OTHER              -> At(c.values, i)

\* The column read back cell by cell, as push, extend_from and compact do.
NumValues(c) == [i \in 1..NumLen(c) |-> NumGet(c, i - 1)]

\* Mutant of NumPush: a narrowed column keeps its variant.
NumPushNarrow(c, v) ==
  [tag |-> IF c.tag = "I32" THEN "I32" ELSE "I64", values |-> Append(NumValues(c), v)]

\* Every variant is promoted to I64 storage before the value is appended.
NumPush(c, v) == [tag |-> "I64", values |-> Append(NumValues(c), v)]

NumExtendFrom(c, other) ==
  IF NumLen(other) = 0 THEN c
  ELSE IF NumLen(c) = 0 THEN other
  ELSE [tag |-> "I64", values |-> NumValues(c) \o NumValues(other)]

\* Mutant of NumCompact: only the upper bound of an i32 is looked at.
NumCompactUpper(c) ==
  LET vs == NumValues(c)
  IN  IF vs = <<>> THEN NumEmpty
      ELSE IF AllSame(vs) THEN
        [tag |-> "Constant", len |-> AsU32(Len(vs)), value |-> vs[1]]
      ELSE IF \A i \in 1..Len(vs) : vs[i] <= I32Max THEN
        [tag |-> "I32", values |-> [i \in 1..Len(vs) |-> AsI32(vs[i])]]
      ELSE [tag |-> "I64", values |-> vs]

NumCompact(c) ==
  LET vs == NumValues(c)
      n  == NumLen(c)
  IN  IF n = 0 THEN NumEmpty
      ELSE IF AllSame(vs) THEN
        [tag |-> "Constant", len |-> AsU32(n), value |-> vs[1]]
      ELSE IF \A i \in 1..n : FitsI32(vs[i]) THEN
        [tag |-> "I32", values |-> [i \in 1..n |-> AsI32(vs[i])]]
      ELSE [tag |-> "I64", values |-> vs]

-----------------------------------------------------------------------------
(***************************************************************************)
(* StringColumn, the GPU stream names.  PhaseColumn is the same algorithm  *)
(* over phase bytes, so GPU phases use these operators too.  Compaction    *)
(* only looks for a constant: otherwise the column is left as it is.       *)
(***************************************************************************)

RunColumn(S) ==
  [tag : {"Empty"}]
    \cup [tag : {"Constant"}, len : Nat, value : S]
    \cup [tag : {"PerInstance"}, values : Seq(S)]

RunEmpty == [tag |-> "Empty"]

RunLen(c) ==
  CASE c.tag = "Empty"    -> 0
    [] c.tag = "Constant" -> c.len
    [] OTHER              -> Len(c.values)

RunGet(c, i) ==
  CASE c.tag = "Empty"    -> None
    [] c.tag = "Constant" -> IF i < c.len THEN c.value ELSE None
    [] OTHER              -> At(c.values, i)

RunValues(c) == [i \in 1..RunLen(c) |-> RunGet(c, i - 1)]

RunPush(c, v) == [tag |-> "PerInstance", values |-> Append(RunValues(c), v)]

RunExtendFrom(c, other) ==
  IF RunLen(other) = 0 THEN c
  ELSE IF RunLen(c) = 0 THEN other
  ELSE [tag |-> "PerInstance", values |-> RunValues(c) \o RunValues(other)]

RunCompact(c) ==
  IF RunLen(c) = 0 THEN RunEmpty
  ELSE IF AllSame(RunValues(c)) THEN
    [tag |-> "Constant", len |-> AsU32(RunLen(c)), value |-> RunGet(c, 0)]
  ELSE c

-----------------------------------------------------------------------------
(***************************************************************************)
(* JSON argument values.  The payload of a value is abstracted to an       *)
(* integer: the number itself for "int" (what as_i64 accepts) and "uint"   *)
(* (above i64::MAX), the bit pattern for "float", 0 or 1 for "bool", and   *)
(* the identity of a string, array or object.  A kind is never implied by  *)
(* its payload: [kind |-> "int", v |-> 0] is 0, [kind |-> "float", v |-> 0]*)
(* is 0.0.                                                                 *)
(***************************************************************************)

JsonValue ==
  [kind : {"null", "int", "uint", "float", "str", "nested"}, v : Int]
    \cup [kind : {"bool"}, v : {0, 1}]

JsonNull == [kind |-> "null", v |-> 0]

\* Mutant of JsonExactEq: 0 = 0.0, and null = 0.
JsonLooseEq(a, b) == a.v = b.v

\* json_value_exact_eq: numbers of different kinds are never equal.
JsonExactEq(a, b) == a.kind = b.kind /\ a.v = b.v

\* ExactArgValue: the enum's explicit tag stands beside the payload.
ExactTag ==
  [null |-> "Null", bool |-> "Bool", int |-> "I64", uint |-> "U64",
   float |-> "F64", str |-> "String", nested |-> "Nested"]

ExactFromJson(x) == [exact |-> ExactTag[x.kind], v |-> x.v]

ExactIntoJson(x) ==
  [kind |-> CHOOSE k \in DOMAIN ExactTag : ExactTag[k] = x.exact, v |-> x.v]

ExactArgValue == [exact : {ExactTag[k] : k \in DOMAIN ExactTag}, v : Int]

ASSUME NoneAssumption ==
  None \notin Int /\ None \notin JsonValue /\ None \notin ExactArgValue

(***************************************************************************)
(* ArgColumn: one column per argument key.  It is PerInstance while the    *)
(* template is built and one of the other variants afterwards.             *)
(***************************************************************************)

ArgEmpty == [tag |-> "PerInstance", values |-> <<>>]

\* The kind of JSON value each typed variant stores without a tag per cell.
TypedKind ==
  [Bool |-> "bool", I32 |-> "int", I64 |-> "int", F64 |-> "float",
   Str |-> "str", StrDict |-> "str"]

\* A constant column reports one cell, however many instances share it.
ArgLen(c) ==
  CASE c.tag = "ExactConstant" -> 1
    [] c.tag = "StrDict"       -> Len(c.ids)
    [] OTHER                   -> Len(c.values)

ArgGet(c, i) ==
  CASE c.tag = "PerInstance"   -> At(c.values, i)
    [] c.tag = "ExactConstant" -> ExactIntoJson(c.value)
    [] c.tag = "Exact" ->
         IF At(c.values, i) = None THEN None
         ELSE ExactIntoJson(At(c.values, i))
    [] c.tag = "StrDict" ->
         IF At(c.ids, i) = None THEN None
         ELSE [kind |-> TypedKind[c.tag], v |-> c.dict[At(c.ids, i) + 1]]
    [] OTHER ->
         IF At(c.values, i) = None THEN None
         ELSE [kind |-> TypedKind[c.tag], v |-> At(c.values, i)]

\* The build path.  A compacted column would be promoted through ArgLen, after
\* a debug_assert that this never happens; Compressor shows that it does not.
ArgPush(c, x) ==
  IF c.tag = "PerInstance"
  THEN [c EXCEPT !.values = Append(@, x)]
  ELSE [tag    |-> "PerInstance",
        values |-> Append([i \in 1..ArgLen(c) |-> ArgGet(c, i - 1)], x)]

\* The distinct strings of a column, numbered from 0.  The code numbers them
\* in order of first occurrence; any numbering decodes to the same strings.
DictOf(values) ==
  LET strings == {values[i].v : i \in 1..Len(values)}
  IN  CHOOSE d \in [1..Cardinality(strings) -> strings] :
        \A s \in strings : \E k \in 1..Cardinality(strings) : d[k] = s

DictId(dict, s) == (CHOOSE k \in DOMAIN dict : dict[k] = s) - 1

\* Which variant the scan over a non-empty build column selects.
ArgVariant(values) ==
  LET Homogeneous(kind) == \A i \in 1..Len(values) : values[i].kind = kind
      strings == {values[i].v : i \in 1..Len(values)}
  IN  IF \A i \in 1..Len(values) : JsonExactEq(values[i], values[1])
        THEN "ExactConstant"
      ELSE IF Homogeneous("bool") THEN "Bool"
      ELSE IF Homogeneous("int") THEN
        IF \A i \in 1..Len(values) : FitsI32(values[i].v) THEN "I32" ELSE "I64"
      ELSE IF Homogeneous("float") THEN "F64"
      ELSE IF Homogeneous("str") THEN
        IF Cardinality(strings) * 2 <= Len(values) THEN "StrDict" ELSE "Str"
      ELSE "Exact"

ArgCompact(c) ==
  IF c.tag # "PerInstance" \/ c.values = <<>> THEN c
  ELSE
    LET vs      == c.values
        variant == ArgVariant(vs)
    IN  CASE variant = "ExactConstant" ->
               [tag |-> variant, value |-> ExactFromJson(vs[1])]
          [] variant = "StrDict" ->
               [tag |-> variant, dict |-> DictOf(vs),
                ids |-> [i \in 1..Len(vs) |-> DictId(DictOf(vs), vs[i].v)]]
          [] variant = "I32" ->
               [tag |-> variant, values |-> [i \in 1..Len(vs) |-> AsI32(vs[i].v)]]
          [] variant = "Exact" ->
               [tag |-> variant,
                values |-> [i \in 1..Len(vs) |-> ExactFromJson(vs[i])]]
          [] OTHER ->
               [tag |-> variant, values |-> [i \in 1..Len(vs) |-> vs[i].v]]

-----------------------------------------------------------------------------
(***************************************************************************)
(* Digit fillers of a name.  A run of ASCII digits is [zeros, value]: that *)
(* many leading zeros before the decimal text of the value, so "040" is    *)
(* [zeros |-> 1, value |-> 40] and "0" is [zeros |-> 0, value |-> 0].  The *)
(* regular expression \d also matches other scripts' digits, which no      *)
(* integer column accepts: those runs have ascii = FALSE.                  *)
(***************************************************************************)

DigitRun == [ascii : BOOLEAN, zeros : Nat, value : Nat]

\* The length of v.to_string().
Digits(v) == Cardinality({d \in 0..MaxDigits : d = 0 \/ v >= 10^d})

RunWidth(r) == r.zeros + Digits(r.value)

\* The runs whose width fits the u8 of a digit column.
NarrowRun == {r \in DigitRun : RunWidth(r) <= U8Max}

\* format_int_with_width: width 0 is plain decimal, else pad up to the width.
FormatIntWithWidth(v, width) ==
  [ascii |-> TRUE,
   zeros |-> IF width > Digits(v) THEN width - Digits(v) ELSE 0,
   value |-> v]

DigitGet(c, i) ==
  CASE c.tag = "Constant" -> c.value
    [] c.tag = "Strings"  -> At(c.values, i)
    [] OTHER ->
         FormatIntWithWidth(IF i + 1 \in 1..Len(c.values) THEN c.values[i + 1] ELSE 0,
                            c.width)

\* One width serves a whole column: none when no run is padded, else the common
\* width, cut to what a u8 holds.  Mixed widths with padding stay strings.
DigitWidth(runs) ==
  IF \A i \in 1..Len(runs) : runs[i].zeros = 0 THEN 0
  ELSE IF RunWidth(runs[1]) <= U8Max THEN RunWidth(runs[1]) ELSE U8Max

CompactDigitColumn(runs) ==
  LET Decimal == \A i \in 1..Len(runs) : runs[i].ascii
      Padded  == \E i \in 1..Len(runs) : runs[i].zeros > 0
      Uniform == \A i \in 1..Len(runs) : RunWidth(runs[i]) = RunWidth(runs[1])
      Bounded(max) == \A i \in 1..Len(runs) : runs[i].value <= max
      Packed(tag) == [tag |-> tag, width |-> DigitWidth(runs),
                    values |-> [i \in 1..Len(runs) |-> runs[i].value]]
  IN  IF AllSame(runs) THEN [tag |-> "Constant", value |-> runs[1]]
      ELSE IF ~Decimal \/ (Padded /\ ~Uniform) \/ ~Bounded(I64Max)
        THEN [tag |-> "Strings", values |-> runs]
      ELSE IF Bounded(I32Max) THEN Packed("I32")
      ELSE Packed("I64")

(***************************************************************************)
(* NameNums.  A row gives, for each placeholder of the name pattern, the   *)
(* digits that stood there.  Rows are indexed by the placeholder's place   *)
(* in the pattern, where the code uses its ordinal.                        *)
(***************************************************************************)

NoRow == [p \in {} |-> None]

NameNumsEmpty == [tag |-> "Empty"]

\* Appending to a Columnar value panics; Compressor shows it is unreachable.
PushNameNums(c, row) ==
  IF c.tag = "Empty"
  THEN IF DOMAIN row = {} THEN c ELSE [tag |-> "Rows", rows |-> <<row>>]
  ELSE [c EXCEPT !.rows = Append(@, row)]

CompressNameNums(c) ==
  IF c.tag # "Rows" THEN c
  ELSE LET Column(p) == [i \in 1..Len(c.rows) |-> c.rows[i][p]]
       IN  [tag  |-> "Columnar",
            cols |-> [p \in DOMAIN c.rows[1] |-> CompactDigitColumn(Column(p))]]

DecodeNameNums(c, i) ==
  CASE c.tag = "Empty"    -> NoRow
    [] c.tag = "Rows"     -> IF i + 1 \in 1..Len(c.rows) THEN c.rows[i + 1] ELSE NoRow
    [] c.tag = "Columnar" -> [p \in DOMAIN c.cols |-> DigitGet(c.cols[p], i)]

=============================================================================
