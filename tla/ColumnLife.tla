------------------------------ MODULE ColumnLife ------------------------------
(***************************************************************************)
(* The life of one column: any interleaving of push, extend_from and       *)
(* compact that its type accepts.  NumColumn and StringColumn / PhaseColumn*)
(* may be appended to after they were compacted (the column is promoted    *)
(* back to its build variant); ArgColumn and NameNums may not, and the     *)
(* guards of their Push say so.                                            *)
(*                                                                         *)
(* `log` is what a caller believes to have stored.                         *)
(***************************************************************************)
EXTENDS Columns

CONSTANTS
  Ints,      \* values of a NumColumn
  Texts,     \* values of a StringColumn
  Jsons,     \* values of an ArgColumn
  RowSets,   \* for each name pattern, the digit rows its names can have
  MaxLog,    \* bound: cells appended to the column
  MaxOther   \* bound: cells of the column given to extend_from

ASSUME LogAssumption == MaxLog \in Nat /\ MaxLog < U32Mod /\ MaxOther \in Nat
ASSUME ValueAssumption == Ints \subseteq Int /\ Jsons \subseteq JsonValue

VARIABLES
  kind,    \* which column type this is
  rows,    \* the rows a NameNums may get: those of its template's pattern
  column,
  log

vars == <<kind, rows, column, log>>

Kinds == {"num", "text", "arg", "digits"}

Values(k, r) ==
  CASE k = "num" -> Ints [] k = "text" -> Texts [] k = "arg" -> Jsons [] OTHER -> r

EmptyColumn(k) ==
  CASE k = "num" -> NumEmpty [] k = "text" -> RunEmpty
    [] k = "arg" -> ArgEmpty [] OTHER -> NameNumsEmpty

PushCell(k, c, v) ==
  CASE k = "num" -> NumPush(c, v) [] k = "text" -> RunPush(c, v)
    [] k = "arg" -> ArgPush(c, v) [] OTHER -> PushNameNums(c, v)

CompactColumn(k, c) ==
  CASE k = "num" -> NumCompact(c) [] k = "text" -> RunCompact(c)
    [] k = "arg" -> ArgCompact(c) [] OTHER -> CompressNameNums(c)

Cell(k, c, i) ==
  CASE k = "num" -> NumGet(c, i) [] k = "text" -> RunGet(c, i)
    [] k = "arg" -> ArgGet(c, i) [] OTHER -> DecodeNameNums(c, i)

Init ==
  /\ kind \in Kinds
  /\ rows \in IF kind = "digits" THEN RowSets ELSE {{}}
  /\ column = EmptyColumn(kind)
  /\ log = <<>>

\* push: always accepted by the promoting columns, only in the build variant
\* by the others.
Push(v) ==
  /\ Len(log) < MaxLog
  /\ kind = "arg" => column.tag = "PerInstance"
  /\ kind = "digits" => column.tag # "Columnar"
  /\ column' = PushCell(kind, column, v)
  /\ log' = Append(log, v)
  /\ UNCHANGED <<kind, rows>>

\* What another builder made of vs by pushing them one by one.
Built(k, vs) ==
  IF vs = <<>> THEN EmptyColumn(k)
  ELSE [tag |-> IF k = "num" THEN "I64" ELSE "PerInstance", values |-> vs]

ExtendFrom(vs, compacted) ==
  LET built == Built(kind, vs)
      other == IF compacted THEN CompactColumn(kind, built) ELSE built
  IN  /\ kind \in {"num", "text"}
      /\ Len(log) + Len(vs) <= MaxLog
      /\ column' = IF kind = "num" THEN NumExtendFrom(column, other)
                   ELSE RunExtendFrom(column, other)
      /\ log' = log \o vs
      /\ UNCHANGED <<kind, rows>>

Compact ==
  /\ column' = CompactColumn(kind, column)
  /\ UNCHANGED <<kind, rows, log>>

Next ==
  \/ \E v \in Values(kind, rows) : Push(v)
  \/ \E n \in 0..MaxOther, compacted \in BOOLEAN :
       \E vs \in [1..n -> Values(kind, rows)] : ExtendFrom(vs, compacted)
  \/ Compact

Spec == Init /\ [][Next]_vars

-----------------------------------------------------------------------------
\* The column keeps one of the representations its Rust type allows.
TypeOK ==
  /\ kind \in Kinds
  /\ kind = "num"  => column \in NumColumn
  /\ kind = "text" => column \in RunColumn(Texts)
  /\ kind = "arg"  => column.tag \in DOMAIN TypedKind
                                     \cup {"PerInstance", "ExactConstant", "Exact"}
  /\ kind \in {"num", "arg"} /\ column.tag = "I32" =>
       \A i \in 1..Len(column.values) : FitsI32(column.values[i])
  /\ kind = "digits" => column.tag \in {"Empty", "Rows", "Columnar"}

\* Whatever the column was promoted to, narrowed to or merged with, every cell
\* reads back as the value that was appended (get, get_owned, get_string), and a
\* numeric or text column knows how many cells it holds.
CellsFaithful ==
  /\ \A i \in 1..Len(log) : Cell(kind, column, i - 1) = log[i]
  /\ kind = "num"  => NumLen(column) = Len(log) /\ NumGet(column, Len(log)) = None
  /\ kind = "text" => RunLen(column) = Len(log) /\ RunGet(column, Len(log)) = None

\* slp.rs:198-199: columns whose entries share one character width are stored
\* with that width, "so leading-zero padding is preserved on decode".
PaddingPreserved ==
  kind = "digits" =>
    \A i \in 1..Len(log) : DecodeNameNums(column, i - 1) = log[i]

=============================================================================
