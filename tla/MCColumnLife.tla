----------------------------- MODULE MCColumnLife -----------------------------
(***************************************************************************)
(* Small values for ColumnLife: integers on both sides of each width,      *)
(* JSON values of every kind that share payloads across kinds, digit runs  *)
(* with and without padding, and lengths up to the length space.           *)
(***************************************************************************)
EXTENDS ColumnLife

MCI32Min == -2

MCInts == {-3, 0, 1, 3, 4}

MCTexts == {"stream 0", "stream 1"}

Json(k, n) == [kind |-> k, v |-> n]

MCJsons ==
  {Json("null", 0), Json("bool", 0), Json("bool", 1), Json("int", 0),
   Json("int", 3), Json("int", 4), Json("uint", 9), Json("float", 0),
   Json("float", 1), Json("str", 0), Json("str", 1), Json("nested", 0)}

Ascii(z, n) == [ascii |-> TRUE, zeros |-> z, value |-> n]

\* "0" "7" "12" "07" "007" "99" and a run of another script's digits.
MCRuns ==
  {Ascii(0, 0), Ascii(0, 7), Ascii(0, 12), Ascii(1, 7), Ascii(2, 7),
   Ascii(0, 99), [ascii |-> FALSE, zeros |-> 0, value |-> 7]}

\* Patterns with no placeholder, with one, and with two.
MCRowSets ==
  {{NoRow}, [{2} -> MCRuns],
   [{1, 3} -> {Ascii(0, 0), Ascii(1, 7), Ascii(0, 12), Ascii(0, 99)}]}

\* Runs wider than a padding width: "0007" and "0008" where U8Max is 3.
MCWideRowSets == {[{2} -> {Ascii(0, 7), Ascii(3, 7), Ascii(3, 8)}]}

=============================================================================
