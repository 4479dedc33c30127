-------------------------------- MODULE MCSlp --------------------------------
(* Every column of up to five values of a two-bit "i64".                      *)
EXTENDS Slp

MaxLen == 5
MCInputs == UNION {[1..l -> -2..1] : l \in 0..MaxLen}
=============================================================================
