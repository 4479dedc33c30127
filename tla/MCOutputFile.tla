----------------------------- MODULE MCOutputFile -----------------------------
(***************************************************************************)
(* Three or four processes race for one path.  Two chunks tell a header     *)
(* from a payload, and a whole file from a part of one.                    *)
(***************************************************************************)
EXTENDS OutputFile

CONSTANTS c1, c2, d1, d2

MCTwoCompressors == {c1, c2}
MCDecompressors == {d1, d2}
MCOneDecompressor == {d1}

=============================================================================
