---------------------------- MODULE MCCompressDir ----------------------------
(***************************************************************************)
(* Three workers: one may wait for a stolen half while a deque that is not *)
(* its thief's still holds files.                                          *)
(***************************************************************************)
EXTENDS CompressDir

CONSTANTS w1, w2, w3

MCThreeWorkers == {w1, w2, w3}

=============================================================================
