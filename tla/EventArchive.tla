----------------------------- MODULE EventArchive -----------------------------
(***************************************************************************)
(* What the compressor promises, with no templates and no columns: it      *)
(* takes the events of a trace in, stream by stream and in order, and at   *)
(* any moment everything taken in so far can be read back, each event with *)
(* every field it had and the stream it had.  Once sealed the archive      *)
(* holds the whole trace and never changes.                                *)
(***************************************************************************)
EXTENDS Naturals, Sequences

CONSTANT Traces   \* the traces a caller may hand in

VARIABLES
  input,    \* the trace being archived: a sequence of streams
  archived, \* per stream, the events that can be read back, in order
  status    \* "empty", "filling" or "sealed"

archiveVars == <<input, archived, status>>

Placed(stream, k) == [at |-> stream.at, event |-> stream.events[k]]

ArchiveInit == input = <<>> /\ archived = <<>> /\ status = "empty"

Accept ==
  /\ status \in {"empty", "sealed"}
  /\ input' \in Traces
  /\ archived' = [i \in DOMAIN input' |-> <<>>]
  /\ status' = "filling"

Complete(i) == Len(archived[i]) = Len(input[i].events)

Archive(i) ==
  /\ status = "filling"
  /\ ~Complete(i)
  /\ \A j \in 1..(i - 1) : Complete(j)
  /\ archived' = [archived EXCEPT ![i] = Append(@, Placed(input[i], Len(@) + 1))]
  /\ UNCHANGED <<input, status>>

Seal ==
  /\ status = "filling"
  /\ \A i \in DOMAIN input : Complete(i)
  /\ status' = "sealed"
  /\ UNCHANGED <<input, archived>>

ArchiveNext ==
  \/ Accept
  \/ \E i \in DOMAIN input : Archive(i)
  \/ Seal

ArchiveSpec == ArchiveInit /\ [][ArchiveNext]_archiveVars

=============================================================================
