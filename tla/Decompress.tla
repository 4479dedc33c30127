------------------------------ MODULE Decompress ------------------------------
(***************************************************************************)
(* Reconstruction of one event from a template table (decompress.rs).      *)
(* Reconstruct goes over the nodes of an artifact.                         *)
(***************************************************************************)
EXTENDS Templates

OrElse(v, default) == IF v = None THEN default ELSE v

\* Arguments whose column has no cell for this instance are left out.
DecodeArgs(columns, i) ==
  [k \in ArgKeys |-> IF k \in DOMAIN columns THEN ArgGet(columns[k], i) ELSE None]

BuildEvent(t, i) ==
  [name |-> RestoreDigits(t.name_pattern, DecodeNameNums(t.name_nums, i)),
   ts   |-> OrElse(NumGet(t.ts, i), 0),
   dur  |-> NumGet(t.dur, i),
   id   |-> NumGet(t.id, i),
   cat  |-> t.cat, bp |-> t.bp, s |-> t.s,
   args |-> DecodeArgs(t.args_columns, i)]

\* A reference to a missing template or to one of the other kind is skipped.
Resolves(templates, kind, ref) ==
  ref.template + 1 \in DOMAIN templates /\ templates[ref.template + 1].kind = kind

\* A CPU event lives at the stream its batch is stored under.
EmitCpu(templates, at, ref) ==
  IF Resolves(templates, "cpu", ref)
  THEN [at |-> at, event |-> BuildEvent(templates[ref.template + 1], ref.instance)]
  ELSE None

\* A GPU event lives at the coordinates its template recorded for the instance.
EmitGpu(templates, at, ref) ==
  IF Resolves(templates, "gpu", ref)
  THEN LET t == templates[ref.template + 1]
           i == ref.instance
       IN  [at |-> [rank |-> at.rank,
                    pid  |-> OrElse(NumGet(t.pid, i), 0),
                    tid  |-> OrElse(RunGet(t.stream_tid, i), ""),
                    ph   |-> OrElse(RunGet(t.ph, i), "X")],
            event |-> BuildEvent(t, i)]
  ELSE None

=============================================================================
