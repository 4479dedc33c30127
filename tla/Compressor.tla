------------------------------ MODULE Compressor ------------------------------
(***************************************************************************)
(* TemplateCompressor (core.rs, flat.rs).  A compressor is reused: each    *)
(* call of compress() clears the tables, folds every event of the trace    *)
(* into a template and records a (template, instance) reference per event, *)
(* lets a thread pool compact the templates in any order, and moves the    *)
(* table into the artifact.  The signature indexes are left behind, stale, *)
(* until the next call clears them.                                        *)
(*                                                                         *)
(* A trace is the sequence of its streams in the iteration order of the    *)
(* nested maps.  One step interns one event.                               *)
(***************************************************************************)
EXTENDS Decompress

CONSTANTS
  Traces,     \* the traces callers hand to compress()
  Ranks, Tids, Phases,
  GpuTids,    \* the tids that contain "stream"
  Later,      \* those of them that reach a compressor that was used before
  MaxEvents   \* bound: events of one trace, below the 2^32 ids of a u32

Coordinate == [rank : Ranks, pid : Int, tid : Tids, ph : Phases]

\* build_event (trace.rs) files every event under its own pid, tid and ph, so the
\* coordinates of a stream stand for those of its events.
Stream == [at : Coordinate, events : Seq(Event)]

ASSUME TraceAssumption == Traces \subseteq Seq(Stream)

ASSUME CoordinateAssumption == None \notin Tids /\ None \notin Phases

\* No digit run of a name is wider than a u8 can say: the WidePadding
\* run of ColumnLife shows what happens to a padded one that is.
ASSUME PaddingAssumption ==
  \A tr \in Traces : \A i \in 1..Len(tr) : \A k \in 1..Len(tr[i].events) :
    LET name == tr[i].events[k].name
    IN  \A p \in 1..Len(name) : name[p] \in DigitRun => name[p] \in NarrowRun

ASSUME CapacityAssumption ==
  Later \subseteq Traces /\ MaxEvents \in Nat /\ MaxEvents < U32Mod

VARIABLES
  phase,      \* "idle", "interning", "finalizing", "done" or "panicked"
  trace,      \* the argument of the current or last call
  templates,  \* self.templates
  cpuIndex,   \* self.cpu_signature_index
  gpuIndex,   \* self.gpu_signature_index
  finalized,  \* the templates the thread pool has compacted
  ranks,      \* compressed.ranks: the references of each stream
  table,      \* compressed.templates, empty until it is moved there
  interned    \* how many events were interned in this call

vars == <<phase, trace, templates, cpuIndex, gpuIndex, finalized, ranks, table,
          interned>>

NoIndex == [sig \in {} |-> 0]

Init ==
  /\ phase = "idle"
  /\ trace = <<>>
  /\ templates = <<>>
  /\ cpuIndex = NoIndex
  /\ gpuIndex = NoIndex
  /\ finalized = {}
  /\ ranks = <<>>
  /\ table = <<>>
  /\ interned = 0

\* Mutants of StartCompress: the references, or the indexes, of the previous call
\* are still there.
StartWithOldRanks(tr) ==
  /\ phase \in {"idle", "done"}
  /\ phase' = "interning"
  /\ trace' = tr
  /\ templates' = <<>>
  /\ cpuIndex' = NoIndex /\ gpuIndex' = NoIndex
  /\ finalized' = {} /\ table' = <<>> /\ interned' = 0
  /\ UNCHANGED ranks

StartWithOldIndexes(tr) ==
  /\ phase \in {"idle", "done"}
  /\ phase' = "interning"
  /\ trace' = tr
  /\ templates' = <<>>
  /\ ranks' = [i \in DOMAIN tr |-> <<>>]
  /\ finalized' = {} /\ table' = <<>> /\ interned' = 0
  /\ UNCHANGED <<cpuIndex, gpuIndex>>

StartCompress(tr) ==
  /\ phase \in {"idle", "done"}
  /\ phase' = "interning"
  /\ trace' = tr
  /\ templates' = <<>>
  /\ cpuIndex' = NoIndex
  /\ gpuIndex' = NoIndex
  /\ finalized' = {}
  /\ ranks' = [i \in DOMAIN tr |-> <<>>]
  /\ table' = <<>>
  /\ interned' = 0

\* build_rank walks the streams in order and each stream's events in order.
StreamDone(i) == Len(ranks[i]) = Len(trace[i].events)

\* Mutant of IsCurrent: the streams are walked in no particular order.
IsCurrentUnordered(i) == phase = "interning" /\ ~StreamDone(i) /\ interned < MaxEvents

IsCurrent(i) ==
  /\ phase = "interning"
  /\ ~StreamDone(i)
  /\ \A j \in 1..(i - 1) : StreamDone(j)
  /\ interned < MaxEvents

CurrentEvent(i) == trace[i].events[Len(ranks[i]) + 1]

IsGpu(i) == trace[i].at.tid \in GpuTids

\* Mutant of Record: instances are numbered per stream instead of per template.
RecordPerStream(i, tid, inst) ==
  /\ ranks' = [ranks EXCEPT ![i] = Append(@, [template |-> tid, instance |-> Len(@)])]
  /\ interned' = interned + 1
  /\ UNCHANGED <<trace, finalized, table>>

Record(i, tid, inst) ==
  /\ ranks' = [ranks EXCEPT ![i] = Append(@, [template |-> tid, instance |-> inst])]
  /\ interned' = interned + 1
  /\ UNCHANGED <<trace, finalized, table>>

AppendEvent(t, i) ==
  IF IsGpu(i) THEN AppendToKernel(t, CurrentEvent(i), trace[i].at)
  ELSE AppendToMerge(t, CurrentEvent(i))

KindOf(i) == IF IsGpu(i) THEN "gpu" ELSE "cpu"

\* The signature is in the index.  Following a stale id indexes past the table, a
\* template of the other kind is refused, and compacted name digits take no row:
\* each is a panic.
InternKnown(i, index) ==
  LET sig == TemplateSignature(CurrentEvent(i))
      tid == index[sig]
      usable == /\ tid + 1 \in DOMAIN templates
                /\ templates[tid + 1].kind = KindOf(i)
                /\ templates[tid + 1].name_nums.tag # "Columnar"
  IN  /\ IsCurrent(i)
      /\ sig \in DOMAIN index
      /\ IF usable
         THEN /\ templates' = [templates EXCEPT ![tid + 1] = AppendEvent(@, i)]
              /\ Record(i, tid, AsU32(InstanceCount(templates[tid + 1])))
              /\ UNCHANGED phase
         ELSE phase' = "panicked"
              /\ UNCHANGED <<trace, templates, finalized, ranks, table, interned>>
      /\ UNCHANGED <<cpuIndex, gpuIndex>>

\* The signature is new: a template is made of its first event, then indexed.
InternNew(i, index) ==
  LET sig == TemplateSignature(CurrentEvent(i))
      tid == AsU32(Len(templates))
      new == NewTemplate(KindOf(i), CurrentEvent(i))
  IN  /\ IsCurrent(i)
      /\ sig \notin DOMAIN index
      /\ templates' = Append(templates, AppendEvent(new, i))
      /\ Record(i, tid, AsU32(InstanceCount(new)))
      /\ UNCHANGED phase

Indexed(index, e, tid) ==
  [sig \in DOMAIN index \cup {TemplateSignature(e)} |->
     IF sig = TemplateSignature(e) THEN tid ELSE index[sig]]

InternEventTemplate(i) ==
  /\ ~IsGpu(i)
  /\ \/ InternKnown(i, cpuIndex)
     \/ /\ InternNew(i, cpuIndex)
        /\ cpuIndex' = Indexed(cpuIndex, CurrentEvent(i), AsU32(Len(templates)))
        /\ UNCHANGED gpuIndex

InternKernelTemplate(i) ==
  /\ IsGpu(i)
  /\ \/ InternKnown(i, gpuIndex)
     \/ /\ InternNew(i, gpuIndex)
        /\ gpuIndex' = Indexed(gpuIndex, CurrentEvent(i), AsU32(Len(templates)))
        /\ UNCHANGED cpuIndex

\* Every rank is built: finalize_templates fans out over the thread pool.
StartFinalize ==
  /\ phase = "interning"
  /\ \A i \in DOMAIN trace : StreamDone(i)
  /\ phase' = "finalizing"
  /\ UNCHANGED <<trace, templates, cpuIndex, gpuIndex, finalized, ranks, table,
                 interned>>

Compact(t) == IF t.kind = "cpu" THEN CpuTemplate(t) ELSE GpuTemplate(t)

\* Mutants of FinalizeTemplate: templates are compacted while events still arrive,
\* or only the CPU templates are.
FinalizeEarly(n) ==
  /\ phase \in {"interning", "finalizing"}
  /\ n \notin finalized
  /\ templates' = [templates EXCEPT ![n] = Compact(@)]
  /\ finalized' = finalized \cup {n}
  /\ UNCHANGED <<phase, trace, cpuIndex, gpuIndex, ranks, table, interned>>

FinalizeCpuOnly(n) ==
  /\ phase = "finalizing"
  /\ n \notin finalized /\ templates[n].kind = "cpu"
  /\ templates' = [templates EXCEPT ![n] = Compact(@)]
  /\ finalized' = finalized \cup {n}
  /\ UNCHANGED <<phase, trace, cpuIndex, gpuIndex, ranks, table, interned>>

FinalizeTemplate(n) ==
  /\ phase = "finalizing"
  /\ n \notin finalized
  /\ templates' = [templates EXCEPT ![n] = Compact(@)]
  /\ finalized' = finalized \cup {n}
  /\ UNCHANGED <<phase, trace, cpuIndex, gpuIndex, ranks, table, interned>>

\* mem::take moves the table out; the indexes keep ids of templates that left.
Publish ==
  /\ phase = "finalizing"
  /\ finalized = DOMAIN templates
  /\ table' = templates
  /\ templates' = <<>>
  /\ finalized' = {}
  /\ phase' = "done"
  /\ UNCHANGED <<trace, cpuIndex, gpuIndex, ranks, interned>>

\* A new compressor may be handed any trace.
Handed == IF phase = "idle" THEN Traces ELSE Later

Next ==
  \/ \E tr \in Handed : StartCompress(tr)
  \/ \E i \in DOMAIN trace : InternEventTemplate(i) \/ InternKernelTemplate(i)
  \/ StartFinalize
  \/ \E n \in DOMAIN templates : FinalizeTemplate(n)
  \/ Publish

\* compress() runs to its end once called, and the pool runs every task; nobody
\* is obliged to call compress().
Work ==
  \/ \E i \in DOMAIN trace : InternEventTemplate(i) \/ InternKernelTemplate(i)
  \/ StartFinalize
  \/ \E n \in DOMAIN templates : FinalizeTemplate(n)
  \/ Publish

Spec == Init /\ [][Next]_vars

FairSpec == Spec /\ WF_vars(Work)

-----------------------------------------------------------------------------
\* The table that references point into, wherever it is at the moment.
Table == IF phase = "done" THEN table ELSE templates

\* What decompression makes of the k-th reference of a stream.
Decoded(i, k) ==
  IF IsGpu(i) THEN EmitGpu(Table, trace[i].at, ranks[i][k])
  ELSE EmitCpu(Table, trace[i].at, ranks[i][k])

Indexes == {<<"cpu", cpuIndex>>, <<"gpu", gpuIndex>>}

\* The tables have their shapes and ids stay inside the table.
TypeOK ==
  /\ phase \in {"idle", "interning", "finalizing", "done", "panicked"}
  /\ trace \in Seq(Stream)
  /\ finalized \subseteq DOMAIN templates
  /\ interned \in 0..MaxEvents
  /\ DOMAIN ranks = DOMAIN trace
  /\ \A i \in DOMAIN trace : ranks[i] \in Seq([template : Nat, instance : Nat])
  /\ \A n \in DOMAIN templates : templates[n].kind \in {"cpu", "gpu"}

\* Every reference recorded so far decodes to the event it stands for, in every
\* field, at the stream the event came from (emit_cpu, emit_gpu): while events
\* are still being appended, while some templates are compacted and others are
\* not, and after the table moved.
Lossless ==
  \A i \in DOMAIN trace : \A k \in 1..Len(ranks[i]) :
    Decoded(i, k) = [at |-> trace[i].at, event |-> trace[i].events[k]]

\* References and instances correspond one to one: no instance is claimed by two
\* events and none is left over.  Analyses that work on columns instead of
\* events (analyze_in_situ) count each event exactly once because of this.
EachInstanceOnce ==
  /\ \A i, j \in DOMAIN trace : \A k \in 1..Len(ranks[i]), m \in 1..Len(ranks[j]) :
       ranks[i][k] = ranks[j][m] => i = j /\ k = m
  /\ \A i \in DOMAIN trace : \A k \in 1..Len(ranks[i]) :
       LET r == ranks[i][k]
       IN  /\ r.template + 1 \in DOMAIN Table
           /\ r.instance \in 0..(InstanceCount(Table[r.template + 1]) - 1)
  /\ \A n \in DOMAIN Table : \A x \in 0..(InstanceCount(Table[n]) - 1) :
       \E i \in DOMAIN trace : \E k \in 1..Len(ranks[i]) :
         ranks[i][k] = [template |-> n - 1, instance |-> x]

\* The indexes name exactly the templates of the table, each once and by its own
\* kind, so no lookup during a call meets a stale id: compress() cannot panic
\* with a "signature collision", even when the compressor is reused.
IndexCoherent ==
  /\ phase # "panicked"
  /\ phase \in {"interning", "finalizing"} =>
       /\ \A x \in Indexes : \A sig \in DOMAIN x[2] :
            /\ x[2][sig] + 1 \in DOMAIN templates
            /\ templates[x[2][sig] + 1].kind = x[1]
            /\ templates[x[2][sig] + 1].name_pattern = sig.normalized_name
            /\ templates[x[2][sig] + 1].arg_keys = sig.arg_keys
       /\ \A n \in DOMAIN templates :
            \E x \in Indexes : \E sig \in DOMAIN x[2] : x[2][sig] = n - 1
       /\ \A x \in Indexes : \A sig, other \in DOMAIN x[2] :
            x[2][sig] = x[2][other] => sig = other

\* Every column of t has a cell for every instance, unless it is an absent optional
\* field, a name without digits or a constant argument.
Aligned(t) ==
  LET count == InstanceCount(t)
  IN  /\ NumLen(t.dur) \in {0, count} /\ NumLen(t.id) \in {0, count}
      /\ t.kind = "gpu" => /\ NumLen(t.pid) = count
                           /\ RunLen(t.stream_tid) = count
                           /\ RunLen(t.ph) = count
      /\ \A k \in t.arg_keys :
           t.args_columns[k].tag # "ExactConstant" => ArgLen(t.args_columns[k]) = count
      /\ t.name_nums.tag = "Rows" => Len(t.name_nums.rows) = count

\* The cells of one instance stand at the same index of every column, in every
\* template, while it fills and after it was compacted: get(instance) of any two
\* columns speaks of the same event.
ColumnsAligned == \A n \in DOMAIN Table : Aligned(Table[n])

\* Once a template was compacted it receives no event: the build-only columns
\* (ArgColumn, NameNums) are never appended to in another variant.
NoAppendAfterFinalize ==
  [][\A n \in finalized \cap finalized' : templates'[n] = templates[n]]_vars

\* compress() returns, and with it every event of its trace can be read back.
CompressReturns == phase = "interning" ~> phase = "done"

-----------------------------------------------------------------------------
\* The compressor implements the archive of EventArchive: what can be read back
\* through templates and columns is what the abstract archive holds.
ArchiveView ==
  [i \in DOMAIN trace |-> [k \in 1..Len(ranks[i]) |-> Decoded(i, k)]]

ArchiveStatus ==
  CASE phase = "idle" -> "empty" [] phase = "done" -> "sealed"
    [] phase = "panicked" -> "lost" [] OTHER -> "filling"

Archive == INSTANCE EventArchive
  WITH input <- trace, archived <- ArchiveView, status <- ArchiveStatus

ImplementsArchive == Archive!ArchiveSpec

=============================================================================
