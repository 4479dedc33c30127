------------------------------- MODULE Analyses -------------------------------
(***************************************************************************)
(* The in-situ analyses (analysis/): each task is run on the raw trace by   *)
(* walking events, and in situ on the columns of the template table without *)
(* rebuilding an event.  A task makes a list of entries, in the order of    *)
(* its loops, and its result is the tally of them that it prints; the JSON  *)
(* report orders and truncates the tally the same way for both.  Totals are *)
(* i64 sums that wrap in a release build.                                   *)
(***************************************************************************)
EXTENDS Compressor, SequencesExt

\* The readers create a stream with its first event (trace.rs:445, trace.rs:622,
\* trace_stream.rs:187).
ASSUME StreamAssumption ==
  \A tr \in Traces : \A i \in 1..Len(tr) : tr[i].events # <<>>

WrapI64(n) == ((n + I64Max + 1) % (2 * (I64Max + 1))) - (I64Max + 1)

SumOf(values) == FoldLeft(LAMBDA total, v : WrapI64(total + v), 0, values)

DurOf(e) == IF e.dur = None THEN 0 ELSE e.dur

-----------------------------------------------------------------------------
(* Tallies.                                                                 *)

Entry(key, amount) == [key |-> key, amount |-> amount]

\* `*tally.entry(key).or_insert(0) += amount`
Add(tally, entry) ==
  [k \in DOMAIN tally \cup {entry.key} |->
     IF k # entry.key THEN tally[k]
     ELSE WrapI64((IF k \in DOMAIN tally THEN tally[k] ELSE 0) + entry.amount)]

NoTally == [k \in {} |-> 0]

Tally(entries) == FoldLeft(Add, NoTally, entries)

-----------------------------------------------------------------------------
\* Mutant of NumSum: a constant column counts once.
NumSumOnce(c) ==
  CASE c.tag = "Empty"    -> 0
    [] c.tag = "Constant" -> WrapI64(c.value)
    [] OTHER              -> SumOf(c.values)

\* NumColumn::sum_i64: a constant is multiplied by its length.
NumSum(c) ==
  CASE c.tag = "Empty"    -> 0
    [] c.tag = "Constant" -> WrapI64(c.len * c.value)
    [] OTHER              -> SumOf(c.values)

-----------------------------------------------------------------------------
(* operator_hotspot: total duration per normalized name, CPU streams only.  *)

NameEntries(stream) ==
  IF stream.at.tid \in GpuTids THEN <<>>
  ELSE [k \in DOMAIN stream.events |->
          Entry(NormalizeName(stream.events[k].name), DurOf(stream.events[k]))]

HotspotRaw(tr) == Tally(FlattenSeq([i \in DOMAIN tr |-> NameEntries(tr[i])]))

PatternEntries(t) ==
  IF t.kind = "cpu" THEN <<Entry(t.name_pattern, NumSum(t.dur))>> ELSE <<>>

HotspotInSitu(templates_) ==
  Tally(FlattenSeq([n \in DOMAIN templates_ |-> PatternEntries(templates_[n])]))

-----------------------------------------------------------------------------
(* stream_load_balance: busy time per (pid, tid) of the GPU streams.        *)

BusyEntries(stream) ==
  IF stream.at.tid \notin GpuTids THEN <<>>
  ELSE <<Entry(<<stream.at.pid, stream.at.tid>>,
               SumOf([k \in DOMAIN stream.events |-> DurOf(stream.events[k])]))>>

BalanceRaw(tr) == Tally(FlattenSeq([i \in DOMAIN tr |-> BusyEntries(tr[i])]))

\* Mutant of OneStream: the stream name alone decides.
OneStreamByName(t) == t.stream_tid.tag = "Constant"

\* Whether all instances of a GPU template ran on one stream of one process, as
\* far as the compacted columns tell.
OneStream(t) == t.pid.tag = "Constant" /\ t.stream_tid.tag = "Constant"

\* The stream and the duration of one instance.
StreamOf(t, i) == <<OrElse(NumGet(t.pid, i), 0), OrElse(RunGet(t.stream_tid, i), "")>>

InstanceEntry(t, i) == Entry(StreamOf(t, i), OrElse(NumGet(t.dur, i), 0))

KernelEntries(t) ==
  IF t.kind = "cpu" \/ InstanceCount(t) = 0 THEN <<>>
  ELSE IF OneStream(t) THEN <<Entry(StreamOf(t, 0), NumSum(t.dur))>>
  ELSE [i \in 1..InstanceCount(t) |-> InstanceEntry(t, i - 1)]

BalanceInSitu(templates_) ==
  Tally(FlattenSeq([n \in DOMAIN templates_ |-> KernelEntries(templates_[n])]))

-----------------------------------------------------------------------------
(* Properties.                                                              *)

\* The hotspots and the busy times read off the columns of a published artifact
\* are those of the trace it was made of, to the microsecond and wrapped alike:
\* no event counts twice or not at all, or on another stream than it ran on,
\* whatever templates it was folded into and whichever variant the pool
\* compacted their columns to.
AnalysesAgree ==
  phase = "done" =>
    /\ HotspotInSitu(table) = HotspotRaw(trace)
    /\ BalanceInSitu(table) = BalanceRaw(trace)
=============================================================================
