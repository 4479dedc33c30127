--------------------------- MODULE CompressorProofs ---------------------------
(***************************************************************************)
(* For every set of traces and every bound: the compressor keeps its       *)
(* tables in shape, its indexes coherent, and every event readable; the    *)
(* analyses of its columns are those of the trace; and decompress() brings *)
(* back what an artifact holds.                                            *)
(*                                                                         *)
(* IInv is the inductive invariant.  Lossless alone is not inductive: that *)
(* an append keeps the old instances needs the columns of the template to  *)
(* be aligned with the signature it is found under, and that compaction    *)
(* keeps them needs the counts to stay below 2^32.                         *)
(***************************************************************************)
EXTENDS Analyses, Reconstruct, ColumnsProofs, WellFoundedInduction

-----------------------------------------------------------------------------
(* Facts about one template: an event appended to a template of its         *)
(* signature can be read back, the events appended before it still can, and *)
(* compaction changes none of them.                                         *)

\* Where the digits of a name with this pattern stand.
Slots(pattern) == {p \in 1..Len(pattern) : pattern[p] \in DigitRun}

\* Events whose names have no digit run wider than a u8 can say.
NarrowEvent ==
  {e \in Event : \A p \in 1..Len(e.name) : e.name[p] \in DigitRun => e.name[p] \in NarrowRun}

Fields ==
  {"kind", "name_pattern", "cat", "bp", "s", "arg_keys", "name_nums",
   "args_columns", "ts", "dur", "id", "pid", "stream_tid", "ph"}

\* A template under construction: it holds n events of the signature sig, and
\* every column agrees on that.
Building(t, kind, sig, n) ==
  /\ DOMAIN t = Fields
  /\ t.kind = kind
  /\ t.name_pattern = sig.normalized_name /\ t.arg_keys = sig.arg_keys
  /\ t.cat = sig.cat /\ t.bp = sig.bp /\ t.s = sig.s
  /\ NumsBuild(t.name_nums, Slots(t.name_pattern), n)
  /\ DOMAIN t.args_columns = sig.arg_keys
  /\ \A k \in sig.arg_keys : /\ t.args_columns[k] \in ArgBuild
                             /\ Len(t.args_columns[k].values) = n
  /\ t.ts \in NumColumn /\ NumLen(t.ts) = n
  /\ t.dur \in NumColumn /\ NumLen(t.dur) = IF sig.has_dur THEN n ELSE 0
  /\ t.id \in NumColumn /\ NumLen(t.id) = IF sig.has_id THEN n ELSE 0

\* The coordinate columns, which only a GPU template fills.
Located(t, S, Q, n) ==
  /\ t.pid \in NumColumn /\ NumLen(t.pid) = n
  /\ t.stream_tid \in RunColumn(S) /\ RunLen(t.stream_tid) = n
  /\ t.ph \in RunColumn(Q) /\ RunLen(t.ph) = n

-----------------------------------------------------------------------------
\* restore_digits undoes normalize_name and extract_digit_runs.
LEMMA NameRoundTrip ==
  ASSUME NEW name \in Name
  PROVE  /\ RestoreDigits(NormalizeName(name), ExtractDigitRuns(name)) = name
         /\ Slots(NormalizeName(name)) = DOMAIN ExtractDigitRuns(name)
         /\ NormalizeName(name) \in Name
<1> DEFINE pat == NormalizeName(name)
<1>1. Placeholder \in DigitRun
  BY DEF Placeholder, DigitRun
<1>2. name \in Seq(Literals \cup DigitRun) /\ Len(name) \in Nat
  BY DEF Name
<1>3. /\ pat \in Seq(Literals \cup DigitRun) /\ Len(pat) = Len(name)
      /\ \A p \in 1..Len(name) :
           pat[p] = IF name[p] \in DigitRun THEN Placeholder ELSE name[p]
  BY <1>1, <1>2 DEF NormalizeName
<1> HIDE DEF pat
<1>4. Slots(pat) = {p \in 1..Len(name) : name[p] \in DigitRun}
  BY <1>1, <1>3 DEF Slots
<1>5. RestoreDigits(pat, ExtractDigitRuns(name)) = [p \in 1..Len(name) |-> name[p]]
  BY <1>1, <1>2, <1>3 DEF RestoreDigits, ExtractDigitRuns
<1>6. [p \in 1..Len(name) |-> name[p]] = name
  BY <1>2
<1> QED
  BY <1>3, <1>4, <1>5, <1>6 DEF ExtractDigitRuns, Name, pat

\* The digit runs of a narrow name stand at the slots of its pattern.
LEMMA NarrowDigits ==
  ASSUME NEW e \in NarrowEvent
  PROVE  ExtractDigitRuns(e.name) \in [Slots(NormalizeName(e.name)) -> NarrowRun]
<1>1. e.name \in Name
  BY DEF NarrowEvent, Event
<1>2. Slots(NormalizeName(e.name)) = DOMAIN ExtractDigitRuns(e.name)
  BY <1>1, NameRoundTrip
<1>3. \A p \in 1..Len(e.name) : e.name[p] \in DigitRun => e.name[p] \in NarrowRun
  BY DEF NarrowEvent
<1> QED
  BY <1>2, <1>3 DEF ExtractDigitRuns

\* A column that holds an optional field of n events.
LEMMA PushOptionCells ==
  ASSUME NEW c \in NumColumn, NEW v \in Int \cup {None}, NEW n \in Nat,
         NumLen(c) = IF v # None THEN n ELSE 0
  PROVE  LET d == PushOption(c, v)
         IN  /\ d \in NumColumn
             /\ NumLen(d) = IF v # None THEN n + 1 ELSE 0
             /\ NumGet(d, n) = v
             /\ \A i \in 0..(n - 1) : NumGet(d, i) = NumGet(c, i)
<1>1. CASE v = None
  <2>1. \A i \in Nat : NumGet(c, i) = None
    BY <1>1 DEF NumColumn, NumLen, NumGet, At
  <2> QED
    BY <1>1, <2>1 DEF PushOption
<1>2. CASE v # None
  BY <1>2, NumPushCells DEF PushOption
<1> QED
  BY <1>1, <1>2

\* One cell is added to every argument column, none of which is missing.
LEMMA AppendArgsCells ==
  ASSUME NEW e \in Event, NEW n \in Nat, NEW columns,
         DOMAIN columns = Keys(e.args),
         \A k \in Keys(e.args) : columns[k] \in ArgBuild /\ Len(columns[k].values) = n
  PROVE  LET new == AppendArgs(columns, e)
         IN  /\ DOMAIN new = Keys(e.args)
             /\ \A k \in Keys(e.args) : new[k] \in ArgBuild /\ Len(new[k].values) = n + 1
             /\ DecodeArgs(new, n) = e.args
             /\ \A i \in 0..(n - 1) : DecodeArgs(new, i) = DecodeArgs(columns, i)
<1> DEFINE new == AppendArgs(columns, e)
<1>1. e.args \in [ArgKeys -> JsonValue \cup {None}]
  BY DEF Event, Args
<1>2. \A k \in Keys(e.args) : k \in ArgKeys /\ e.args[k] \in JsonValue /\ e.args[k] # None
  BY <1>1 DEF Keys
<1>3. /\ DOMAIN new = Keys(e.args)
      /\ \A k \in Keys(e.args) : new[k] = ArgPush(columns[k], e.args[k])
  BY <1>2 DEF AppendArgs
<1>4. ASSUME NEW k \in Keys(e.args)
      PROVE  /\ new[k] \in ArgBuild /\ Len(new[k].values) = n + 1
             /\ ArgGet(new[k], n) = e.args[k]
             /\ \A i \in 0..(n - 1) : ArgGet(new[k], i) = ArgGet(columns[k], i)
  BY <1>2, <1>3, ArgPushCells
<1> HIDE DEF new
<1>5. DecodeArgs(new, n) = e.args
  <2>1. \A k \in ArgKeys : k \notin Keys(e.args) => e.args[k] = None
    BY DEF Keys
  <2>2. DecodeArgs(new, n) = [k \in ArgKeys |-> e.args[k]]
    BY <1>3, <1>4, <2>1 DEF DecodeArgs
  <2> QED
    BY <1>1, <2>2
<1>6. ASSUME NEW i \in 0..(n - 1)
      PROVE  DecodeArgs(new, i) = DecodeArgs(columns, i)
  BY <1>3, <1>4 DEF DecodeArgs
<1> QED
  BY <1>3, <1>4, <1>5, <1>6 DEF new

\* u holds the n instances of t, and the event e.
MergeAppended(u, t, kind, e, n) ==
  /\ Building(u, kind, TemplateSignature(e), n + 1)
  /\ BuildEvent(u, n) = e
  /\ \A i \in 0..(n - 1) : BuildEvent(u, i) = BuildEvent(t, i)
  /\ u.pid = t.pid /\ u.stream_tid = t.stream_tid /\ u.ph = t.ph

\* append_to_merge: the new instance is the event, the old ones are untouched.
LEMMA AppendToMergeInstances ==
  ASSUME NEW kind, NEW e \in NarrowEvent, NEW n \in Nat, NEW t,
         Building(t, kind, TemplateSignature(e), n)
  PROVE  MergeAppended(AppendToMerge(t, e), t, kind, e, n)
<1> DEFINE u == AppendToMerge(t, e)
           sig == TemplateSignature(e)
           nums == ExtractDigitRuns(e.name)
<1>1. /\ e \in Event /\ e.name \in Name /\ e.ts \in Int /\ e.dur \in Int \cup {None}
      /\ e.id \in Int \cup {None}
      /\ e = [name |-> e.name, ts |-> e.ts, dur |-> e.dur, id |-> e.id, cat |-> e.cat,
              bp |-> e.bp, s |-> e.s, args |-> e.args]
  BY DEF NarrowEvent, Event
<1>2. /\ sig.normalized_name = NormalizeName(e.name)
      /\ sig.cat = e.cat /\ sig.bp = e.bp /\ sig.s = e.s
      /\ sig.has_dur <=> e.dur # None
      /\ sig.has_id <=> e.id # None
      /\ sig.arg_keys = Keys(e.args)
  BY DEF TemplateSignature
<1> HIDE DEF sig
<1>3. /\ DOMAIN t = Fields
      /\ t.kind = kind
      /\ t.name_pattern = sig.normalized_name /\ t.arg_keys = sig.arg_keys
      /\ t.cat = sig.cat /\ t.bp = sig.bp /\ t.s = sig.s
      /\ NumsBuild(t.name_nums, Slots(t.name_pattern), n)
      /\ DOMAIN t.args_columns = sig.arg_keys
      /\ \A k \in sig.arg_keys : /\ t.args_columns[k] \in ArgBuild
                                 /\ Len(t.args_columns[k].values) = n
      /\ t.ts \in NumColumn /\ NumLen(t.ts) = n
      /\ t.dur \in NumColumn /\ NumLen(t.dur) = IF sig.has_dur THEN n ELSE 0
      /\ t.id \in NumColumn /\ NumLen(t.id) = IF sig.has_id THEN n ELSE 0
  BY DEF Building, sig
<1>4. /\ DOMAIN u = Fields
      /\ u.kind = t.kind /\ u.name_pattern = t.name_pattern /\ u.arg_keys = t.arg_keys
      /\ u.cat = t.cat /\ u.bp = t.bp /\ u.s = t.s
      /\ u.ts = NumPush(t.ts, e.ts)
      /\ u.dur = PushOption(t.dur, e.dur)
      /\ u.id = PushOption(t.id, e.id)
      /\ u.args_columns = AppendArgs(t.args_columns, e)
      /\ u.name_nums = PushNameNums(t.name_nums, nums)
      /\ u.pid = t.pid /\ u.stream_tid = t.stream_tid /\ u.ph = t.ph
  BY <1>3 DEF AppendToMerge, Fields
<1> HIDE DEF u
<1>5. /\ u.ts \in NumColumn /\ NumLen(u.ts) = n + 1 /\ NumGet(u.ts, n) = e.ts
      /\ \A i \in 0..(n - 1) : NumGet(u.ts, i) = NumGet(t.ts, i)
  BY <1>1, <1>3, <1>4, NumPushCells
<1>6. /\ u.dur \in NumColumn /\ NumLen(u.dur) = IF sig.has_dur THEN n + 1 ELSE 0
      /\ NumGet(u.dur, n) = e.dur
      /\ \A i \in 0..(n - 1) : NumGet(u.dur, i) = NumGet(t.dur, i)
  <2>1. t.dur \in NumColumn /\ NumLen(t.dur) = IF e.dur # None THEN n ELSE 0
    BY <1>2, <1>3
  <2> DEFINE d == PushOption(t.dur, e.dur)
  <2>2. /\ d \in NumColumn /\ NumLen(d) = IF e.dur # None THEN n + 1 ELSE 0
        /\ NumGet(d, n) = e.dur
        /\ \A i \in 0..(n - 1) : NumGet(d, i) = NumGet(t.dur, i)
    BY <1>1, <2>1, PushOptionCells
  <2> QED
    BY <1>2, <1>4, <2>2
<1>7. /\ u.id \in NumColumn /\ NumLen(u.id) = IF sig.has_id THEN n + 1 ELSE 0
      /\ NumGet(u.id, n) = e.id
      /\ \A i \in 0..(n - 1) : NumGet(u.id, i) = NumGet(t.id, i)
  <2>1. t.id \in NumColumn /\ NumLen(t.id) = IF e.id # None THEN n ELSE 0
    BY <1>2, <1>3
  <2> DEFINE d == PushOption(t.id, e.id)
  <2>2. /\ d \in NumColumn /\ NumLen(d) = IF e.id # None THEN n + 1 ELSE 0
        /\ NumGet(d, n) = e.id
        /\ \A i \in 0..(n - 1) : NumGet(d, i) = NumGet(t.id, i)
    BY <1>1, <2>1, PushOptionCells
  <2> QED
    BY <1>2, <1>4, <2>2
<1>8. /\ DOMAIN u.args_columns = sig.arg_keys
      /\ \A k \in sig.arg_keys : /\ u.args_columns[k] \in ArgBuild
                                 /\ Len(u.args_columns[k].values) = n + 1
      /\ DecodeArgs(u.args_columns, n) = e.args
      /\ \A i \in 0..(n - 1) :
           DecodeArgs(u.args_columns, i) = DecodeArgs(t.args_columns, i)
  BY <1>1, <1>2, <1>3, <1>4, AppendArgsCells
<1>9. nums \in [Slots(t.name_pattern) -> NarrowRun]
  BY <1>2, <1>3, NarrowDigits
<1> HIDE DEF nums
<1>10. /\ NumsBuild(u.name_nums, Slots(u.name_pattern), n + 1)
       /\ DecodeNameNums(u.name_nums, n) = nums
       /\ \A i \in 0..(n - 1) :
            DecodeNameNums(u.name_nums, i) = DecodeNameNums(t.name_nums, i)
  <2>1. NumsBuild(t.name_nums, Slots(t.name_pattern), n)
    BY <1>3
  <2>2. nums \in NarrowRow(Slots(t.name_pattern))
    BY <1>9 DEF NarrowRow
  <2>3. NumsPushed(PushNameNums(t.name_nums, nums), t.name_nums,
                   Slots(t.name_pattern), n, nums)
    BY <2>1, <2>2, PushNameNumsRows
  <2> QED
    BY <1>4, <2>3 DEF NumsPushed
<1>11. Building(u, kind, sig, n + 1)
  BY <1>3, <1>4, <1>5, <1>6, <1>7, <1>8, <1>10 DEF Building
<1>12. BuildEvent(u, n) = e
  <2>1. RestoreDigits(u.name_pattern, DecodeNameNums(u.name_nums, n)) = e.name
    BY <1>1, <1>2, <1>3, <1>4, <1>10, NameRoundTrip DEF nums
  <2>2. OrElse(NumGet(u.ts, n), 0) = e.ts
    BY <1>1, <1>5, NoneAssumption DEF OrElse
  <2> QED
    BY <1>1, <1>2, <1>3, <1>4, <1>6, <1>7, <1>8, <2>1, <2>2 DEF BuildEvent
<1>13. ASSUME NEW i \in 0..(n - 1)
       PROVE  BuildEvent(u, i) = BuildEvent(t, i)
  BY <1>4, <1>5, <1>6, <1>7, <1>8, <1>10 DEF BuildEvent
<1> QED
  BY <1>4, <1>11, <1>12, <1>13 DEF sig, u, MergeAppended

\* In addition, u has the coordinates of the old instances, and those of e.
KernelAppended(u, t, kind, e, at, S, Q, n) ==
  /\ Building(u, kind, TemplateSignature(e), n + 1)
  /\ Located(u, S, Q, n + 1)
  /\ BuildEvent(u, n) = e
  /\ NumGet(u.pid, n) = at.pid
  /\ RunGet(u.stream_tid, n) = at.tid /\ RunGet(u.ph, n) = at.ph
  /\ \A i \in 0..(n - 1) :
       /\ BuildEvent(u, i) = BuildEvent(t, i)
       /\ NumGet(u.pid, i) = NumGet(t.pid, i)
       /\ RunGet(u.stream_tid, i) = RunGet(t.stream_tid, i)
       /\ RunGet(u.ph, i) = RunGet(t.ph, i)

\* append_to_kernel: in addition, the new instance is located at its stream.
LEMMA AppendToKernelInstances ==
  ASSUME NEW kind, NEW e \in NarrowEvent, NEW n \in Nat, NEW t,
         Building(t, kind, TemplateSignature(e), n),
         NEW S, NEW Q, NEW at, at.pid \in Int, at.tid \in S, at.ph \in Q,
         Located(t, S, Q, n)
  PROVE  KernelAppended(AppendToKernel(t, e, at), t, kind, e, at, S, Q, n)
<1> DEFINE m == AppendToMerge(t, e)
           u == AppendToKernel(t, e, at)
           sig == TemplateSignature(e)
<1>1. /\ Building(m, kind, sig, n + 1)
      /\ BuildEvent(m, n) = e
      /\ \A i \in 0..(n - 1) : BuildEvent(m, i) = BuildEvent(t, i)
      /\ m.pid = t.pid /\ m.stream_tid = t.stream_tid /\ m.ph = t.ph
  <2>1. MergeAppended(AppendToMerge(t, e), t, kind, e, n)
    BY ONLY AppendToMergeInstances, e \in NarrowEvent, n \in Nat,
            Building(t, kind, TemplateSignature(e), n)
  <2> QED
    BY <2>1 DEF MergeAppended
<1>2. u = [m EXCEPT !.pid = NumPush(@, at.pid), !.stream_tid = RunPush(@, at.tid),
                    !.ph = RunPush(@, at.ph)]
  BY DEF AppendToKernel
<1> HIDE DEF m, u, sig
<1>3. DOMAIN m = Fields
  BY <1>1 DEF Building
<1>4. /\ DOMAIN u = Fields
      /\ u.kind = m.kind /\ u.name_pattern = m.name_pattern /\ u.arg_keys = m.arg_keys
      /\ u.cat = m.cat /\ u.bp = m.bp /\ u.s = m.s
      /\ u.ts = m.ts /\ u.dur = m.dur /\ u.id = m.id
      /\ u.args_columns = m.args_columns /\ u.name_nums = m.name_nums
      /\ u.pid = NumPush(t.pid, at.pid)
      /\ u.stream_tid = RunPush(t.stream_tid, at.tid)
      /\ u.ph = RunPush(t.ph, at.ph)
  <2>1. /\ DOMAIN u = Fields
        /\ u.kind = m.kind /\ u.name_pattern = m.name_pattern /\ u.arg_keys = m.arg_keys
        /\ u.cat = m.cat /\ u.bp = m.bp /\ u.s = m.s
        /\ u.ts = m.ts /\ u.dur = m.dur /\ u.id = m.id
        /\ u.args_columns = m.args_columns /\ u.name_nums = m.name_nums
    BY <1>2, <1>3 DEF Fields
  <2>2. /\ u.pid = NumPush(m.pid, at.pid)
        /\ u.stream_tid = RunPush(m.stream_tid, at.tid)
        /\ u.ph = RunPush(m.ph, at.ph)
    BY <1>2, <1>3 DEF Fields
  <2> QED
    BY <1>1, <2>1, <2>2
<1>5. Building(u, kind, sig, n + 1)
  BY <1>1, <1>4 DEF Building
<1>6. \A i : BuildEvent(u, i) = BuildEvent(m, i)
  BY <1>4 DEF BuildEvent
<1>7. /\ u.pid \in NumColumn /\ NumLen(u.pid) = n + 1 /\ NumGet(u.pid, n) = at.pid
      /\ \A i \in 0..(n - 1) : NumGet(u.pid, i) = NumGet(t.pid, i)
  BY <1>4, NumPushCells DEF Located
<1>8. /\ u.stream_tid \in RunColumn(S) /\ RunLen(u.stream_tid) = n + 1
      /\ RunGet(u.stream_tid, n) = at.tid
      /\ \A i \in 0..(n - 1) : RunGet(u.stream_tid, i) = RunGet(t.stream_tid, i)
  BY <1>4, RunPushCells DEF Located
<1>9. /\ u.ph \in RunColumn(Q) /\ RunLen(u.ph) = n + 1
      /\ RunGet(u.ph, n) = at.ph
      /\ \A i \in 0..(n - 1) : RunGet(u.ph, i) = RunGet(t.ph, i)
  BY <1>4, RunPushCells DEF Located
<1>10. Located(u, S, Q, n + 1)
  BY <1>7, <1>8, <1>9 DEF Located
<1> QED
  BY <1>1, <1>5, <1>6, <1>7, <1>8, <1>9, <1>10 DEF u, sig, KernelAppended

\* A new template is a template under construction with no event.
LEMMA NewTemplateBuilding ==
  ASSUME NEW kind, NEW e, NEW S, NEW Q
  PROVE  /\ Building(NewTemplate(kind, e), kind, TemplateSignature(e), 0)
         /\ Located(NewTemplate(kind, e), S, Q, 0)
<1>1. NumEmpty \in NumColumn /\ NumLen(NumEmpty) = 0
  BY DEF NumColumn, NumLen, NumEmpty
<1>2. /\ RunEmpty \in RunColumn(S) /\ RunEmpty \in RunColumn(Q) /\ RunLen(RunEmpty) = 0
  BY DEF RunColumn, RunLen, RunEmpty
<1>3. ArgEmpty \in ArgBuild /\ Len(ArgEmpty.values) = 0
  BY DEF ArgBuild, ArgEmpty
<1>4. \A P : NumsBuild(NameNumsEmpty, P, 0)
  BY DEF NumsBuild
<1>5. Building(NewTemplate(kind, e), kind, TemplateSignature(e), 0)
  BY <1>1, <1>3, <1>4 DEF Building, NewTemplate, TemplateSignature, Fields
<1> QED
  BY <1>1, <1>2, <1>5 DEF Located, NewTemplate

\* u is a compacted t: every instance reads as before.
Compacted(u, t, kind, n) ==
  /\ DOMAIN u = Fields /\ u.kind = kind
  /\ u.name_pattern = t.name_pattern /\ u.arg_keys = t.arg_keys
  /\ u.ts \in NumColumn /\ NumLen(u.ts) = n
  /\ \A i \in 0..(n - 1) : BuildEvent(u, i) = BuildEvent(t, i)

\* finalize: every instance of a compacted template reads as before.
LEMMA FinalizeInstances ==
  ASSUME NEW kind, NEW sig, NEW n \in Nat, n < U32Mod, NEW t, Building(t, kind, sig, n)
  PROVE  /\ Compacted(CpuTemplate(t), t, kind, n)
         /\ CpuTemplate(t).pid = t.pid
         /\ CpuTemplate(t).stream_tid = t.stream_tid
         /\ CpuTemplate(t).ph = t.ph
<1> DEFINE u == CpuTemplate(t)
<1>1. /\ DOMAIN t = Fields /\ t.kind = kind
      /\ NumsBuild(t.name_nums, Slots(t.name_pattern), n)
      /\ DOMAIN t.args_columns = sig.arg_keys
      /\ \A k \in sig.arg_keys : /\ t.args_columns[k] \in ArgBuild
                                 /\ Len(t.args_columns[k].values) = n
      /\ t.ts \in NumColumn /\ NumLen(t.ts) = n
      /\ t.dur \in NumColumn /\ NumLen(t.dur) \in 0..n
      /\ t.id \in NumColumn /\ NumLen(t.id) \in 0..n
  BY DEF Building
<1>2. /\ DOMAIN u = Fields /\ u.kind = t.kind
      /\ u.name_pattern = t.name_pattern /\ u.arg_keys = t.arg_keys
      /\ u.cat = t.cat /\ u.bp = t.bp /\ u.s = t.s
      /\ u.ts = NumCompact(t.ts) /\ u.dur = NumCompact(t.dur) /\ u.id = NumCompact(t.id)
      /\ u.args_columns = FinalizeArgs(t.args_columns)
      /\ u.name_nums = FinalizeNameNums(t.name_nums)
      /\ u.pid = t.pid /\ u.stream_tid = t.stream_tid /\ u.ph = t.ph
  BY <1>1 DEF CpuTemplate, Fields
<1> HIDE DEF u
<1>3. ASSUME NEW c \in NumColumn, NumLen(c) \in 0..n
      PROVE  /\ NumCompact(c) \in NumColumn /\ NumLen(NumCompact(c)) = NumLen(c)
             /\ \A i \in Nat : NumGet(NumCompact(c), i) = NumGet(c, i)
  <2>1. NumLen(c) < U32Mod
    BY <1>3, WidthAssumption
  <2>2. /\ NumCompact(c) \in NumColumn /\ NumLen(NumCompact(c)) = NumLen(c)
        /\ \A i \in 0..(NumLen(c) - 1) : NumGet(NumCompact(c), i) = NumGet(c, i)
    BY <2>1, NumCompactCells
  <2>3. ASSUME NEW d \in NumColumn, NEW i \in Nat, i \notin 0..(NumLen(d) - 1)
        PROVE  NumGet(d, i) = None
    BY <2>3 DEF NumColumn, NumLen, NumGet, At
  <2> QED
    BY <2>2, <2>3
<1>4. \A i \in 0..(n - 1) : DecodeArgs(u.args_columns, i) = DecodeArgs(t.args_columns, i)
  <2>1. CASE ~EnableArgsDedup
    BY <1>2, <2>1 DEF FinalizeArgs
  <2>2. CASE EnableArgsDedup
    <3>1. /\ DOMAIN u.args_columns = sig.arg_keys
          /\ \A k \in sig.arg_keys : u.args_columns[k] = ArgCompact(t.args_columns[k])
      BY <1>1, <1>2, <2>2 DEF FinalizeArgs
    <3>2. ASSUME NEW i \in 0..(n - 1), NEW k \in sig.arg_keys
          PROVE  ArgGet(u.args_columns[k], i) = ArgGet(t.args_columns[k], i)
      BY <1>1, <3>1, ArgCompactCells
    <3> QED
      BY <1>1, <3>1, <3>2 DEF DecodeArgs
  <2> QED
    BY <2>1, <2>2
<1>5. \A i \in 0..(n - 1) : DecodeNameNums(u.name_nums, i) = DecodeNameNums(t.name_nums, i)
  BY <1>1, <1>2, CompressNameNumsRows DEF FinalizeNameNums
<1>6. ASSUME NEW i \in 0..(n - 1)
      PROVE  BuildEvent(u, i) = BuildEvent(t, i)
  <2>1. NumGet(u.ts, i) = NumGet(t.ts, i)
    BY <1>1, <1>2, <1>3
  <2>2. NumGet(u.dur, i) = NumGet(t.dur, i)
    BY <1>1, <1>2, <1>3
  <2>3. NumGet(u.id, i) = NumGet(t.id, i)
    BY <1>1, <1>2, <1>3
  <2> QED
    BY <1>2, <1>4, <1>5, <2>1, <2>2, <2>3 DEF BuildEvent
<1>7. u.ts \in NumColumn /\ NumLen(u.ts) = n
  BY <1>1, <1>2, <1>3
<1> QED
  BY <1>1, <1>2, <1>6, <1>7 DEF u, Compacted

SameCoordinates(u, t, n) ==
  \A i \in 0..(n - 1) : /\ NumGet(u.pid, i) = NumGet(t.pid, i)
                        /\ RunGet(u.stream_tid, i) = RunGet(t.stream_tid, i)
                        /\ RunGet(u.ph, i) = RunGet(t.ph, i)

\* The same for a GPU template, whose coordinates are compacted as well.
LEMMA FinalizeGpuInstances ==
  ASSUME NEW kind, NEW sig, NEW n \in Nat, n < U32Mod, NEW t, Building(t, kind, sig, n),
         NEW S, NEW Q, Located(t, S, Q, n)
  PROVE  Compacted(GpuTemplate(t), t, kind, n) /\ SameCoordinates(GpuTemplate(t), t, n)
<1> DEFINE c == CpuTemplate(t)
           u == GpuTemplate(t)
<1>1. /\ DOMAIN c = Fields /\ c.kind = kind
      /\ c.name_pattern = t.name_pattern /\ c.arg_keys = t.arg_keys
      /\ c.ts \in NumColumn /\ NumLen(c.ts) = n
      /\ \A i \in 0..(n - 1) : BuildEvent(c, i) = BuildEvent(t, i)
      /\ c.pid = t.pid /\ c.stream_tid = t.stream_tid /\ c.ph = t.ph
  BY FinalizeInstances DEF Compacted
<1>2. u = [c EXCEPT !.pid = NumCompact(@), !.stream_tid = RunCompact(@),
                    !.ph = RunCompact(@)]
  BY DEF GpuTemplate
<1> HIDE DEF c, u
<1>3. /\ DOMAIN u = Fields /\ u.kind = c.kind
      /\ u.name_pattern = c.name_pattern /\ u.arg_keys = c.arg_keys
      /\ u.cat = c.cat /\ u.bp = c.bp /\ u.s = c.s
      /\ u.ts = c.ts /\ u.dur = c.dur /\ u.id = c.id
      /\ u.args_columns = c.args_columns /\ u.name_nums = c.name_nums
      /\ u.pid = NumCompact(t.pid)
      /\ u.stream_tid = RunCompact(t.stream_tid)
      /\ u.ph = RunCompact(t.ph)
  BY <1>1, <1>2 DEF Fields
<1>4. \A i : BuildEvent(u, i) = BuildEvent(c, i)
  BY <1>3 DEF BuildEvent
<1>5. \A i \in 0..(n - 1) : /\ NumGet(u.pid, i) = NumGet(t.pid, i)
                           /\ RunGet(u.stream_tid, i) = RunGet(t.stream_tid, i)
                           /\ RunGet(u.ph, i) = RunGet(t.ph, i)
  BY <1>3, NumCompactCells, RunCompactCells DEF Located
<1> QED
  BY <1>1, <1>3, <1>4, <1>5 DEF u, Compacted, SameCoordinates

-----------------------------------------------------------------------------
\* Sequences whose elements have no common set.

\* Append extends such a sequence by one element.
LEMMA AppendAny ==
  ASSUME NEW s, IsList(s), NEW x
  PROVE  /\ IsList(Append(s, x))
         /\ Len(s) \in Nat /\ DOMAIN s = 1..Len(s)
         /\ Len(Append(s, x)) = Len(s) + 1
         /\ DOMAIN Append(s, x) = 1..(Len(s) + 1)
         /\ Append(s, x)[Len(s) + 1] = x
         /\ \A n \in DOMAIN s : Append(s, x)[n] = s[n]
<1> DEFINE S == {s[n] : n \in DOMAIN s} \cup {x}
           a == Append(s, x)
<1>1. s \in Seq({s[n] : n \in DOMAIN s})
  BY DEF IsList
<1>2. s \in Seq(S)
  BY <1>1
<1>3. a \in Seq(S) /\ Len(a) = Len(s) + 1 /\ DOMAIN a = 1..(Len(s) + 1)
  BY <1>2
<1>4. \A n \in DOMAIN a : a[n] \in {a[m] : m \in DOMAIN a}
  OBVIOUS
<1>5. a \in Seq({a[m] : m \in DOMAIN a})
  BY <1>3, <1>4
<1>6. IsList(Append(s, x))
  BY <1>5 DEF IsList
<1>7. a[Len(s) + 1] = x /\ \A n \in DOMAIN s : a[n] = s[n]
  BY <1>2
<1>8. Len(s) \in Nat /\ DOMAIN s = 1..Len(s)
  BY <1>1
<1> QED
  BY <1>3, <1>6, <1>7, <1>8

\* Replacing an element keeps the length and the others.
LEMMA ReplaceAny ==
  ASSUME NEW s, IsList(s), NEW k \in DOMAIN s, NEW x
  PROVE  LET r == [s EXCEPT ![k] = x]
         IN  /\ IsList(r)
             /\ Len(r) = Len(s) /\ DOMAIN r = DOMAIN s
             /\ r[k] = x
             /\ \A n \in DOMAIN s : n # k => r[n] = s[n]
<1> DEFINE r == [s EXCEPT ![k] = x]
<1>1. s \in Seq({s[n] : n \in DOMAIN s}) /\ DOMAIN s = 1..Len(s) /\ Len(s) \in Nat
  BY DEF IsList
<1>2. DOMAIN r = 1..Len(s) /\ r[k] = x /\ \A n \in DOMAIN s : n # k => r[n] = s[n]
  BY <1>1
<1>3. r = [n \in 1..Len(s) |-> r[n]]
  BY <1>1, <1>2
<1> HIDE DEF r
<1>4. r \in Seq({r[n] : n \in DOMAIN r}) /\ Len(r) = Len(s)
  BY <1>1, <1>2, <1>3
<1> QED
  BY <1>1, <1>2, <1>4 DEF IsList, r

-----------------------------------------------------------------------------
\* One template of the table.

Kinds == {"cpu", "gpu"}

\* A template the interner may append to; its counts fit the bound.
Open(t, kind, sig, bound) ==
  /\ NumLen(t.ts) \in 0..bound
  /\ Building(t, kind, sig, NumLen(t.ts))
  /\ kind = "gpu" => Located(t, Tids, Phases, NumLen(t.ts))

\* The instance of t reads as the event e at the stream `at`.
Holds(t, at, instance, e) ==
  /\ instance \in 0..(NumLen(t.ts) - 1)
  /\ BuildEvent(t, instance) = e
  /\ t.kind = "gpu" => /\ NumGet(t.pid, instance) = at.pid
                       /\ RunGet(t.stream_tid, instance) = at.tid
                       /\ RunGet(t.ph, instance) = at.ph

\* Whatever t holds, u holds.
Keeps(t, u) ==
  /\ u.kind = t.kind /\ u.name_pattern = t.name_pattern /\ u.arg_keys = t.arg_keys
  /\ \A at, instance, e : Holds(t, at, instance, e) => Holds(u, at, instance, e)

AppendTo(kind, t, e, at) ==
  IF kind = "gpu" THEN AppendToKernel(t, e, at) ELSE AppendToMerge(t, e)

\* Appending an event to a template of its signature: the event is the next
\* instance, and the template still holds what it held.
LEMMA AppendHolds ==
  ASSUME NEW kind \in Kinds, NEW e \in NarrowEvent, NEW at \in Coordinate,
         NEW bound \in Nat, NEW t, Open(t, kind, TemplateSignature(e), bound)
  PROVE  /\ Open(AppendTo(kind, t, e, at), kind, TemplateSignature(e), bound + 1)
         /\ Holds(AppendTo(kind, t, e, at), at, NumLen(t.ts), e)
         /\ Keeps(t, AppendTo(kind, t, e, at))
         /\ NumLen(AppendTo(kind, t, e, at).ts) = NumLen(t.ts) + 1
<1> DEFINE u == AppendTo(kind, t, e, at)
           n == NumLen(t.ts)
           sig == TemplateSignature(e)
<1>1. n \in 0..bound /\ n \in Nat /\ Building(t, kind, sig, n)
  BY DEF Open
<1>2. at.pid \in Int /\ at.tid \in Tids /\ at.ph \in Phases
  BY DEF Coordinate
<1>3. /\ Building(u, kind, sig, n + 1)
      /\ kind = "gpu" => Located(u, Tids, Phases, n + 1)
      /\ BuildEvent(u, n) = e
      /\ kind = "gpu" => /\ NumGet(u.pid, n) = at.pid
                         /\ RunGet(u.stream_tid, n) = at.tid
                         /\ RunGet(u.ph, n) = at.ph
      /\ \A i \in 0..(n - 1) :
           /\ BuildEvent(u, i) = BuildEvent(t, i)
           /\ kind = "gpu" => /\ NumGet(u.pid, i) = NumGet(t.pid, i)
                              /\ RunGet(u.stream_tid, i) = RunGet(t.stream_tid, i)
                              /\ RunGet(u.ph, i) = RunGet(t.ph, i)
  <2>1. CASE kind = "gpu"
    <3>1. Located(t, Tids, Phases, n) /\ u = AppendToKernel(t, e, at)
      BY <2>1 DEF Open, AppendTo
    <3> HIDE DEF n, u
    <3>2. KernelAppended(u, t, kind, e, at, Tids, Phases, n)
      BY <1>1, <1>2, <3>1, AppendToKernelInstances
    <3> QED
      BY <2>1, <3>2 DEF KernelAppended
  <2>2. CASE kind = "cpu"
    <3>1. u = AppendToMerge(t, e)
      BY <2>2 DEF AppendTo
    <3> HIDE DEF n, u
    <3>2. MergeAppended(u, t, kind, e, n)
      BY <1>1, <3>1, AppendToMergeInstances
    <3> QED
      BY <2>2, <3>2 DEF MergeAppended
  <2> QED
    BY <2>1, <2>2 DEF Kinds
<1> HIDE DEF u, n
<1>4. /\ NumLen(u.ts) = n + 1 /\ u.kind = kind /\ t.kind = kind
      /\ u.name_pattern = t.name_pattern /\ u.arg_keys = t.arg_keys
  BY <1>1, <1>3 DEF Building
<1>5. Open(u, kind, sig, bound + 1)
  BY <1>1, <1>3, <1>4 DEF Open
<1>6. Holds(u, at, n, e)
  BY <1>1, <1>3, <1>4 DEF Holds
<1>7. Keeps(t, u)
  <2> SUFFICES ASSUME NEW there, NEW i, NEW f, Holds(t, there, i, f)
               PROVE  Holds(u, there, i, f)
    BY <1>4 DEF Keeps
  <2>1. i \in 0..(n - 1) /\ i \in 0..(NumLen(u.ts) - 1)
    BY <1>1, <1>4 DEF Holds, n
  <2> QED
    BY <1>3, <1>4, <2>1 DEF Holds
<1> QED
  BY <1>4, <1>5, <1>6, <1>7 DEF u, n

\* A new template with its first event.
LEMMA NewHolds ==
  ASSUME NEW kind \in Kinds, NEW e \in NarrowEvent, NEW at \in Coordinate, NEW bound \in Nat
  PROVE  /\ NumLen(NewTemplate(kind, e).ts) = 0
         /\ Open(AppendTo(kind, NewTemplate(kind, e), e, at), kind,
                 TemplateSignature(e), bound + 1)
         /\ Holds(AppendTo(kind, NewTemplate(kind, e), e, at), at, 0, e)
         /\ NumLen(AppendTo(kind, NewTemplate(kind, e), e, at).ts) = 1
<1> DEFINE new == NewTemplate(kind, e)
<1>1. Building(new, kind, TemplateSignature(e), 0) /\ Located(new, Tids, Phases, 0)
  BY NewTemplateBuilding
<1>2. NumLen(new.ts) = 0
  BY <1>1 DEF Building
<1> HIDE DEF new
<1>3. Open(new, kind, TemplateSignature(e), bound)
  BY <1>1, <1>2 DEF Open
<1> QED
  BY <1>2, <1>3, AppendHolds DEF new

\* Compaction of a template keeps what it holds.
LEMMA FinalizeHolds ==
  ASSUME NEW kind \in Kinds, NEW sig, NEW bound \in Nat, bound < U32Mod,
         NEW t, Open(t, kind, sig, bound)
  PROVE  Keeps(t, Compact(t))
<1> DEFINE u == Compact(t)
           n == NumLen(t.ts)
<1>1. n \in Nat /\ n < U32Mod /\ Building(t, kind, sig, n)
  BY WidthAssumption DEF Open
<1>2. t.kind = kind
  BY <1>1 DEF Building
<1>3. /\ u.kind = kind /\ NumLen(u.ts) = n
      /\ u.name_pattern = t.name_pattern /\ u.arg_keys = t.arg_keys
      /\ \A i \in 0..(n - 1) :
           /\ BuildEvent(u, i) = BuildEvent(t, i)
           /\ kind = "gpu" => /\ NumGet(u.pid, i) = NumGet(t.pid, i)
                              /\ RunGet(u.stream_tid, i) = RunGet(t.stream_tid, i)
                              /\ RunGet(u.ph, i) = RunGet(t.ph, i)
  <2>1. CASE kind = "gpu"
    <3>1. Located(t, Tids, Phases, n) /\ u = GpuTemplate(t)
      BY <1>2, <2>1 DEF Open, Compact
    <3> HIDE DEF n, u
    <3>2. Compacted(u, t, kind, n) /\ SameCoordinates(u, t, n)
      BY <1>1, <3>1, FinalizeGpuInstances
    <3> QED
      BY <3>2 DEF Compacted, SameCoordinates
  <2>2. CASE kind = "cpu"
    <3>1. u = CpuTemplate(t)
      BY <1>2, <2>2 DEF Compact
    <3> HIDE DEF n, u
    <3>2. Compacted(u, t, kind, n)
      BY <1>1, <3>1, FinalizeInstances
    <3> QED
      BY <2>2, <3>2 DEF Compacted
  <2> QED
    BY <2>1, <2>2 DEF Kinds
<1> HIDE DEF u
<1> QED
  BY <1>2, <1>3 DEF Keeps, Holds, u

-----------------------------------------------------------------------------
\* The inductive invariant.

Reference == [template : Nat, instance : Nat]

IndexFor(kind) == IF kind = "gpu" THEN gpuIndex ELSE cpuIndex

Shape ==
  /\ phase \in {"idle", "interning", "finalizing", "done"}
  /\ trace \in Traces \cup {<<>>}
  /\ interned \in 0..MaxEvents
  /\ DOMAIN ranks = DOMAIN trace
  /\ \A i \in DOMAIN trace :
       ranks[i] \in Seq(Reference) /\ Len(ranks[i]) <= Len(trace[i].events)
  /\ IsList(templates) /\ Len(templates) <= interned
  /\ finalized \subseteq DOMAIN templates
  /\ phase = "interning" => finalized = {}
  /\ phase \in {"idle", "done"} => templates = <<>>

\* A signature leads to the template that is built for it, and no other does.
IndexInv ==
  phase \in {"interning", "finalizing"} =>
    /\ \A kind \in Kinds : \A sig \in DOMAIN IndexFor(kind) :
         LET n == IndexFor(kind)[sig] + 1
         IN  /\ IndexFor(kind)[sig] \in 0..(Len(templates) - 1)
             /\ templates[n].kind = kind
             /\ templates[n].name_pattern = sig.normalized_name
             /\ templates[n].arg_keys = sig.arg_keys
             /\ n \notin finalized => Open(templates[n], kind, sig, interned)
    /\ \A kind \in Kinds : \A sig, other \in DOMAIN IndexFor(kind) :
         IndexFor(kind)[sig] = IndexFor(kind)[other] => sig = other
    /\ \A n \in DOMAIN templates : \E kind \in Kinds :
         \E sig \in DOMAIN IndexFor(kind) : IndexFor(kind)[sig] = n - 1

\* The template a reference names holds the event the reference stands for.
Refers(tpls, i, k) ==
  LET r == ranks[i][k]
      t == tpls[r.template + 1]
  IN  /\ r.template + 1 \in DOMAIN tpls
      /\ t.kind = KindOf(i)
      /\ Holds(t, trace[i].at, r.instance, trace[i].events[k])

RefInv ==
  \A i \in DOMAIN trace : \A k \in 1..Len(ranks[i]) : Refers(Table, i, k)

IInv == Shape /\ IndexInv /\ RefInv

\* What the invariant and the assumptions say of the streams of the trace.
LEMMA StreamFacts ==
  ASSUME Shape, NEW i \in DOMAIN trace
  PROVE  /\ trace \in Seq(Stream) /\ i \in 1..Len(trace)
         /\ trace[i].at \in Coordinate
         /\ trace[i].events \in Seq(Event)
         /\ \A k \in 1..Len(trace[i].events) : trace[i].events[k] \in NarrowEvent
         /\ KindOf(i) \in Kinds /\ (IsGpu(i) <=> KindOf(i) = "gpu")
         /\ ranks[i] \in Seq(Reference) /\ Len(ranks[i]) \in Nat
<1>1. trace \in Traces /\ trace \in Seq(Stream)
  BY TraceAssumption DEF Shape
<1>2. i \in 1..Len(trace) /\ trace[i] \in Stream
  BY <1>1
<1>3. trace[i].at \in Coordinate /\ trace[i].events \in Seq(Event)
  BY <1>2 DEF Stream
<1>4. ASSUME NEW k \in 1..Len(trace[i].events)
      PROVE  trace[i].events[k] \in NarrowEvent
  <2>1. trace[i].events[k] \in Event
    BY <1>3
  <2>2. LET name == trace[i].events[k].name
        IN  \A p \in 1..Len(name) : name[p] \in DigitRun => name[p] \in NarrowRun
    BY <1>1, <1>2, PaddingAssumption
  <2> QED
    BY <2>1, <2>2 DEF NarrowEvent
<1> QED
  BY <1>1, <1>2, <1>3, <1>4 DEF KindOf, Kinds, Shape

\* The event about to be interned, and the room left for it.
LEMMA CurrentFacts ==
  ASSUME Shape, NEW i \in DOMAIN trace, IsCurrent(i)
  PROVE  /\ CurrentEvent(i) \in NarrowEvent
         /\ Len(ranks[i]) + 1 <= Len(trace[i].events)
         /\ phase = "interning" /\ finalized = {} /\ Table = templates
         /\ interned \in Nat /\ interned < MaxEvents
         /\ interned + 1 \in 0..MaxEvents /\ interned < U32Mod
         /\ \A t : AppendEvent(t, i) = AppendTo(KindOf(i), t, CurrentEvent(i), trace[i].at)
<1>1. Len(ranks[i]) # Len(trace[i].events) /\ interned < MaxEvents /\ phase = "interning"
  BY DEF IsCurrent, StreamDone
<1>2. /\ Len(ranks[i]) \in Nat /\ Len(ranks[i]) <= Len(trace[i].events)
      /\ Len(trace[i].events) \in Nat
  BY StreamFacts DEF Shape
<1>3. Len(ranks[i]) + 1 \in 1..Len(trace[i].events)
  BY <1>1, <1>2
<1>4. CurrentEvent(i) \in NarrowEvent
  BY <1>3, StreamFacts DEF CurrentEvent
<1>5. interned \in Nat /\ interned + 1 \in 0..MaxEvents /\ interned < U32Mod
  BY <1>1, CapacityAssumption, WidthAssumption DEF Shape
<1>6. \A t : AppendEvent(t, i) = AppendTo(KindOf(i), t, CurrentEvent(i), trace[i].at)
  BY DEF AppendEvent, AppendTo, KindOf
<1> QED
  BY <1>1, <1>3, <1>4, <1>5, <1>6 DEF Shape, Table

\* Recording a reference to an instance that holds the current event, while no
\* template loses anything, keeps the references right.
LEMMA RecordRefs ==
  ASSUME Shape, RefInv, NEW i \in DOMAIN trace, IsCurrent(i),
         phase' = phase, trace' = trace, NEW r \in Reference,
         ranks' = [ranks EXCEPT ![i] = Append(@, r)],
         DOMAIN templates \subseteq DOMAIN templates',
         \A m \in DOMAIN templates : Keeps(templates[m], templates'[m]),
         r.template + 1 \in DOMAIN templates',
         templates'[r.template + 1].kind = KindOf(i),
         Holds(templates'[r.template + 1], trace[i].at, r.instance, CurrentEvent(i))
  PROVE  /\ RefInv'
         /\ DOMAIN ranks' = DOMAIN trace
         /\ \A j \in DOMAIN trace :
              ranks'[j] \in Seq(Reference) /\ Len(ranks'[j]) <= Len(trace[j].events)
<1>1. DOMAIN ranks = DOMAIN trace /\ DOMAIN ranks' = DOMAIN trace
  BY DEF Shape
<1>2. Table = templates /\ Table' = templates'
  BY CurrentFacts DEF Table
<1>3. ranks'[i] = Append(ranks[i], r) /\ \A j \in DOMAIN trace : j # i => ranks'[j] = ranks[j]
  BY <1>1
<1>4. ranks[i] \in Seq(Reference) /\ Len(ranks[i]) + 1 <= Len(trace[i].events)
  BY StreamFacts, CurrentFacts
<1>5. ranks'[i] \in Seq(Reference) /\ Len(ranks'[i]) = Len(ranks[i]) + 1
  BY <1>3, <1>4
<1>6. \A j \in DOMAIN trace : KindOf(j)' = KindOf(j)
  BY DEF KindOf, IsGpu
<1>7. ASSUME NEW j \in DOMAIN trace, NEW k \in 1..Len(ranks'[j])
      PROVE  Refers(Table, j, k)'
  <2>1. CASE j = i /\ k = Len(ranks[i]) + 1
    <3>1. ranks'[j][k] = r /\ trace[j].events[k] = CurrentEvent(i)
      BY <1>3, <1>4, <2>1 DEF CurrentEvent
    <3> QED
      BY <1>2, <1>6, <2>1, <3>1 DEF Refers
  <2>2. CASE ~(j = i /\ k = Len(ranks[i]) + 1)
    <3>1. k \in 1..Len(ranks[j]) /\ ranks'[j][k] = ranks[j][k]
      <4>1. CASE j = i
        <5>1. k \in 1..Len(ranks[i])
          BY <1>4, <1>5, <2>2, <4>1
        <5> QED
          BY <1>3, <1>4, <4>1, <5>1
      <4>2. CASE j # i
        BY <1>3, <4>2
      <4> QED
        BY <4>1, <4>2
    <3>2. Refers(Table, j, k)
      BY <3>1 DEF RefInv
    <3> DEFINE n == ranks[j][k].template + 1
    <3>3. /\ n \in DOMAIN templates /\ templates[n].kind = KindOf(j)
          /\ Holds(templates[n], trace[j].at, ranks[j][k].instance, trace[j].events[k])
      BY <1>2, <3>2 DEF Refers
    <3> HIDE DEF n
    <3>4. /\ n \in DOMAIN templates' /\ templates'[n].kind = KindOf(j)
          /\ Holds(templates'[n], trace[j].at, ranks[j][k].instance, trace[j].events[k])
      BY <3>3 DEF Keeps
    <3> QED
      BY <1>2, <1>6, <3>1, <3>4 DEF Refers, n
  <2> QED
    BY <2>1, <2>2
<1>8. RefInv'
  BY <1>7 DEF RefInv
<1> QED
  BY <1>1, <1>3, <1>4, <1>5, <1>8 DEF Shape

-----------------------------------------------------------------------------
\* One lemma per step.

\* A template that is open stays so under a larger bound.
LEMMA OpenGrows ==
  ASSUME NEW t, NEW kind, NEW sig, NEW bound \in Nat, Open(t, kind, sig, bound)
  PROVE  Open(t, kind, sig, bound + 1)
BY DEF Open

\* intern_*_template, signature known: it leads to an open template of the right
\* kind, which takes the event.
LEMMA KnownStep ==
  ASSUME IInv, NEW i \in DOMAIN trace, InternKnown(i, IndexFor(KindOf(i)))
  PROVE  IInv'
<1> DEFINE kind == KindOf(i)
           e == CurrentEvent(i)
           at == trace[i].at
           sig == TemplateSignature(e)
           tid == IndexFor(kind)[sig]
           n == tid + 1
           t == templates[n]
           u == AppendEvent(t, i)
           r == [template |-> tid, instance |-> AsU32(InstanceCount(t))]
<1>1. /\ IsCurrent(i) /\ sig \in DOMAIN IndexFor(kind)
      /\ cpuIndex' = cpuIndex /\ gpuIndex' = gpuIndex
  BY DEF InternKnown
<1>2. Shape /\ IndexInv /\ RefInv
  BY DEF IInv
<1>3. /\ e \in NarrowEvent /\ at \in Coordinate /\ kind \in Kinds
      /\ phase = "interning" /\ finalized = {}
      /\ interned \in Nat /\ interned + 1 \in 0..MaxEvents /\ interned < U32Mod
      /\ u = AppendTo(kind, t, e, at)
  BY <1>1, <1>2, CurrentFacts, StreamFacts
<1>4. /\ tid \in 0..(Len(templates) - 1) /\ t.kind = kind
      /\ Open(t, kind, sig, interned)
  BY <1>1, <1>2, <1>3 DEF IndexInv
<1>5. /\ IsList(templates) /\ Len(templates) \in Nat
      /\ DOMAIN templates = 1..Len(templates) /\ Len(templates) <= interned
  BY <1>2, AppendAny DEF Shape
<1>6. tid \in Nat /\ n \in DOMAIN templates
  BY <1>4, <1>5
<1>7. /\ templates' = [templates EXCEPT ![n] = u]
      /\ ranks' = [ranks EXCEPT ![i] = Append(@, r)]
      /\ interned' = interned + 1
      /\ trace' = trace /\ finalized' = finalized /\ table' = table /\ phase' = phase
  <2>1. t.name_nums.tag # "Columnar"
    BY <1>4 DEF Open, Building, NumsBuild, NameNumsEmpty
  <2> QED
    BY <1>4, <1>6, <2>1 DEF InternKnown, Record
<1>8. InstanceCount(t) \in Nat /\ AsU32(InstanceCount(t)) = NumLen(t.ts)
  <2>1. NumLen(t.ts) \in 0..interned
    BY <1>4 DEF Open
  <2>2. NumLen(t.ts) \in Nat /\ NumLen(t.ts) < U32Mod
    BY <1>3, <2>1, WidthAssumption
  <2> QED
    BY <2>2, AsU32Exact DEF InstanceCount
<1>9. r \in Reference /\ r.template = tid /\ r.instance = NumLen(t.ts)
  BY <1>6, <1>8 DEF Reference, InstanceCount
<1> HIDE DEF r, tid, u, at, kind, e
<1>10. /\ Open(u, kind, sig, interned + 1) /\ Holds(u, at, NumLen(t.ts), e) /\ Keeps(t, u)
  BY <1>3, <1>4, AppendHolds
<1>11. u.kind = kind
  BY <1>4, <1>10 DEF Keeps
<1> HIDE DEF n, sig
<1>12. /\ IsList(templates') /\ Len(templates') = Len(templates)
       /\ DOMAIN templates' = DOMAIN templates /\ templates'[n] = u
       /\ \A m \in DOMAIN templates : m # n => templates'[m] = templates[m]
  BY <1>5, <1>6, <1>7, ReplaceAny
<1>13. \A m \in DOMAIN templates : Keeps(templates[m], templates'[m])
  BY <1>10, <1>12 DEF Keeps
<1>14. /\ RefInv'
       /\ DOMAIN ranks' = DOMAIN trace
       /\ \A j \in DOMAIN trace :
            ranks'[j] \in Seq(Reference) /\ Len(ranks'[j]) <= Len(trace[j].events)
  <2>1. /\ r.template + 1 \in DOMAIN templates'
        /\ templates'[r.template + 1].kind = KindOf(i)
        /\ Holds(templates'[r.template + 1], trace[i].at, r.instance, CurrentEvent(i))
    BY <1>6, <1>9, <1>10, <1>11, <1>12 DEF n, kind, at, e
  <2> QED
    BY <1>1, <1>2, <1>7, <1>9, <1>12, <1>13, <2>1, RecordRefs
<1>15. Shape'
  BY <1>2, <1>3, <1>5, <1>7, <1>12, <1>14 DEF Shape
<1>16. IndexInv'
  <2>1. \A k \in Kinds : IndexFor(k)' = IndexFor(k)
    BY <1>1 DEF IndexFor
  <2>2. ASSUME NEW k \in Kinds, NEW s \in DOMAIN IndexFor(k)
        PROVE  LET m == IndexFor(k)[s] + 1
               IN  /\ IndexFor(k)[s] \in 0..(Len(templates') - 1)
                   /\ templates'[m].kind = k
                   /\ templates'[m].name_pattern = s.normalized_name
                   /\ templates'[m].arg_keys = s.arg_keys
                   /\ Open(templates'[m], k, s, interned')
    <3> DEFINE m == IndexFor(k)[s] + 1
    <3>1. /\ IndexFor(k)[s] \in 0..(Len(templates) - 1)
          /\ templates[m].kind = k
          /\ templates[m].name_pattern = s.normalized_name
          /\ templates[m].arg_keys = s.arg_keys
          /\ Open(templates[m], k, s, interned)
      BY <1>2, <1>3 DEF IndexInv
    <3>2. m \in DOMAIN templates
      BY <1>5, <3>1
    <3>3. CASE m = n
      <4>1. k = kind /\ IndexFor(k)[s] = tid
        BY <1>4, <1>5, <1>6, <3>1, <3>3 DEF n
      <4>2. s = sig
        BY <1>1, <1>2, <1>3, <4>1 DEF IndexInv, tid, kind
      <4>3. templates[m] = t /\ templates'[m] = u
        BY <1>12, <3>3
      <4>4. /\ u.name_pattern = t.name_pattern /\ u.arg_keys = t.arg_keys
            /\ u.kind = kind /\ Open(u, kind, sig, interned')
        BY <1>7, <1>10, <1>11 DEF Keeps
      <4> QED
        BY <1>12, <3>1, <4>1, <4>2, <4>3, <4>4
    <3>4. CASE m # n
      <4>1. templates'[m] = templates[m]
        BY <1>12, <3>2, <3>4
      <4>2. Open(templates[m], k, s, interned')
        BY <1>3, <1>7, <3>1, OpenGrows
      <4> QED
        BY <1>12, <3>1, <4>1, <4>2
    <3> QED
      BY <3>3, <3>4
  <2>3. \A m \in DOMAIN templates' : \E k \in Kinds :
          \E s \in DOMAIN IndexFor(k) : IndexFor(k)[s] = m - 1
    BY <1>2, <1>3, <1>12 DEF IndexInv
  <2>4. \A k \in Kinds : \A s, other \in DOMAIN IndexFor(k) :
          IndexFor(k)[s] = IndexFor(k)[other] => s = other
    BY <1>2, <1>3 DEF IndexInv
  <2> QED
    BY <2>1, <2>2, <2>3, <2>4 DEF IndexInv
<1> QED
  BY <1>14, <1>15, <1>16 DEF IInv

\* intern_*_template, signature new: the table grows by an open template that
\* holds the event, and the index of its kind by its id.
LEMMA NewStep ==
  ASSUME IInv, NEW i \in DOMAIN trace, NEW kind \in Kinds, kind = KindOf(i),
         InternNew(i, IndexFor(kind)),
         \A k \in Kinds :
           IndexFor(k)' =
             IF k = kind
             THEN Indexed(IndexFor(k), CurrentEvent(i), AsU32(Len(templates)))
             ELSE IndexFor(k)
  PROVE  IInv'
<1> DEFINE e == CurrentEvent(i)
           at == trace[i].at
           sig == TemplateSignature(e)
           new == NewTemplate(kind, e)
           u == AppendEvent(new, i)
           tid == AsU32(Len(templates))
           r == [template |-> tid, instance |-> AsU32(InstanceCount(new))]
<1>1. /\ IsCurrent(i) /\ sig \notin DOMAIN IndexFor(kind)
      /\ templates' = Append(templates, u)
      /\ ranks' = [ranks EXCEPT ![i] = Append(@, r)]
      /\ interned' = interned + 1
      /\ trace' = trace /\ finalized' = finalized /\ table' = table /\ phase' = phase
  BY DEF InternNew, Record
<1>2. Shape /\ IndexInv /\ RefInv
  BY DEF IInv
<1>3. /\ e \in NarrowEvent /\ at \in Coordinate /\ kind \in Kinds
      /\ phase = "interning" /\ finalized = {}
      /\ interned \in Nat /\ interned + 1 \in 0..MaxEvents /\ interned < U32Mod
      /\ u = AppendTo(kind, new, e, at)
  BY <1>1, <1>2, CurrentFacts, StreamFacts
<1>4. /\ IsList(templates) /\ Len(templates) \in Nat
      /\ DOMAIN templates = 1..Len(templates) /\ Len(templates) <= interned
  BY <1>2, AppendAny DEF Shape
<1>5. tid = Len(templates) /\ AsU32(0) = 0
  BY <1>3, <1>4, WidthAssumption, AsU32Exact
<1> HIDE DEF u, at, e
<1>6. /\ NumLen(new.ts) = 0
      /\ Open(u, kind, sig, interned + 1) /\ Holds(u, at, 0, e)
  BY <1>3, NewHolds
<1>7. r \in Reference /\ r.template = Len(templates) /\ r.instance = 0
  BY <1>4, <1>5, <1>6 DEF Reference, InstanceCount
<1>8. /\ u.kind = kind /\ u.name_pattern = sig.normalized_name
      /\ u.arg_keys = sig.arg_keys
  BY <1>6 DEF Open, Building
<1> HIDE DEF new, r, tid, sig
<1>9. /\ IsList(templates') /\ Len(templates') = Len(templates) + 1
      /\ DOMAIN templates' = 1..(Len(templates) + 1)
      /\ templates'[Len(templates) + 1] = u
      /\ \A m \in DOMAIN templates : templates'[m] = templates[m]
  BY <1>1, <1>4, AppendAny
<1>10. \A m \in DOMAIN templates : Keeps(templates[m], templates'[m])
  BY <1>9 DEF Keeps
<1>11. /\ RefInv'
       /\ DOMAIN ranks' = DOMAIN trace
       /\ \A j \in DOMAIN trace :
            ranks'[j] \in Seq(Reference) /\ Len(ranks'[j]) <= Len(trace[j].events)
  <2>1. /\ r.template + 1 \in DOMAIN templates'
        /\ templates'[r.template + 1].kind = KindOf(i)
        /\ Holds(templates'[r.template + 1], trace[i].at, r.instance, CurrentEvent(i))
    BY <1>4, <1>6, <1>7, <1>8, <1>9 DEF at, e
  <2>2. DOMAIN templates \subseteq DOMAIN templates'
    BY <1>4, <1>9
  <2> QED
    BY <1>1, <1>2, <1>7, <1>10, <2>1, <2>2, RecordRefs
<1>12. Shape'
  BY <1>1, <1>2, <1>3, <1>4, <1>9, <1>11 DEF Shape
<1>13. IndexInv'
  <2>1. \A k \in Kinds : k # kind => IndexFor(k)' = IndexFor(k)
    OBVIOUS
  <2>2. /\ DOMAIN IndexFor(kind)' = DOMAIN IndexFor(kind) \cup {sig}
        /\ IndexFor(kind)'[sig] = Len(templates)
        /\ \A s \in DOMAIN IndexFor(kind) : IndexFor(kind)'[s] = IndexFor(kind)[s]
    BY <1>1, <1>3, <1>5 DEF Indexed, e, sig, tid
  <2>3. ASSUME NEW k \in Kinds, NEW s \in DOMAIN IndexFor(k)
        PROVE  LET m == IndexFor(k)[s] + 1
               IN  /\ IndexFor(k)[s] \in 0..(Len(templates) - 1)
                   /\ templates'[m].kind = k
                   /\ templates'[m].name_pattern = s.normalized_name
                   /\ templates'[m].arg_keys = s.arg_keys
                   /\ Open(templates'[m], k, s, interned')
    <3> DEFINE m == IndexFor(k)[s] + 1
    <3>1. /\ IndexFor(k)[s] \in 0..(Len(templates) - 1)
          /\ templates[m].kind = k
          /\ templates[m].name_pattern = s.normalized_name
          /\ templates[m].arg_keys = s.arg_keys
          /\ Open(templates[m], k, s, interned)
      BY <1>2, <1>3 DEF IndexInv
    <3>2. templates'[m] = templates[m]
      BY <1>4, <1>9, <3>1
    <3>3. Open(templates[m], k, s, interned')
      BY <1>1, <1>3, <3>1, OpenGrows
    <3> QED
      BY <3>1, <3>2, <3>3
  <2>4. ASSUME NEW k \in Kinds, NEW s \in DOMAIN IndexFor(k)'
        PROVE  LET m == IndexFor(k)'[s] + 1
               IN  /\ IndexFor(k)'[s] \in 0..(Len(templates') - 1)
                   /\ templates'[m].kind = k
                   /\ templates'[m].name_pattern = s.normalized_name
                   /\ templates'[m].arg_keys = s.arg_keys
                   /\ Open(templates'[m], k, s, interned')
    <3>1. CASE k = kind /\ s = sig
      BY <1>1, <1>4, <1>6, <1>8, <1>9, <2>2, <3>1
    <3>2. CASE ~(k = kind /\ s = sig)
      <4>1. s \in DOMAIN IndexFor(k) /\ IndexFor(k)'[s] = IndexFor(k)[s]
        BY <2>1, <2>2, <3>2
      <4> QED
        BY <1>4, <1>9, <2>3, <4>1
    <3> QED
      BY <3>1, <3>2
  <2>5. ASSUME NEW k \in Kinds, NEW s \in DOMAIN IndexFor(k)',
               NEW other \in DOMAIN IndexFor(k)',
               IndexFor(k)'[s] = IndexFor(k)'[other]
        PROVE  s = other
    <3>1. \A x \in DOMAIN IndexFor(k) : IndexFor(k)[x] \in 0..(Len(templates) - 1)
      BY <1>2, <1>3 DEF IndexInv
    <3>2. \A x, y \in DOMAIN IndexFor(k) : IndexFor(k)[x] = IndexFor(k)[y] => x = y
      BY <1>2, <1>3 DEF IndexInv
    <3> QED
      BY <1>4, <2>1, <2>2, <2>5, <3>1, <3>2
  <2>6. ASSUME NEW m \in DOMAIN templates'
        PROVE  \E k \in Kinds : \E s \in DOMAIN IndexFor(k)' : IndexFor(k)'[s] = m - 1
    <3>1. CASE m = Len(templates) + 1
      BY <1>3, <1>4, <2>2, <3>1
    <3>2. CASE m \in DOMAIN templates
      <4>1. PICK k \in Kinds : \E s \in DOMAIN IndexFor(k) : IndexFor(k)[s] = m - 1
        BY <1>2, <1>3, <3>2 DEF IndexInv
      <4>2. PICK s \in DOMAIN IndexFor(k) : IndexFor(k)[s] = m - 1
        BY <4>1
      <4> QED
        BY <2>1, <2>2, <4>2
    <3> QED
      BY <1>4, <1>9, <3>1, <3>2
  <2> QED
    BY <2>4, <2>5, <2>6 DEF IndexInv
<1> QED
  BY <1>11, <1>12, <1>13 DEF IInv

\* finalize_templates, one task of the pool: the template was still open, and its
\* compacted form holds what it held.
LEMMA FinalizeStep ==
  ASSUME IInv, NEW n \in DOMAIN templates, FinalizeTemplate(n)
  PROVE  IInv'
<1> DEFINE t == templates[n]
           u == Compact(t)
<1>1. Shape /\ IndexInv /\ RefInv
  BY DEF IInv
<1>2. /\ phase = "finalizing" /\ n \notin finalized
      /\ templates' = [templates EXCEPT ![n] = u]
      /\ finalized' = finalized \cup {n}
      /\ phase' = phase /\ trace' = trace /\ ranks' = ranks /\ interned' = interned
      /\ cpuIndex' = cpuIndex /\ gpuIndex' = gpuIndex
  BY DEF FinalizeTemplate, Compact
<1>3. /\ IsList(templates) /\ Len(templates) \in Nat
      /\ DOMAIN templates = 1..Len(templates)
      /\ interned \in Nat /\ interned < U32Mod
  BY <1>1, AppendAny, CapacityAssumption, WidthAssumption DEF Shape
<1>4. PICK kind \in Kinds :
        \E sig \in DOMAIN IndexFor(kind) : IndexFor(kind)[sig] = n - 1
  BY <1>1, <1>2 DEF IndexInv
<1>5. PICK sig \in DOMAIN IndexFor(kind) : IndexFor(kind)[sig] = n - 1
  BY <1>4
<1>6. Open(t, kind, sig, interned)
  <2>1. IndexFor(kind)[sig] + 1 = n
    BY <1>3, <1>5
  <2> QED
    BY <1>1, <1>2, <2>1 DEF IndexInv
<1> HIDE DEF u
<1>7. Keeps(t, u)
  BY <1>3, <1>6, FinalizeHolds DEF u
<1>8. /\ IsList(templates') /\ Len(templates') = Len(templates)
      /\ DOMAIN templates' = DOMAIN templates /\ templates'[n] = u
      /\ \A m \in DOMAIN templates : m # n => templates'[m] = templates[m]
  BY <1>2, <1>3, ReplaceAny
<1>9. \A m \in DOMAIN templates : Keeps(templates[m], templates'[m])
  BY <1>7, <1>8 DEF Keeps
<1>10. Shape'
  BY <1>1, <1>2, <1>8 DEF Shape
<1>11. IndexInv'
  <2>1. \A k \in Kinds : IndexFor(k)' = IndexFor(k)
    BY <1>2 DEF IndexFor
  <2>2. ASSUME NEW k \in Kinds, NEW s \in DOMAIN IndexFor(k)
        PROVE  LET m == IndexFor(k)[s] + 1
               IN  /\ IndexFor(k)[s] \in 0..(Len(templates') - 1)
                   /\ templates'[m].kind = k
                   /\ templates'[m].name_pattern = s.normalized_name
                   /\ templates'[m].arg_keys = s.arg_keys
                   /\ m \notin finalized' => Open(templates'[m], k, s, interned')
    <3> DEFINE m == IndexFor(k)[s] + 1
    <3>1. /\ IndexFor(k)[s] \in 0..(Len(templates) - 1)
          /\ templates[m].kind = k
          /\ templates[m].name_pattern = s.normalized_name
          /\ templates[m].arg_keys = s.arg_keys
          /\ m \notin finalized => Open(templates[m], k, s, interned)
      BY <1>1, <1>2 DEF IndexInv
    <3>2. m \in DOMAIN templates
      BY <1>3, <3>1
    <3>3. Keeps(templates[m], templates'[m])
      BY <1>9, <3>2
    <3>4. m \notin finalized' => m \notin finalized /\ templates'[m] = templates[m]
      BY <1>2, <1>8, <3>2
    <3> HIDE DEF m
    <3>5. /\ templates'[m].kind = k
          /\ templates'[m].name_pattern = s.normalized_name
          /\ templates'[m].arg_keys = s.arg_keys
      BY <3>1, <3>3 DEF Keeps
    <3>6. m \notin finalized' => Open(templates'[m], k, s, interned')
      BY <1>2, <3>1, <3>4
    <3> QED
      BY <1>8, <3>1, <3>5, <3>6 DEF m
  <2>3. \A m \in DOMAIN templates' : \E k \in Kinds :
          \E s \in DOMAIN IndexFor(k) : IndexFor(k)[s] = m - 1
    BY <1>1, <1>2, <1>8 DEF IndexInv
  <2>4. \A k \in Kinds : \A s, other \in DOMAIN IndexFor(k) :
          IndexFor(k)[s] = IndexFor(k)[other] => s = other
    BY <1>1, <1>2 DEF IndexInv
  <2> QED
    BY <2>1, <2>2, <2>3, <2>4 DEF IndexInv
<1>12. RefInv'
  <2>1. Table = templates /\ Table' = templates'
    BY <1>2 DEF Table
  <2>2. \A i \in DOMAIN trace : KindOf(i)' = KindOf(i)
    BY <1>2 DEF KindOf, IsGpu
  <2>3. ASSUME NEW i \in DOMAIN trace, NEW k \in 1..Len(ranks[i])
        PROVE  Refers(Table, i, k)'
    <3> DEFINE m == ranks[i][k].template + 1
    <3>1. /\ m \in DOMAIN templates /\ templates[m].kind = KindOf(i)
          /\ Holds(templates[m], trace[i].at, ranks[i][k].instance, trace[i].events[k])
      BY <1>1, <2>1 DEF RefInv, Refers
    <3> HIDE DEF m
    <3>2. /\ m \in DOMAIN templates' /\ templates'[m].kind = KindOf(i)
          /\ Holds(templates'[m], trace[i].at, ranks[i][k].instance, trace[i].events[k])
      BY <1>8, <1>9, <3>1 DEF Keeps
    <3> QED
      BY <1>2, <2>1, <2>2, <3>2 DEF Refers, m
  <2> QED
    BY <1>2, <2>3 DEF RefInv
<1> QED
  BY <1>10, <1>11, <1>12 DEF IInv

\* The table moves as it is; the stale indexes are not read until they are cleared.
LEMMA PublishStep ==
  ASSUME IInv, Publish
  PROVE  IInv'
<1>1. Shape /\ RefInv
  BY DEF IInv
<1>2. /\ phase = "finalizing" /\ phase' = "done" /\ table' = templates
      /\ templates' = <<>> /\ finalized' = {}
      /\ trace' = trace /\ ranks' = ranks /\ interned' = interned
  BY DEF Publish
<1>3. Table = templates /\ Table' = templates
  BY <1>2 DEF Table
<1>4. Shape'
  <2>1. IsList(<<>>) /\ Len(<<>>) = 0
    BY DEF IsList
  <2>2. interned \in Nat
    BY <1>1, CapacityAssumption DEF Shape
  <2> QED
    BY <1>1, <1>2, <2>1, <2>2 DEF Shape
<1>5. RefInv'
  <2>1. \A i \in DOMAIN trace : KindOf(i)' = KindOf(i)
    BY <1>2 DEF KindOf, IsGpu
  <2> QED
    BY <1>1, <1>2, <1>3, <2>1 DEF RefInv, Refers
<1> QED
  BY <1>2, <1>4, <1>5 DEF IInv, IndexInv

\* compress() clears every table before it looks anything up.
LEMMA StartStep ==
  ASSUME IInv, NEW tr \in Traces, StartCompress(tr)
  PROVE  IInv'
<1>1. /\ phase' = "interning" /\ trace' = tr /\ templates' = <<>>
      /\ cpuIndex' = NoIndex /\ gpuIndex' = NoIndex /\ finalized' = {}
      /\ ranks' = [i \in DOMAIN tr |-> <<>>] /\ interned' = 0
  BY DEF StartCompress
<1>2. Shape'
  <2>1. IsList(<<>>) /\ Len(<<>>) = 0 /\ <<>> \in Seq(Reference)
    BY DEF IsList
  <2>2. 0 \in 0..MaxEvents
    BY CapacityAssumption
  <2>3. \A i \in DOMAIN tr : Len(tr[i].events) \in Nat
    <3>1. tr \in Seq(Stream)
      BY TraceAssumption
    <3>2. \A i \in DOMAIN tr : tr[i] \in Stream
      BY <3>1
    <3> QED
      BY <3>2 DEF Stream
  <2> QED
    BY <1>1, <2>1, <2>2, <2>3 DEF Shape
<1>3. IndexInv'
  <2>1. \A k \in Kinds : DOMAIN IndexFor(k)' = {}
    BY <1>1 DEF IndexFor, NoIndex
  <2>2. DOMAIN templates' = {}
    BY <1>1
  <2> QED
    BY <2>1, <2>2 DEF IndexInv
<1>4. RefInv'
  BY <1>1 DEF RefInv
<1> QED
  BY <1>2, <1>3, <1>4 DEF IInv

\* An event goes to the template of its signature or to a new one.
LEMMA InternStep ==
  ASSUME IInv, NEW i \in DOMAIN trace, InternEventTemplate(i) \/ InternKernelTemplate(i)
  PROVE  IInv'
<1>1. CASE InternKnown(i, IndexFor(KindOf(i)))
  BY <1>1, KnownStep
<1>2. CASE ~InternKnown(i, IndexFor(KindOf(i)))
  <2>1. PICK kind \in Kinds : kind = KindOf(i)
    BY DEF KindOf, Kinds
  <2>2. CASE IsGpu(i)
    <3>1. kind = "gpu" /\ IndexFor(kind) = gpuIndex
      BY <2>1, <2>2 DEF KindOf, IndexFor
    <3>2. /\ InternNew(i, gpuIndex) /\ cpuIndex' = cpuIndex
          /\ gpuIndex' = Indexed(gpuIndex, CurrentEvent(i), AsU32(Len(templates)))
      BY <1>2, <2>1, <2>2, <3>1 DEF InternEventTemplate, InternKernelTemplate
    <3>3. \A k \in Kinds :
            IndexFor(k)' =
              IF k = kind
              THEN Indexed(IndexFor(k), CurrentEvent(i), AsU32(Len(templates)))
              ELSE IndexFor(k)
      BY <3>1, <3>2 DEF IndexFor, Kinds
    <3> QED
      BY <2>1, <3>1, <3>2, <3>3, NewStep
  <2>3. CASE ~IsGpu(i)
    <3>1. kind = "cpu" /\ IndexFor(kind) = cpuIndex
      BY <2>1, <2>3 DEF KindOf, IndexFor
    <3>2. /\ InternNew(i, cpuIndex) /\ gpuIndex' = gpuIndex
          /\ cpuIndex' = Indexed(cpuIndex, CurrentEvent(i), AsU32(Len(templates)))
      BY <1>2, <2>1, <2>3, <3>1 DEF InternEventTemplate, InternKernelTemplate
    <3>3. \A k \in Kinds :
            IndexFor(k)' =
              IF k = kind
              THEN Indexed(IndexFor(k), CurrentEvent(i), AsU32(Len(templates)))
              ELSE IndexFor(k)
      BY <3>1, <3>2 DEF IndexFor, Kinds
    <3> QED
      BY <2>1, <3>1, <3>2, <3>3, NewStep
  <2> QED
    BY <2>2, <2>3
<1> QED
  BY <1>1, <1>2

-----------------------------------------------------------------------------
\* The theorems.

\* IInv holds of the compressor from Init on, through every call.
THEOREM InductiveInvariant == Spec => []IInv
<1>1. Init => IInv
  <2> SUFFICES ASSUME Init
               PROVE  IInv
    OBVIOUS
  <2>1. IsList(<<>>) /\ Len(<<>>) = 0
    BY DEF IsList
  <2>2. Shape
    BY <2>1, CapacityAssumption DEF Shape, Init
  <2>3. IndexInv /\ RefInv
    BY DEF IndexInv, RefInv, Init
  <2> QED
    BY <2>2, <2>3 DEF IInv
<1>2. IInv /\ [Next]_vars => IInv'
  <2> SUFFICES ASSUME IInv, [Next]_vars
               PROVE  IInv'
    OBVIOUS
  <2>1. ASSUME NEW tr \in Handed, StartCompress(tr)
        PROVE  IInv'
    BY <2>1, StartStep, CapacityAssumption DEF Handed
  <2>2. ASSUME NEW i \in DOMAIN trace, InternEventTemplate(i) \/ InternKernelTemplate(i)
        PROVE  IInv'
    BY <2>2, InternStep
  <2>3. CASE StartFinalize
    BY <2>3 DEF StartFinalize, IInv, Shape, IndexInv, IndexFor, RefInv, Refers, Table,
                KindOf, IsGpu
  <2>4. ASSUME NEW n \in DOMAIN templates, FinalizeTemplate(n)
        PROVE  IInv'
    BY <2>4, FinalizeStep
  <2>5. CASE Publish
    BY <2>5, PublishStep
  <2>6. CASE UNCHANGED vars
    BY <2>6 DEF vars, IInv, Shape, IndexInv, IndexFor, RefInv, Refers, Table, KindOf, IsGpu
  <2> QED
    BY <2>1, <2>2, <2>3, <2>4, <2>5, <2>6 DEF Next
<1> QED
  BY <1>1, <1>2, PTL DEF Spec

\* The tables keep their shapes.
THEOREM TypeCorrect == Spec => []TypeOK
<1>1. IInv => TypeOK
  <2> SUFFICES ASSUME IInv
               PROVE  TypeOK
    OBVIOUS
  <2>1. Shape /\ IndexInv
    BY DEF IInv
  <2>2. trace \in Seq(Stream)
    <3>1. <<>> \in Seq(Stream) /\ trace \in Traces \cup {<<>>}
      BY <2>1 DEF Shape
    <3> QED
      BY <3>1, TraceAssumption
  <2>3. ASSUME NEW n \in DOMAIN templates
        PROVE  templates[n].kind \in {"cpu", "gpu"}
    <3>1. phase \in {"interning", "finalizing"}
      BY <2>1 DEF Shape
    <3>2. PICK kind \in Kinds :
            \E sig \in DOMAIN IndexFor(kind) : IndexFor(kind)[sig] = n - 1
      BY <2>1, <3>1 DEF IndexInv
    <3>3. PICK sig \in DOMAIN IndexFor(kind) : IndexFor(kind)[sig] = n - 1
      BY <3>2
    <3>4. DOMAIN templates = 1..Len(templates) /\ Len(templates) \in Nat
      BY <2>1, AppendAny DEF Shape
    <3>5. IndexFor(kind)[sig] + 1 = n
      BY <3>3, <3>4
    <3> QED
      BY <2>1, <3>1, <3>5 DEF IndexInv, Kinds
  <2> QED
    BY <2>1, <2>2, <2>3 DEF TypeOK, Shape, Reference
<1> QED
  BY <1>1, InductiveInvariant, PTL

\* What the invariant says of a reference is what a reader sees.
LEMMA ReadBack == IInv => Lossless
<1> SUFFICES ASSUME IInv, NEW i \in DOMAIN trace, NEW k \in 1..Len(ranks[i])
             PROVE  Decoded(i, k) = [at |-> trace[i].at, event |-> trace[i].events[k]]
  BY DEF Lossless
<1> DEFINE at == trace[i].at
           r == ranks[i][k]
           t == Table[r.template + 1]
<1>1. Shape /\ Refers(Table, i, k)
  BY DEF IInv, RefInv
<1>2. /\ r.template + 1 \in DOMAIN Table /\ t.kind = KindOf(i)
      /\ BuildEvent(t, r.instance) = trace[i].events[k]
      /\ t.kind = "gpu" => /\ NumGet(t.pid, r.instance) = at.pid
                           /\ RunGet(t.stream_tid, r.instance) = at.tid
                           /\ RunGet(t.ph, r.instance) = at.ph
  BY <1>1 DEF Refers, Holds
<1>3. /\ at.pid \in Int /\ at.tid \in Tids /\ at.ph \in Phases
      /\ at = [rank |-> at.rank, pid |-> at.pid, tid |-> at.tid, ph |-> at.ph]
  <2>1. at \in Coordinate
    BY <1>1, StreamFacts
  <2> QED
    BY <2>1 DEF Coordinate
<1>4. CASE IsGpu(i)
  <2>1. t.kind = "gpu"
    BY <1>2, <1>4 DEF KindOf
  <2>2. /\ OrElse(NumGet(t.pid, r.instance), 0) = at.pid
        /\ OrElse(RunGet(t.stream_tid, r.instance), "") = at.tid
        /\ OrElse(RunGet(t.ph, r.instance), "X") = at.ph
    BY <1>2, <1>3, <2>1, NoneAssumption, CoordinateAssumption DEF OrElse
  <2> QED
    BY <1>2, <1>3, <1>4, <2>1, <2>2 DEF Decoded, EmitGpu, Resolves
<1>5. CASE ~IsGpu(i)
  BY <1>2, <1>5 DEF Decoded, EmitCpu, Resolves, KindOf
<1> QED
  BY <1>4, <1>5

\* Every reference decodes to the event it stands for, at its stream: while the
\* table grows, while it is compacted in any order, and after it moved.
THEOREM LosslessCompression == Spec => []Lossless
BY ReadBack, InductiveInvariant, PTL

\* The indexes name the templates of the table, each once and by its own kind: a
\* reused compressor cannot meet a stale id, and cannot panic.
THEOREM IndexesStayCoherent == Spec => []IndexCoherent
<1>1. IInv => IndexCoherent
  <2> SUFFICES ASSUME IInv
               PROVE  IndexCoherent
    OBVIOUS
  <2>1. Shape /\ IndexInv
    BY DEF IInv
  <2>2. phase # "panicked"
    BY <2>1 DEF Shape
  <2> SUFFICES ASSUME phase \in {"interning", "finalizing"}
               PROVE  IndexCoherent
    BY <2>2 DEF IndexCoherent
  <2>3. /\ IsList(templates) /\ Len(templates) \in Nat
        /\ DOMAIN templates = 1..Len(templates)
    BY <2>1, AppendAny DEF Shape
  <2>4. Indexes = {<<kind, IndexFor(kind)>> : kind \in Kinds}
    BY DEF Indexes, IndexFor, Kinds
  <2>5. ASSUME NEW x \in Indexes, NEW sig \in DOMAIN x[2]
        PROVE  /\ x[2][sig] + 1 \in DOMAIN templates
               /\ templates[x[2][sig] + 1].kind = x[1]
               /\ templates[x[2][sig] + 1].name_pattern = sig.normalized_name
               /\ templates[x[2][sig] + 1].arg_keys = sig.arg_keys
    <3>1. PICK kind \in Kinds : x = <<kind, IndexFor(kind)>>
      BY <2>4
    <3> QED
      BY <2>1, <2>3, <3>1 DEF IndexInv
  <2>6. ASSUME NEW n \in DOMAIN templates
        PROVE  \E x \in Indexes : \E sig \in DOMAIN x[2] : x[2][sig] = n - 1
    <3>1. PICK kind \in Kinds :
            \E sig \in DOMAIN IndexFor(kind) : IndexFor(kind)[sig] = n - 1
      BY <2>1 DEF IndexInv
    <3>2. <<kind, IndexFor(kind)>> \in Indexes
      BY <2>4
    <3> QED
      BY <3>1, <3>2
  <2>7. ASSUME NEW x \in Indexes, NEW sig \in DOMAIN x[2], NEW other \in DOMAIN x[2],
               x[2][sig] = x[2][other]
        PROVE  sig = other
    <3>1. PICK kind \in Kinds : x = <<kind, IndexFor(kind)>>
      BY <2>4
    <3> QED
      BY <2>1, <2>7, <3>1 DEF IndexInv
  <2> QED
    BY <2>2, <2>5, <2>6, <2>7 DEF IndexCoherent
<1> QED
  BY <1>1, InductiveInvariant, PTL

\* No step of any call touches a template after it was compacted.
THEOREM CompactedTemplatesRest == Spec => NoAppendAfterFinalize
<1>1. IInv /\ [Next]_vars =>
        [\A n \in finalized \cap finalized' : templates'[n] = templates[n]]_vars
  <2> SUFFICES ASSUME IInv, Next, NEW n \in finalized, n \in finalized'
               PROVE  templates'[n] = templates[n]
    OBVIOUS
  <2>1. IsList(templates) /\ n \in DOMAIN templates /\ phase # "interning"
    BY DEF IInv, Shape
  <2>2. phase \in {"finalizing"}
    BY <2>1 DEF IInv, Shape
  <2>3. ASSUME NEW m \in DOMAIN templates, FinalizeTemplate(m)
        PROVE  templates'[n] = templates[n]
    <3>1. m # n /\ templates' = [templates EXCEPT ![m] = Compact(@)]
      BY <2>3 DEF FinalizeTemplate
    <3> QED
      BY <2>1, <3>1
  <2>4. ~StartFinalize /\ ~Publish
    BY <2>2 DEF StartFinalize, Publish
  <2>5. \A tr \in Handed : ~StartCompress(tr)
    BY <2>2 DEF StartCompress
  <2>6. \A i \in DOMAIN trace : ~InternEventTemplate(i) /\ ~InternKernelTemplate(i)
    BY <2>2 DEF InternEventTemplate, InternKernelTemplate, InternKnown, InternNew, IsCurrent
  <2> QED
    BY <2>3, <2>4, <2>5, <2>6 DEF Next
<1> QED
  BY <1>1, InductiveInvariant, PTL DEF Spec, NoAppendAfterFinalize

-----------------------------------------------------------------------------
\* The archive of EventArchive.

\* Templates are compacted, and the table is moved, only when every stream is read.
AllRead == phase \in {"finalizing", "done"} => \A i \in DOMAIN trace : StreamDone(i)

ArchiveInv == IInv /\ AllRead

\* What the archive shows of the streams: the events read so far, as they came.
ViewOf(tr, refs) ==
  [i \in DOMAIN tr |-> [k \in 1..Len(refs[i]) |-> Archive!Placed(tr[i], k)]]

ViewInv == ArchiveView = ViewOf(trace, ranks)

\* Columns and templates never show anything else.
LEMMA ViewIsTrace == IInv => ViewInv
<1> SUFFICES ASSUME IInv
             PROVE  ArchiveView = ViewOf(trace, ranks)
  BY DEF ViewInv
<1>1. \A i \in DOMAIN trace : \A k \in 1..Len(ranks[i]) :
        Decoded(i, k) = Archive!Placed(trace[i], k)
  BY ReadBack DEF Lossless, Archive!Placed
<1> QED
  BY <1>1 DEF ArchiveView, ViewOf

\* What interning does to the variables the archive is read from.
LEMMA InternEffect ==
  ASSUME IInv', NEW i \in DOMAIN trace,
         InternEventTemplate(i) \/ InternKernelTemplate(i)
  PROVE  /\ IsCurrent(i) /\ phase' = phase /\ trace' = trace
         /\ \E r : ranks' = [ranks EXCEPT ![i] = Append(@, r)]
<1>1. phase' # "panicked"
  BY DEF IInv, Shape
<1>2. PICK index : InternKnown(i, index) \/ InternNew(i, index)
  BY DEF InternEventTemplate, InternKernelTemplate
<1>3. CASE InternKnown(i, index)
  BY <1>1, <1>3 DEF InternKnown, Record
<1>4. CASE InternNew(i, index)
  BY <1>4 DEF InternNew, Record
<1> QED
  BY <1>2, <1>3, <1>4

\* ArchiveInv holds of the compressor from Init on.
LEMMA ArchiveInvariant == Spec => []ArchiveInv
<1>1. Init => AllRead
  BY DEF Init, AllRead
<1>2. IInv /\ IInv' /\ AllRead /\ [Next]_vars => AllRead'
  <2> SUFFICES ASSUME IInv, IInv', AllRead, [Next]_vars
               PROVE  AllRead'
    OBVIOUS
  <2>1. ASSUME NEW tr \in Handed, StartCompress(tr)
        PROVE  AllRead'
    BY <2>1 DEF StartCompress, AllRead
  <2>2. ASSUME NEW i \in DOMAIN trace, InternEventTemplate(i) \/ InternKernelTemplate(i)
        PROVE  AllRead'
    BY <2>2, InternEffect DEF IsCurrent, AllRead
  <2>3. CASE StartFinalize
    BY <2>3 DEF StartFinalize, AllRead, StreamDone
  <2>4. ASSUME NEW n \in DOMAIN templates, FinalizeTemplate(n)
        PROVE  AllRead'
    BY <2>4 DEF FinalizeTemplate, AllRead, StreamDone
  <2>5. CASE Publish
    BY <2>5 DEF Publish, AllRead, StreamDone
  <2>6. CASE UNCHANGED vars
    BY <2>6 DEF vars, AllRead, StreamDone
  <2> QED
    BY <2>1, <2>2, <2>3, <2>4, <2>5, <2>6 DEF Next
<1> QED
  BY <1>1, <1>2, InductiveInvariant, PTL DEF Spec, ArchiveInv

\* compress() archives: whatever templates, columns and compaction do inside, each
\* interned event becomes readable as it was, at the end of its stream and after
\* the streams before it; starting a call accepts the trace, moving the table
\* seals the archive, and compaction is invisible.
THEOREM CompressorIsArchive == Spec => ImplementsArchive
<1>1. Init => Archive!ArchiveInit
  BY DEF Init, Archive!ArchiveInit, ArchiveView, ArchiveStatus
<1>2. ArchiveInv /\ ArchiveInv' /\ ViewInv /\ ViewInv' /\ [Next]_vars
      => [Archive!ArchiveNext]_(Archive!archiveVars)
  <2> SUFFICES ASSUME ArchiveInv, ArchiveInv', [Next]_vars,
                      ArchiveView = ViewOf(trace, ranks),
                      ArchiveView' = ViewOf(trace', ranks')
               PROVE  [Archive!ArchiveNext]_(Archive!archiveVars)
    BY DEF ViewInv, ViewOf
  <2>1. Shape /\ IInv' /\ Shape'
    BY DEF ArchiveInv, IInv
  <2>2. \A i \in DOMAIN trace : DOMAIN ArchiveView = DOMAIN trace
                                /\ Len(ArchiveView[i]) = Len(ranks[i])
    <3>1. \A i \in DOMAIN trace : Len(ranks[i]) \in Nat
      BY <2>1 DEF Shape
    <3> QED
      BY <3>1 DEF ViewOf
  <2>3. \A i \in DOMAIN trace : Archive!Complete(i) <=> StreamDone(i)
    BY <2>2 DEF Archive!Complete, StreamDone
  <2>4. ASSUME NEW tr \in Handed, StartCompress(tr)
        PROVE  Archive!Accept
    <3>1. /\ phase \in {"idle", "done"} /\ phase' = "interning" /\ trace' = tr
          /\ ranks' = [i \in DOMAIN tr |-> <<>>] /\ tr \in Traces
      BY <2>4, CapacityAssumption DEF StartCompress, Handed
    <3>2. ArchiveView' = [i \in DOMAIN tr |-> <<>>]
      <4>1. \A i \in DOMAIN tr : [k \in 1..Len(ranks'[i]) |-> Archive!Placed(tr[i], k)] = <<>>
        BY <3>1
      <4> QED
        BY <3>1, <4>1 DEF ViewOf
    <3>3. ArchiveStatus \in {"empty", "sealed"} /\ ArchiveStatus' = "filling"
      BY <3>1 DEF ArchiveStatus
    <3> QED
      BY <3>1, <3>2, <3>3 DEF Archive!Accept
  <2>5. ASSUME NEW i \in DOMAIN trace, InternEventTemplate(i) \/ InternKernelTemplate(i)
        PROVE  Archive!Archive(i)
    <3>1. /\ IsCurrent(i) /\ phase' = phase /\ trace' = trace
          /\ \E r : ranks' = [ranks EXCEPT ![i] = Append(@, r)]
      BY <2>1, <2>5, InternEffect
    <3>2. PICK r : ranks' = [ranks EXCEPT ![i] = Append(@, r)]
      BY <3>1
    <3>3. ArchiveStatus = "filling" /\ ArchiveStatus' = "filling"
      BY <3>1 DEF IsCurrent, ArchiveStatus
    <3>4. ~Archive!Complete(i) /\ \A j \in 1..(i - 1) : Archive!Complete(j)
      <4>1. i \in 1..Len(trace) /\ DOMAIN trace = 1..Len(trace) /\ Len(trace) \in Nat
        BY <2>1, StreamFacts
      <4>2. \A j \in 1..(i - 1) : j \in DOMAIN trace
        BY <4>1
      <4> QED
        BY <2>3, <3>1, <4>2 DEF IsCurrent
    <3>5. ArchiveView' =
            [ArchiveView EXCEPT ![i] = Append(@, Archive!Placed(trace[i], Len(@) + 1))]
      <4> DEFINE new == Append(ArchiveView[i],
                               Archive!Placed(trace[i], Len(ArchiveView[i]) + 1))
      <4>1. DOMAIN ranks = DOMAIN trace /\ ranks[i] \in Seq(Reference)
            /\ Len(ranks[i]) \in Nat
        BY <2>1 DEF Shape
      <4>2. ranks'[i] = Append(ranks[i], r)
            /\ \A j \in DOMAIN trace : j # i => ranks'[j] = ranks[j]
        BY <3>2, <4>1
      <4>3. Len(ranks'[i]) = Len(ranks[i]) + 1
        <5>1. ranks'[i] \in Seq(Reference)
          BY <2>1, <3>1 DEF Shape
        <5> QED
          BY <4>1, <4>2
      <4>4. /\ ArchiveView'[i] = [k \in 1..(Len(ranks[i]) + 1) |-> Archive!Placed(trace[i], k)]
            /\ ArchiveView[i] = [k \in 1..Len(ranks[i]) |-> Archive!Placed(trace[i], k)]
            /\ \A j \in DOMAIN trace : j # i => ArchiveView'[j] = ArchiveView[j]
            /\ DOMAIN ArchiveView' = DOMAIN trace /\ DOMAIN ArchiveView = DOMAIN trace
        BY <3>1, <4>2, <4>3 DEF ViewOf
      <4>5. ArchiveView'[i] = new
        BY <4>1, <4>4
      <4> HIDE DEF new
      <4>6. ArchiveView' = [j \in DOMAIN trace |-> ArchiveView'[j]]
        BY <3>1 DEF ViewOf
      <4>7. ArchiveView' = [ArchiveView EXCEPT ![i] = new]
        BY <4>4, <4>5, <4>6
      <4> QED
        BY <4>7 DEF new
    <3> QED
      BY <3>1, <3>3, <3>4, <3>5 DEF Archive!Archive
  <2>6. CASE Publish
    <3>1. /\ phase = "finalizing" /\ phase' = "done" /\ trace' = trace /\ ranks' = ranks
      BY <2>6 DEF Publish
    <3>2. \A i \in DOMAIN trace : Archive!Complete(i)
      BY <2>3, <3>1 DEF ArchiveInv, AllRead
    <3>3. ArchiveView' = ArchiveView
      BY <3>1
    <3>4. ArchiveStatus = "filling" /\ ArchiveStatus' = "sealed"
      BY <3>1 DEF ArchiveStatus
    <3> QED
      BY <3>1, <3>2, <3>3, <3>4 DEF Archive!Seal, Archive!ArchiveNext
  <2>7. ASSUME \/ StartFinalize
               \/ \E n \in DOMAIN templates : FinalizeTemplate(n)
               \/ UNCHANGED vars
        PROVE  UNCHANGED Archive!archiveVars
    <3>1. trace' = trace /\ ranks' = ranks
      BY <2>7 DEF StartFinalize, FinalizeTemplate, vars
    <3>2. ArchiveView' = ArchiveView
      BY <3>1
    <3>3. phase' = phase \/ (phase = "interning" /\ phase' = "finalizing")
      BY <2>7 DEF StartFinalize, FinalizeTemplate, vars
    <3>4. ArchiveStatus' = ArchiveStatus
      BY <3>3 DEF ArchiveStatus
    <3> QED
      BY <3>1, <3>2, <3>4 DEF Archive!archiveVars
  <2> QED
    BY <2>4, <2>5, <2>6, <2>7 DEF Next, Archive!ArchiveNext
<1>3. ArchiveInv => ViewInv
  BY ViewIsTrace DEF ArchiveInv
<1> QED
  BY <1>1, <1>2, <1>3, ArchiveInvariant, PTL
  DEF Spec, ImplementsArchive, Archive!ArchiveSpec

-----------------------------------------------------------------------------
\* Instances and columns.

\* A template that takes events has as many cells in every column as instances.
LEMMA OpenAligned ==
  ASSUME NEW kind \in Kinds, NEW sig, NEW bound, NEW t, Open(t, kind, sig, bound)
  PROVE  Aligned(t)
<1> DEFINE n == NumLen(t.ts)
<1>1. Building(t, kind, sig, n) /\ (kind = "gpu" => Located(t, Tids, Phases, n))
  BY DEF Open
<1> HIDE DEF n
<1>2. t.kind = kind /\ t.arg_keys = sig.arg_keys
  BY <1>1 DEF Building
<1>3. NumLen(t.dur) \in {0, n} /\ NumLen(t.id) \in {0, n}
  BY <1>1 DEF Building
<1>4. \A k \in t.arg_keys : ArgLen(t.args_columns[k]) = n
  BY <1>1, <1>2 DEF Building, ArgBuild, ArgLen
<1>5. t.name_nums.tag = "Rows" => Len(t.name_nums.rows) = n
  BY <1>1 DEF Building, NumsBuild, NameNumsEmpty
<1> QED
  BY <1>1, <1>2, <1>3, <1>4, <1>5 DEF Aligned, InstanceCount, Located, n

\* Compaction keeps the number of instances, and every column's cells for them.
LEMMA CompactAligned ==
  ASSUME NEW kind \in Kinds, NEW sig, NEW bound \in Nat, bound < U32Mod,
         NEW t, Open(t, kind, sig, bound)
  PROVE  Aligned(Compact(t)) /\ NumLen(Compact(t).ts) = NumLen(t.ts)
<1> DEFINE u == Compact(t)
           n == NumLen(t.ts)
<1>1. /\ n \in Nat /\ n < U32Mod /\ Building(t, kind, sig, n)
      /\ kind = "gpu" => Located(t, Tids, Phases, n)
  BY WidthAssumption DEF Open
<1>2. /\ DOMAIN t = Fields /\ t.kind = kind /\ t.arg_keys = sig.arg_keys
      /\ DOMAIN t.args_columns = sig.arg_keys
      /\ \A k \in sig.arg_keys : /\ t.args_columns[k] \in ArgBuild
                                 /\ Len(t.args_columns[k].values) = n
      /\ NumsBuild(t.name_nums, Slots(t.name_pattern), n)
      /\ t.ts \in NumColumn /\ NumLen(t.ts) = n
      /\ t.dur \in NumColumn /\ NumLen(t.dur) \in {0, n}
      /\ t.id \in NumColumn /\ NumLen(t.id) \in {0, n}
  BY <1>1 DEF Building
<1> HIDE DEF n
<1>3. /\ u.kind = t.kind /\ u.arg_keys = t.arg_keys
      /\ u.ts = NumCompact(t.ts) /\ u.dur = NumCompact(t.dur) /\ u.id = NumCompact(t.id)
      /\ u.args_columns = FinalizeArgs(t.args_columns)
      /\ u.name_nums = FinalizeNameNums(t.name_nums)
      /\ kind = "gpu" => /\ u.pid = NumCompact(t.pid)
                         /\ u.stream_tid = RunCompact(t.stream_tid)
                         /\ u.ph = RunCompact(t.ph)
  BY <1>2 DEF Compact, CpuTemplate, GpuTemplate, Fields, Kinds
<1> HIDE DEF u
<1>4. \A c \in NumColumn : NumLen(c) \in {0, n} => NumLen(NumCompact(c)) = NumLen(c)
  <2>1. 0 < U32Mod
    BY WidthAssumption
  <2> QED
    BY <1>1, <2>1, NumCompactCells
<1>5. NumLen(u.ts) = n /\ NumLen(u.dur) \in {0, n} /\ NumLen(u.id) \in {0, n}
  BY <1>2, <1>3, <1>4
<1>6. kind = "gpu" =>
        NumLen(u.pid) = n /\ RunLen(u.stream_tid) = n /\ RunLen(u.ph) = n
  BY <1>1, <1>3, NumCompactCells, RunCompactCells DEF Located
<1>7. ASSUME NEW k \in u.arg_keys, u.args_columns[k].tag # "ExactConstant"
      PROVE  ArgLen(u.args_columns[k]) = n
  <2>1. t.args_columns[k] \in ArgBuild /\ Len(t.args_columns[k].values) = n
    BY <1>2, <1>3, <1>7
  <2>2. CASE EnableArgsDedup
    <3>1. u.args_columns[k] = ArgCompact(t.args_columns[k])
      BY <1>2, <1>3, <1>7, <2>2 DEF FinalizeArgs
    <3> QED
      BY <1>7, <2>1, <3>1, ArgCompactCells
  <2>3. CASE ~EnableArgsDedup
    BY <1>3, <2>1, <2>3 DEF FinalizeArgs, ArgBuild, ArgLen
  <2> QED
    BY <2>2, <2>3
<1>8. u.name_nums.tag = "Rows" => Len(u.name_nums.rows) = n
  BY <1>2, <1>3 DEF NumsBuild, NameNumsEmpty, FinalizeNameNums, CompressNameNums
<1> QED
  BY <1>2, <1>3, <1>5, <1>6, <1>7, <1>8 DEF Aligned, InstanceCount, u, n

\* The templates no task of the pool has taken yet are open.
LEMMA Unfinalized ==
  ASSUME IInv, NEW n \in DOMAIN templates, n \notin finalized
  PROVE  \E kind \in Kinds : \E sig : Open(templates[n], kind, sig, interned)
<1>1. Shape /\ IndexInv
  BY DEF IInv
<1>2. phase \in {"interning", "finalizing"}
  BY <1>1 DEF Shape
<1>3. n \in 1..Len(templates) /\ Len(templates) \in Nat
  BY <1>1, AppendAny DEF Shape
<1>4. PICK kind \in Kinds : \E sig \in DOMAIN IndexFor(kind) : IndexFor(kind)[sig] = n - 1
  BY <1>1, <1>2 DEF IndexInv
<1>5. PICK sig \in DOMAIN IndexFor(kind) : IndexFor(kind)[sig] = n - 1
  BY <1>4
<1>6. IndexFor(kind)[sig] + 1 = n
  BY <1>3, <1>5
<1>7. Open(templates[n], kind, sig, interned)
  BY <1>1, <1>2, <1>6 DEF IndexInv
<1> QED
  BY <1>7

\* While events arrive every column grows in step, and a compacted template keeps
\* its columns in step: get(instance) means one event in all of them.
THEOREM ColumnsStayAligned == Spec => []ColumnsAligned
<1>1. Init => ColumnsAligned
  BY DEF Init, ColumnsAligned, Table
<1>2. IInv /\ IInv' /\ ColumnsAligned /\ [Next]_vars => ColumnsAligned'
  <2> SUFFICES ASSUME IInv, IInv', ColumnsAligned, [Next]_vars
               PROVE  ColumnsAligned'
    OBVIOUS
  <2>1. CASE phase' = "interning"
    <3>1. Table' = templates' /\ finalized' = {}
      BY <2>1 DEF Table, IInv, Shape
    <3>2. ASSUME NEW n \in DOMAIN templates'
          PROVE  Aligned(templates'[n])
      <4>1. \E kind \in Kinds : \E sig : Open(templates'[n], kind, sig, interned')
        <5>1. Shape' /\ IndexInv'
          BY DEF IInv
        <5>2. n \in 1..Len(templates') /\ Len(templates') \in Nat
          BY <5>1, AppendAny DEF Shape
        <5>3. PICK kind \in Kinds :
                \E sig \in DOMAIN IndexFor(kind)' : IndexFor(kind)'[sig] = n - 1
          BY <2>1, <5>1 DEF IndexInv
        <5>4. PICK sig \in DOMAIN IndexFor(kind)' : IndexFor(kind)'[sig] = n - 1
          BY <5>3
        <5>5. IndexFor(kind)'[sig] + 1 = n
          BY <5>2, <5>4
        <5>6. Open(templates'[n], kind, sig, interned')
          BY <2>1, <3>1, <5>1, <5>5 DEF IndexInv
        <5> QED
          BY <5>6
      <4> QED
        BY <4>1, OpenAligned
    <3> QED
      BY <3>1, <3>2 DEF ColumnsAligned
  <2>2. ASSUME NEW n \in DOMAIN templates, FinalizeTemplate(n)
        PROVE  ColumnsAligned'
    <3>1. /\ phase = "finalizing" /\ phase' = phase /\ n \notin finalized
          /\ templates' = [templates EXCEPT ![n] = Compact(@)]
      BY <2>2 DEF FinalizeTemplate
    <3>2. /\ DOMAIN templates' = DOMAIN templates
          /\ templates'[n] = Compact(templates[n])
          /\ \A m \in DOMAIN templates : m # n => templates'[m] = templates[m]
      BY <3>1, ReplaceAny DEF IInv, Shape
    <3>3. PICK kind \in Kinds : \E sig : Open(templates[n], kind, sig, interned)
      BY <3>1, Unfinalized
    <3>4. interned \in Nat /\ interned < U32Mod
      BY CapacityAssumption, WidthAssumption DEF IInv, Shape
    <3>5. Aligned(templates'[n])
      BY <3>2, <3>3, <3>4, CompactAligned
    <3> QED
      BY <3>1, <3>2, <3>5 DEF ColumnsAligned, Table
  <2>3. CASE Publish
    BY <2>3 DEF Publish, ColumnsAligned, Table
  <2>4. CASE StartFinalize
    BY <2>4 DEF StartFinalize, ColumnsAligned, Table
  <2>5. CASE UNCHANGED vars
    BY <2>5 DEF vars, ColumnsAligned, Table
  <2>6. \A tr \in Handed : StartCompress(tr) => phase' = "interning"
    BY DEF StartCompress
  <2>7. ASSUME NEW i \in DOMAIN trace, InternEventTemplate(i) \/ InternKernelTemplate(i)
        PROVE  phase' = "interning"
    BY <2>7, InternEffect DEF IsCurrent
  <2> QED
    BY <2>1, <2>2, <2>3, <2>4, <2>5, <2>6, <2>7 DEF Next
<1> QED
  BY <1>1, <1>2, InductiveInvariant, PTL DEF Spec

-----------------------------------------------------------------------------
\* References and instances.

CountIn(tpls, n) == IF n \in DOMAIN tpls THEN NumLen(tpls[n].ts) ELSE 0

\* Interning records the number of instances the template had, and adds one to it;
\* the template is one of the table or the next one, and no other changes.
Interned(i, n) ==
  /\ n \in Nat
  /\ ranks' = [ranks EXCEPT ![i] =
                  Append(@, [template |-> n - 1, instance |-> CountIn(templates, n)])]
  /\ DOMAIN templates' = DOMAIN templates \cup {n}
  /\ CountIn(templates', n) = CountIn(templates, n) + 1
  /\ \A m \in DOMAIN templates : m # n => templates'[m] = templates[m]

\* Interning an event gives it the next instance of its template.
LEMMA InternCounts ==
  ASSUME IInv, IInv', NEW i \in DOMAIN trace,
         InternEventTemplate(i) \/ InternKernelTemplate(i)
  PROVE  \E n : Interned(i, n)
<1> DEFINE kind == KindOf(i)
           e == CurrentEvent(i)
           at == trace[i].at
           sig == TemplateSignature(e)
           index == IndexFor(kind)
<1>1. Shape /\ IndexInv /\ phase' # "panicked"
  BY DEF IInv, Shape
<1>2. IsCurrent(i) /\ phase' = phase
  BY InternEffect
<1>3. /\ e \in NarrowEvent /\ at \in Coordinate /\ kind \in Kinds
      /\ phase = "interning" /\ finalized = {}
      /\ interned \in Nat /\ interned < U32Mod
      /\ \A t : AppendEvent(t, i) = AppendTo(kind, t, e, at)
  BY <1>1, <1>2, CurrentFacts, StreamFacts
<1>4. /\ IsList(templates) /\ Len(templates) \in Nat
      /\ DOMAIN templates = 1..Len(templates) /\ Len(templates) <= interned
  BY <1>1, AppendAny DEF Shape
<1>5. InternKnown(i, index) \/ InternNew(i, index)
  BY DEF InternEventTemplate, InternKernelTemplate, KindOf, IndexFor
<1>6. CASE InternKnown(i, index)
  <2> DEFINE tid == index[sig]
             n == tid + 1
             t == templates[n]
             u == AppendEvent(t, i)
  <2>1. sig \in DOMAIN index
    BY <1>6 DEF InternKnown
  <2>2. tid \in 0..(Len(templates) - 1) /\ Open(t, kind, sig, interned)
    BY <1>1, <1>3, <2>1 DEF IndexInv
  <2>3. /\ templates' = [templates EXCEPT ![n] = u]
        /\ ranks' = [ranks EXCEPT ![i] =
                       Append(@, [template |-> tid, instance |-> AsU32(NumLen(t.ts))])]
    BY <1>1, <1>6 DEF InternKnown, Record, InstanceCount
  <2> HIDE DEF tid, e, at
  <2>4. NumLen(t.ts) \in Nat /\ NumLen(t.ts) < U32Mod
    BY <1>3, <2>2, WidthAssumption DEF Open
  <2>5. NumLen(u.ts) = NumLen(t.ts) + 1
    BY <1>3, <2>2, AppendHolds
  <2>6. n \in DOMAIN templates /\ n - 1 = tid /\ n \in Nat
    BY <1>4, <2>2
  <2> HIDE DEF n, t, u
  <2>7. /\ DOMAIN templates' = DOMAIN templates /\ templates'[n] = u
        /\ \A m \in DOMAIN templates : m # n => templates'[m] = templates[m]
    BY <1>4, <2>3, <2>6, ReplaceAny
  <2>8. CountIn(templates, n) = NumLen(t.ts) /\ CountIn(templates', n) = CountIn(templates, n) + 1
    BY <2>5, <2>6, <2>7 DEF CountIn, t
  <2>9. AsU32(NumLen(t.ts)) = CountIn(templates, n)
    BY <2>4, <2>8, AsU32Exact
  <2> QED
    BY <2>3, <2>6, <2>7, <2>8, <2>9 DEF Interned
<1>7. CASE InternNew(i, index)
  <2> DEFINE n == Len(templates) + 1
             new == NewTemplate(kind, e)
             u == AppendEvent(new, i)
  <2>1. /\ templates' = Append(templates, u)
        /\ ranks' = [ranks EXCEPT ![i] =
                       Append(@, [template |-> AsU32(Len(templates)),
                                  instance |-> AsU32(NumLen(new.ts))])]
    BY <1>7 DEF InternNew, Record, InstanceCount
  <2>2. AsU32(Len(templates)) = n - 1 /\ AsU32(0) = 0 /\ n \in Nat
    BY <1>3, <1>4, WidthAssumption, AsU32Exact
  <2> HIDE DEF e, at
  <2>3. NumLen(new.ts) = 0 /\ NumLen(u.ts) = 1
    BY <1>3, NewHolds
  <2> HIDE DEF u, new
  <2>4. /\ DOMAIN templates' = 1..n /\ templates'[n] = u
        /\ \A m \in DOMAIN templates : templates'[m] = templates[m]
    BY <1>4, <2>1, AppendAny
  <2>5. n \notin DOMAIN templates /\ DOMAIN templates' = DOMAIN templates \cup {n}
    BY <1>4, <2>4
  <2>6. CountIn(templates, n) = 0 /\ CountIn(templates', n) = 1
    BY <2>3, <2>4, <2>5 DEF CountIn
  <2>7. ranks' = [ranks EXCEPT ![i] =
                    Append(@, [template |-> n - 1, instance |-> CountIn(templates, n)])]
    BY <2>1, <2>2, <2>3, <2>6
  <2>8. \A m \in DOMAIN templates : m # n => templates'[m] = templates[m]
    BY <2>4
  <2> HIDE DEF n
  <2>9. Interned(i, n)
    BY <2>2, <2>5, <2>6, <2>7, <2>8 DEF Interned
  <2> QED
    BY <2>9
<1> QED
  BY <1>5, <1>6, <1>7

\* Compaction does not change how many instances a template has.
LEMMA FinalizeCounts ==
  ASSUME IInv, NEW n \in DOMAIN templates, FinalizeTemplate(n)
  PROVE  /\ DOMAIN templates' = DOMAIN templates
         /\ \A m \in DOMAIN templates : NumLen(templates'[m].ts) = NumLen(templates[m].ts)
<1>1. /\ n \notin finalized /\ templates' = [templates EXCEPT ![n] = Compact(@)]
  BY DEF FinalizeTemplate
<1>2. /\ DOMAIN templates' = DOMAIN templates
      /\ templates'[n] = Compact(templates[n])
      /\ \A m \in DOMAIN templates : m # n => templates'[m] = templates[m]
  BY <1>1, ReplaceAny DEF IInv, Shape
<1>3. PICK kind \in Kinds : \E sig : Open(templates[n], kind, sig, interned)
  BY <1>1, Unfinalized
<1>4. interned \in Nat /\ interned < U32Mod
  BY CapacityAssumption, WidthAssumption DEF IInv, Shape
<1>5. NumLen(templates'[n].ts) = NumLen(templates[n].ts)
  BY <1>2, <1>3, <1>4, CompactAligned
<1> QED
  BY <1>2, <1>5

\* What a reference claims, in terms of the counts.
LEMMA RefBounds ==
  ASSUME IInv, NEW i \in DOMAIN trace, NEW k \in 1..Len(ranks[i])
  PROVE  /\ ranks[i][k].template + 1 \in DOMAIN Table
         /\ ranks[i][k].instance \in 0..(NumLen(Table[ranks[i][k].template + 1].ts) - 1)
         /\ ranks[i][k] \in Reference
<1>1. Refers(Table, i, k)
  BY DEF IInv, RefInv
<1>2. ranks[i] \in Seq(Reference)
  BY DEF IInv, Shape
<1> QED
  BY <1>1, <1>2 DEF Refers, Holds

\* No two events share an instance, and every instance is some event's.
Claimed ==
  /\ \A i, j \in DOMAIN trace : \A k \in 1..Len(ranks[i]), m \in 1..Len(ranks[j]) :
       ranks[i][k] = ranks[j][m] => i = j /\ k = m
  /\ \A n \in DOMAIN Table : \A x \in 0..(NumLen(Table[n].ts) - 1) :
       \E i \in DOMAIN trace : \E k \in 1..Len(ranks[i]) :
         ranks[i][k] = [template |-> n - 1, instance |-> x]

\* The next instance is claimed by the event that is interned, and by no other.
LEMMA InternClaims ==
  ASSUME IInv, IInv', Claimed, NEW i \in DOMAIN trace,
         InternEventTemplate(i) \/ InternKernelTemplate(i)
  PROVE  Claimed'
<1>1. PICK n : Interned(i, n)
  BY InternCounts
<1> DEFINE c == CountIn(templates, n)
           r == [template |-> n - 1, instance |-> c]
           last == Len(ranks[i]) + 1
<1>2. /\ trace' = trace /\ Table = templates /\ Table' = templates'
      /\ DOMAIN ranks = DOMAIN trace /\ \A j \in DOMAIN trace : ranks[j] \in Seq(Reference)
  BY InternEffect DEF IsCurrent, Table, IInv, Shape
<1>3. /\ n \in Nat /\ ranks' = [ranks EXCEPT ![i] = Append(@, r)]
      /\ DOMAIN templates' = DOMAIN templates \cup {n}
      /\ CountIn(templates', n) = c + 1
      /\ \A m \in DOMAIN templates : m # n => templates'[m] = templates[m]
  BY <1>1 DEF Interned
<1>4. \A j \in DOMAIN trace : \A k \in 1..Len(ranks[j]) : ranks[j][k] # r
  <2> SUFFICES ASSUME NEW j \in DOMAIN trace, NEW k \in 1..Len(ranks[j]), ranks[j][k] = r
               PROVE  FALSE
    OBVIOUS
  <2>1. r.template + 1 \in DOMAIN templates
        /\ r.instance \in 0..(NumLen(templates[r.template + 1].ts) - 1)
    BY <1>2, RefBounds
  <2>2. r.template + 1 = n /\ r.instance = c
    BY <1>3
  <2>3. n \in DOMAIN templates /\ c \in 0..(c - 1)
    BY <2>1, <2>2 DEF CountIn
  <2> QED
    BY <2>3
<1> HIDE DEF r, c
<1>5. \A j \in DOMAIN trace : /\ Len(ranks[j]) \in Nat
                              /\ j # i => ranks'[j] = ranks[j]
  BY <1>2, <1>3
<1>6. /\ Len(ranks'[i]) = last /\ ranks'[i][last] = r
      /\ \A k \in 1..Len(ranks[i]) : ranks'[i][k] = ranks[i][k]
  <2>1. ranks'[i] = Append(ranks[i], r)
    BY <1>2, <1>3
  <2>2. ranks'[i] \in Seq(Reference)
    BY <1>2 DEF IInv, Shape
  <2>3. IsList(ranks[i])
    BY <1>2 DEF IsList
  <2> QED
    BY <2>1, <2>3, AppendAny
<1> HIDE DEF last
<1>7. ASSUME NEW j \in DOMAIN trace, NEW k \in 1..Len(ranks'[j])
      PROVE  \/ j = i /\ k = last /\ ranks'[j][k] = r
             \/ k \in 1..Len(ranks[j]) /\ ranks'[j][k] = ranks[j][k] /\ ranks'[j][k] # r
  <2>1. CASE j = i
    BY <1>4, <1>5, <1>6, <2>1 DEF last
  <2>2. CASE j # i
    BY <1>4, <1>5, <2>2
  <2> QED
    BY <2>1, <2>2
<1>8. ASSUME NEW j \in DOMAIN trace, NEW h \in DOMAIN trace,
             NEW k \in 1..Len(ranks'[j]), NEW m \in 1..Len(ranks'[h]),
             ranks'[j][k] = ranks'[h][m]
      PROVE  j = h /\ k = m
  <2>1. CASE ranks'[j][k] = r
    <3>1. j = i /\ k = last
      BY <1>7, <2>1
    <3>2. h = i /\ m = last
      BY <1>7, <1>8, <2>1
    <3> QED
      BY <3>1, <3>2
  <2>2. CASE ranks'[j][k] # r
    <3>1. /\ k \in 1..Len(ranks[j]) /\ m \in 1..Len(ranks[h])
          /\ ranks[j][k] = ranks[h][m]
      BY <1>7, <1>8, <2>2
    <3> QED
      BY <3>1 DEF Claimed
  <2> QED
    BY <2>1, <2>2
<1>9. ASSUME NEW m \in DOMAIN templates', NEW x \in 0..(NumLen(templates'[m].ts) - 1)
      PROVE  \E j \in DOMAIN trace : \E k \in 1..Len(ranks'[j]) :
               ranks'[j][k] = [template |-> m - 1, instance |-> x]
  <2>1. CASE m = n /\ x = c
    <3>1. last \in 1..Len(ranks'[i]) /\ ranks'[i][last] = [template |-> m - 1, instance |-> x]
      BY <1>5, <1>6, <2>1 DEF last, r
    <3> QED
      BY <3>1
  <2>2. CASE ~(m = n /\ x = c)
    <3>1. m \in DOMAIN templates /\ x \in 0..(NumLen(templates[m].ts) - 1)
      <4>1. CASE m # n
        BY <1>3, <4>1
      <4>2. CASE m = n
        <5>1. NumLen(templates'[n].ts) = c + 1
          BY <1>3 DEF CountIn
        <5>2. c \in Nat
          <6>1. CASE n \in DOMAIN templates
            <7>1. Table = templates /\ IInv
              BY <1>2
            <7>2. phase = "interning" /\ finalized = {}
              BY InternEffect DEF IsCurrent, IInv, Shape
            <7>3. \E kind \in Kinds : \E sig : Open(templates[n], kind, sig, interned)
              BY <6>1, <7>2, Unfinalized
            <7> QED
              BY <6>1, <7>3 DEF Open, c, CountIn, IInv, Shape
          <6>2. CASE n \notin DOMAIN templates
            BY <6>2 DEF c, CountIn
          <6> QED
            BY <6>1, <6>2
        <5>3. x \in 0..(c - 1)
          BY <2>2, <4>2, <5>1, <5>2
        <5>4. n \in DOMAIN templates
          BY <5>3 DEF c, CountIn
        <5> QED
          BY <4>2, <5>3, <5>4 DEF c, CountIn
      <4> QED
        BY <4>1, <4>2
    <3>2. PICK j \in DOMAIN trace : \E k \in 1..Len(ranks[j]) :
            ranks[j][k] = [template |-> m - 1, instance |-> x]
      BY <1>2, <3>1 DEF Claimed
    <3>3. PICK k \in 1..Len(ranks[j]) :
            ranks[j][k] = [template |-> m - 1, instance |-> x]
      BY <3>2
    <3>4. k \in 1..Len(ranks'[j]) /\ ranks'[j][k] = ranks[j][k]
      <4>1. CASE j = i
        BY <1>5, <1>6, <4>1 DEF last
      <4>2. CASE j # i
        BY <1>5, <4>2
      <4> QED
        BY <4>1, <4>2
    <3> QED
      BY <3>3, <3>4
  <2> QED
    BY <2>1, <2>2
<1> QED
  BY <1>2, <1>8, <1>9 DEF Claimed

\* A step keeps the correspondence of references and instances.
LEMMA ClaimedStep == IInv /\ IInv' /\ Claimed /\ [Next]_vars => Claimed'
<1> SUFFICES ASSUME IInv, IInv', Claimed, [Next]_vars
             PROVE  Claimed'
  OBVIOUS
<1>1. ASSUME NEW tr \in Handed, StartCompress(tr)
      PROVE  Claimed'
  BY <1>1 DEF StartCompress, Claimed, Table
<1>2. ASSUME NEW i \in DOMAIN trace, InternEventTemplate(i) \/ InternKernelTemplate(i)
      PROVE  Claimed'
  BY <1>2, InternClaims
<1>3. ASSUME NEW n \in DOMAIN templates, FinalizeTemplate(n)
      PROVE  Claimed'
  <2>1. Table = templates /\ Table' = templates' /\ trace' = trace /\ ranks' = ranks
    BY <1>3 DEF FinalizeTemplate, Table
  <2> QED
    BY <1>3, <2>1, FinalizeCounts DEF Claimed
<1>4. CASE StartFinalize
  BY <1>4 DEF StartFinalize, Claimed, Table
<1>5. CASE Publish
  BY <1>5 DEF Publish, Claimed, Table
<1>6. CASE UNCHANGED vars
  BY <1>6 DEF vars, Claimed, Table
<1> QED
  BY <1>1, <1>2, <1>3, <1>4, <1>5, <1>6 DEF Next

\* References and instances correspond one to one, through every append, every
\* compaction and the move of the table: an analysis that walks columns counts
\* each event once.
THEOREM InstancesAreEvents == Spec => []EachInstanceOnce
<1>1. Init => Claimed
  BY DEF Init, Claimed, Table
<1>2. IInv /\ IInv' /\ Claimed /\ [Next]_vars => Claimed'
  BY ClaimedStep
<1>3. IInv /\ Claimed => EachInstanceOnce
  <2> SUFFICES ASSUME IInv, Claimed
               PROVE  EachInstanceOnce
    OBVIOUS
  <2>1. ASSUME NEW i \in DOMAIN trace, NEW k \in 1..Len(ranks[i])
        PROVE  LET r == ranks[i][k]
               IN  /\ r.template + 1 \in DOMAIN Table
                   /\ r.instance \in 0..(InstanceCount(Table[r.template + 1]) - 1)
    BY RefBounds DEF InstanceCount
  <2> QED
    BY <2>1 DEF Claimed, EachInstanceOnce, InstanceCount
<1> QED
  BY <1>1, <1>2, <1>3, InductiveInvariant, PTL DEF Spec

-----------------------------------------------------------------------------
(* Induction and sums.                                                      *)

\* The induction principle of the natural numbers, for a predicate given as a set.
LEMMA Induction ==
  ASSUME NEW S, 0 \in S, \A n \in Nat : n \in S => n + 1 \in S
  PROVE  Nat \subseteq S
<1> DEFINE Rest == Nat \ S
<1> SUFFICES ASSUME Rest # {} PROVE FALSE
  OBVIOUS
<1>1. PICK m \in Rest : \A k \in Rest : ~ (<<k, m>> \in OpToRel(<, Nat))
  BY NatLessThanWellFounded, WFMin
<1>2. \A k \in Rest : ~(k < m)
  BY <1>1 DEF OpToRel
<1>3. m # 0 /\ m - 1 \in Nat /\ m - 1 \notin Rest
  BY <1>2
<1> QED
  BY <1>3

\* Induction up to a bound.
LEMMA BoundedInduction ==
  ASSUME NEW n \in Nat, NEW S, 0 \in S, \A k \in 0..n : k \in S /\ k < n => k + 1 \in S
  PROVE  0..n \subseteq S
<1> DEFINE P == {k \in Nat : k <= n => k \in S}
<1>1. 0 \in P
  OBVIOUS
<1>2. \A k \in Nat : k \in P => k + 1 \in P
  OBVIOUS
<1>3. Nat \subseteq P
  <2> HIDE DEF P
  <2> QED
    BY <1>1, <1>2, Induction
<1> QED
  BY <1>3

\* The values of f up to n are integers.
Integers(f, n) == \A k \in 1..n : f[k] \in Int

\* s gives the sums of the first values of f, up to the n-th.
PartialSums(s, f, n) ==
  /\ s \in [0..n -> Int] /\ s[0] = 0
  /\ \A k \in 1..n : s[k] = s[k - 1] + f[k]

SumTo(f, n) == (CHOOSE s : PartialSums(s, f, n))[n]

\* The partial sums exist.
LEMMA PartialSumsExist ==
  ASSUME NEW n \in Nat, NEW f, Integers(f, n)
  PROVE  \E s : PartialSums(s, f, n)
<1> DEFINE S == {m \in 0..n : \E s : PartialSums(s, f, m)}
<1>1. 0 \in S
  <2> DEFINE s == [k \in 0..0 |-> 0]
  <2>1. PartialSums(s, f, 0)
    BY DEF PartialSums
  <2> QED
    BY <2>1
<1>2. ASSUME NEW m \in 0..n, m \in S, m < n
      PROVE  m + 1 \in S
  <2>1. PICK s : PartialSums(s, f, m)
    BY <1>2
  <2> DEFINE r == [k \in 0..(m + 1) |-> IF k = m + 1 THEN s[m] + f[m + 1] ELSE s[k]]
  <2>2. m \in Nat /\ m + 1 \in 0..n /\ m + 1 \in 1..n /\ f[m + 1] \in Int
    BY <1>2 DEF Integers
  <2>3. s \in [0..m -> Int] /\ s[0] = 0 /\ \A k \in 1..m : s[k] = s[k - 1] + f[k]
    BY <2>1 DEF PartialSums
  <2>4. r \in [0..(m + 1) -> Int] /\ r[0] = 0
    BY <2>2, <2>3
  <2>5. ASSUME NEW k \in 1..(m + 1)
        PROVE  r[k] = r[k - 1] + f[k]
    <3>1. CASE k = m + 1
      <4>1. r[k] = s[m] + f[m + 1] /\ r[k - 1] = s[m]
        BY <2>2, <3>1
      <4> QED
        BY <3>1, <4>1
    <3>2. CASE k # m + 1
      <4>1. k \in 1..m /\ k \in 0..(m + 1) /\ k - 1 \in 0..(m + 1) /\ k - 1 # m + 1
        BY <2>2, <3>2
      <4>2. r[k] = s[k] /\ r[k - 1] = s[k - 1]
        BY <3>2, <4>1
      <4> QED
        BY <2>3, <4>1, <4>2
    <3> QED
      BY <3>1, <3>2
  <2> HIDE DEF r
  <2>6. PartialSums(r, f, m + 1)
    BY <2>4, <2>5 DEF PartialSums
  <2> QED
    BY <2>2, <2>6
<1> HIDE DEF S
<1>3. 0..n \subseteq S
  BY <1>1, <1>2, BoundedInduction
<1>4. n \in S
  BY <1>3
<1> QED
  BY <1>4 DEF S

\* The partial sums of functions that agree up to m agree up to m.
LEMMA PartialSumsAgree ==
  ASSUME NEW n \in Nat, NEW m \in 0..n, NEW f, NEW g, NEW s, NEW r,
         PartialSums(s, f, n), PartialSums(r, g, m), \A k \in 1..m : f[k] = g[k]
  PROVE  s[m] = r[m]
<1> DEFINE S == {k \in 0..m : s[k] = r[k]}
<1>1. 0 \in S
  BY DEF PartialSums
<1>2. ASSUME NEW k \in 0..m, k \in S, k < m
      PROVE  k + 1 \in S
  <2>1. k + 1 \in 1..n /\ k + 1 \in 1..m /\ (k + 1) - 1 = k /\ k + 1 \in 0..m
    BY <1>2
  <2>2. s[k + 1] = s[k] + f[k + 1] /\ r[k + 1] = r[k] + g[k + 1]
    BY <2>1 DEF PartialSums
  <2> QED
    BY <1>2, <2>1, <2>2
<1> HIDE DEF S
<1>3. 0..m \subseteq S
  BY <1>1, <1>2, BoundedInduction
<1>4. m \in S
  BY <1>3
<1> QED
  BY <1>4 DEF S

\* A sum has one more value than the sum before it.
LEMMA SumLaws ==
  ASSUME NEW n \in Nat, NEW f, Integers(f, n)
  PROVE  /\ SumTo(f, n) \in Int
         /\ SumTo(f, 0) = 0
         /\ n # 0 => SumTo(f, n) = SumTo(f, n - 1) + f[n]
<1> DEFINE s(m) == CHOOSE s : PartialSums(s, f, m)
<1>1. ASSUME NEW m \in 0..n
      PROVE  PartialSums(s(m), f, m) /\ SumTo(f, m) = s(m)[m]
  <2>1. Integers(f, m) /\ m \in Nat
    BY DEF Integers
  <2>2. \E r : PartialSums(r, f, m)
    BY <2>1, PartialSumsExist
  <2> QED
    BY <2>2 DEF SumTo
<1> HIDE DEF s
<1>2. SumTo(f, n) \in Int /\ SumTo(f, 0) = 0
  <2>1. PartialSums(s(n), f, n) /\ SumTo(f, n) = s(n)[n]
    BY <1>1
  <2>2. PartialSums(s(0), f, 0) /\ SumTo(f, 0) = s(0)[0]
    BY <1>1
  <2>3. n \in 0..n
    OBVIOUS
  <2> QED
    BY <2>1, <2>2, <2>3 DEF PartialSums
<1>3. ASSUME n # 0
      PROVE  SumTo(f, n) = SumTo(f, n - 1) + f[n]
  <2>1. n \in 0..n /\ n - 1 \in 0..n /\ n \in 1..n
    BY <1>3
  <2>2. SumTo(f, n) = s(n)[n - 1] + f[n]
    BY <1>1, <2>1 DEF PartialSums
  <2>3. s(n)[n - 1] = s(n - 1)[n - 1]
    BY <1>1, <2>1, PartialSumsAgree
  <2> QED
    BY <1>1, <2>1, <2>2, <2>3
<1> QED
  BY <1>2, <1>3

\* Functions that agree have the same sum.
LEMMA SumSame ==
  ASSUME NEW n \in Nat, NEW f, NEW g, Integers(f, n), \A k \in 1..n : f[k] = g[k]
  PROVE  SumTo(f, n) = SumTo(g, n)
<1>1. Integers(g, n) /\ n \in 0..n
  BY DEF Integers
<1>2. PartialSums(CHOOSE s : PartialSums(s, f, n), f, n)
  BY PartialSumsExist
<1>3. PartialSums(CHOOSE s : PartialSums(s, g, n), g, n)
  BY <1>1, PartialSumsExist
<1> QED
  BY <1>1, <1>2, <1>3, PartialSumsAgree DEF SumTo

\* A function that differs in one place has a sum that differs by as much.
LEMMA SumDiffers ==
  ASSUME NEW n \in Nat, NEW f, NEW g, Integers(f, n), Integers(g, n),
         NEW a \in 1..n, NEW d \in Int, g[a] = f[a] + d,
         \A k \in 1..n : k # a => g[k] = f[k]
  PROVE  SumTo(g, n) = SumTo(f, n) + d
<1> DEFINE P(m) == SumTo(g, m) = SumTo(f, m) + (IF a <= m THEN d ELSE 0)
           S == {m \in 0..n : P(m)}
<1>1. \A m \in 0..n : Integers(f, m) /\ Integers(g, m) /\ m \in Nat
  BY DEF Integers
<1>2. 0 \in S
  <2>1. SumTo(f, 0) = 0 /\ SumTo(g, 0) = 0 /\ ~(a <= 0) /\ 0 \in 0..n
    BY SumLaws
  <2> QED
    BY <2>1
<1>3. ASSUME NEW m \in 0..n, m \in S, m < n
      PROVE  m + 1 \in S
  <2>1. /\ m + 1 \in 0..n /\ m + 1 \in 1..n /\ m \in Nat /\ m + 1 \in Nat /\ (m + 1) - 1 = m
        /\ m + 1 # 0 /\ f[m + 1] \in Int /\ g[m + 1] \in Int
    BY <1>3 DEF Integers
  <2>2. SumTo(f, m) \in Int /\ SumTo(g, m) \in Int
    BY <1>1, <2>1, SumLaws
  <2>3. SumTo(f, m + 1) = SumTo(f, m) + f[m + 1] /\ SumTo(g, m + 1) = SumTo(g, m) + g[m + 1]
    BY <1>1, <2>1, SumLaws
  <2>4. P(m)
    BY <1>3
  <2>5. P(m + 1)
    BY <2>1, <2>2, <2>3, <2>4
  <2> QED
    BY <2>1, <2>5
<1> HIDE DEF S
<1>4. 0..n \subseteq S
  BY <1>2, <1>3, BoundedInduction
<1>5. P(n)
  BY <1>4 DEF S
<1> QED
  BY <1>5

\* Where f is zero its sum stands still.
LEMMA SumRests ==
  ASSUME NEW n \in Nat, NEW m \in 0..n, NEW f, Integers(f, n),
         \A k \in 1..n : k > m => f[k] = 0
  PROVE  SumTo(f, n) = SumTo(f, m)
<1> DEFINE P(j) == m <= j => SumTo(f, j) = SumTo(f, m)
           S == {j \in 0..n : P(j)}
<1>1. \A j \in 0..n : Integers(f, j) /\ j \in Nat
  BY DEF Integers
<1>2. 0 \in S
  <2>1. m <= 0 => m = 0
    OBVIOUS
  <2> QED
    BY <2>1
<1>3. ASSUME NEW j \in 0..n, j \in S, j < n
      PROVE  j + 1 \in S
  <2>1. /\ j + 1 \in 0..n /\ j + 1 \in 1..n /\ j \in Nat /\ j + 1 \in Nat /\ (j + 1) - 1 = j
        /\ j + 1 # 0
    BY <1>3
  <2>2. SumTo(f, j) \in Int /\ SumTo(f, j + 1) = SumTo(f, j) + f[j + 1]
    BY <1>1, <2>1, SumLaws
  <2>3. P(j)
    BY <1>3
  <2>4. P(j + 1)
    <3>1. CASE m <= j
      <4>1. f[j + 1] = 0
        BY <2>1, <3>1
      <4> QED
        BY <2>2, <2>3, <3>1, <4>1
    <3>2. CASE ~(m <= j)
      <4>1. m <= j + 1 => m = j + 1
        BY <2>1, <3>2
      <4> QED
        BY <4>1
    <3> QED
      BY <3>1, <3>2
  <2> QED
    BY <2>1, <2>4
<1> HIDE DEF S
<1>4. 0..n \subseteq S
  BY <1>2, <1>3, BoundedInduction
<1>5. P(n)
  BY <1>4 DEF S
<1> QED
  BY <1>5

\* A sum can be taken in two parts.
LEMMA SumSplits ==
  ASSUME NEW n \in Nat, NEW m \in Nat, NEW h, Integers(h, n + m), NEW f, NEW g,
         \A k \in 1..n : f[k] = h[k], \A k \in 1..m : g[k] = h[n + k]
  PROVE  SumTo(h, n + m) = SumTo(f, n) + SumTo(g, m)
<1> DEFINE P(j) == SumTo(h, n + j) = SumTo(f, n) + SumTo(g, j)
           S == {j \in 0..m : P(j)}
<1>1. /\ \A j \in 0..m : Integers(g, j) /\ Integers(h, n + j) /\ j \in Nat /\ n + j \in Nat
      /\ Integers(f, n) /\ Integers(h, n)
  BY DEF Integers
<1>2. SumTo(f, n) \in Int /\ SumTo(f, n) = SumTo(h, n)
  BY <1>1, SumLaws, SumSame
<1>3. 0 \in S
  <2>1. SumTo(g, 0) = 0 /\ 0 \in 0..m /\ n + 0 = n
    BY <1>1, SumLaws
  <2> QED
    BY <1>2, <2>1
<1>4. ASSUME NEW j \in 0..m, j \in S, j < m
      PROVE  j + 1 \in S
  <2>1. /\ j + 1 \in 0..m /\ j + 1 \in 1..m /\ j \in Nat /\ j + 1 \in Nat /\ (j + 1) - 1 = j
        /\ j + 1 # 0 /\ n + (j + 1) # 0 /\ (n + (j + 1)) - 1 = n + j
        /\ n + (j + 1) \in 1..(n + m)
    BY <1>4
  <2>2. /\ SumTo(g, j) \in Int /\ SumTo(g, j + 1) = SumTo(g, j) + g[j + 1]
        /\ SumTo(h, n + (j + 1)) = SumTo(h, n + j) + h[n + (j + 1)]
    BY <1>1, <2>1, SumLaws
  <2>3. g[j + 1] = h[n + (j + 1)] /\ g[j + 1] \in Int
    BY <2>1 DEF Integers
  <2>4. P(j)
    BY <1>4
  <2>5. P(j + 1)
    BY <1>2, <2>2, <2>3, <2>4
  <2> QED
    BY <2>1, <2>5
<1> HIDE DEF S
<1>5. 0..m \subseteq S
  BY <1>3, <1>4, BoundedInduction
<1>6. P(m)
  BY <1>5 DEF S
<1> QED
  BY <1>6

-----------------------------------------------------------------------------
(* Lists, their concatenation and their flattening.                         *)

\* A function over the first numbers is a list.
LEMMA ListOfFunction ==
  ASSUME NEW n \in Nat, NEW f, f = [p \in 1..n |-> f[p]]
  PROVE  IsList(f) /\ Len(f) = n /\ DOMAIN f = 1..n
<1>1. f \in [1..n -> {f[p] : p \in DOMAIN f}]
  OBVIOUS
<1> QED
  BY <1>1 DEF IsList

\* What is known of a list.
LEMMA ListFacts ==
  ASSUME NEW s, IsList(s)
  PROVE  /\ Len(s) \in Nat /\ DOMAIN s = 1..Len(s) /\ s = [p \in 1..Len(s) |-> s[p]]
         /\ Len(s) = 0 <=> s = <<>>
BY DEF IsList

\* The empty list.
LEMMA EmptyList == IsList(<<>>) /\ Len(<<>>) = 0 /\ 1..Len(<<>>) = {}
BY DEF IsList

\* The empty list, and a list of one.
LEMMA ShortLists ==
  ASSUME NEW x
  PROVE  /\ IsList(<<>>) /\ Len(<<>>) = 0
         /\ IsList(<<x>>) /\ Len(<<x>>) = 1 /\ DOMAIN <<x>> = {1} /\ <<x>>[1] = x
BY DEF IsList

\* Two lists have the same elements in the same places.
LEMMA ListsEqual ==
  ASSUME NEW s, NEW t, IsList(s), IsList(t), Len(s) = Len(t),
         \A p \in 1..Len(s) : s[p] = t[p]
  PROVE  s = t
<1>1. s = [p \in 1..Len(s) |-> s[p]] /\ t = [p \in 1..Len(s) |-> t[p]]
  BY ListFacts
<1>2. [p \in 1..Len(s) |-> s[p]] = [p \in 1..Len(s) |-> t[p]]
  OBVIOUS
<1> QED
  BY <1>1, <1>2

\* The concatenation of two lists.
LEMMA ConcatLists ==
  ASSUME NEW s, NEW t, IsList(s), IsList(t)
  PROVE  /\ IsList(s \o t) /\ Len(s \o t) = Len(s) + Len(t)
         /\ \A p \in 1..Len(s) : (s \o t)[p] = s[p]
         /\ \A p \in 1..Len(t) : (s \o t)[Len(s) + p] = t[p]
<1> DEFINE S == {s[p] : p \in DOMAIN s} \cup {t[p] : p \in DOMAIN t}
           c == s \o t
<1>1. s \in Seq(S) /\ t \in Seq(S)
  BY DEF IsList
<1>2. c \in Seq(S) /\ Len(c) = Len(s) + Len(t)
  BY <1>1
<1>3. c \in Seq({c[p] : p \in DOMAIN c})
  <2> HIDE DEF c, S
  <2>1. \A p \in DOMAIN c : c[p] \in {c[q] : q \in DOMAIN c}
    OBVIOUS
  <2> QED
    BY <1>2, <2>1, SMTT(30)
<1>4. \A p \in 1..Len(s) : c[p] = s[p]
  BY <1>1
<1>5. \A p \in 1..Len(t) : c[Len(s) + p] = t[p]
  BY <1>1
<1> QED
  BY <1>2, <1>3, <1>4, <1>5 DEF IsList

\* Concatenation with nothing, and of three.
LEMMA ConcatLaws ==
  ASSUME NEW s, NEW t, NEW u, IsList(s), IsList(t), IsList(u)
  PROVE  /\ s \o <<>> = s /\ <<>> \o s = s
         /\ (s \o t) \o u = s \o (t \o u)
         /\ s \o t = <<>> => s = <<>> /\ t = <<>>
<1> DEFINE S == {s[p] : p \in DOMAIN s} \cup {t[p] : p \in DOMAIN t} \cup {u[p] : p \in DOMAIN u}
<1>1. s \in Seq(S) /\ t \in Seq(S) /\ u \in Seq(S)
  BY DEF IsList
<1> HIDE DEF S
<1>2. s \o <<>> = s /\ <<>> \o s = s
  BY <1>1
<1>3. (s \o t) \o u = s \o (t \o u)
  BY <1>1
<1>4. s \o t = <<>> => s = <<>> /\ t = <<>>
  BY ConcatLists, ListFacts, ShortLists
<1> QED
  BY <1>2, <1>3, <1>4

\* The first n lists of L.
First(L, n) == [i \in 1..n |-> L[i]]

\* f flattens the first lists of L, up to the n-th.
Flattens(f, L, n) ==
  f = [i \in 1..n |-> IF i = 1 THEN L[i] ELSE f[i - 1] \o L[i]]

\* There is such a function.
LEMMA FlattensExists ==
  ASSUME NEW n \in Nat, NEW L
  PROVE  \E f : Flattens(f, L, n)
<1> DEFINE S == {m \in 0..n : \E f : Flattens(f, L, m)}
<1>1. 0 \in S
  <2> DEFINE f == [i \in 1..0 |-> <<>>]
  <2>1. Flattens(f, L, 0)
    BY DEF Flattens
  <2> QED
    BY <2>1
<1>2. ASSUME NEW m \in 0..n, m \in S, m < n
      PROVE  m + 1 \in S
  <2>1. PICK f : Flattens(f, L, m)
    BY <1>2
  <2> DEFINE value(i) == IF i = 1 THEN L[i] ELSE f[i - 1] \o L[i]
             g == [i \in 1..(m + 1) |-> value(i)]
  <2>2. \A i \in 1..m : f[i] = value(i)
    BY <2>1 DEF Flattens
  <2>3. ASSUME NEW i \in 1..(m + 1)
        PROVE  g[i] = IF i = 1 THEN L[i] ELSE g[i - 1] \o L[i]
    <3>1. CASE i = 1
      BY <3>1
    <3>2. CASE i # 1
      <4>1. i - 1 \in 1..m /\ i - 1 \in 1..(m + 1)
        BY <3>2
      <4>2. g[i - 1] = f[i - 1]
        BY <2>2, <4>1
      <4> QED
        BY <3>2, <4>2
    <3> QED
      BY <3>1, <3>2
  <2>4. DOMAIN g = 1..(m + 1) /\ g = [i \in 1..(m + 1) |-> g[i]]
    OBVIOUS
  <2> HIDE DEF g
  <2>5. Flattens(g, L, m + 1)
    BY <2>3, <2>4 DEF Flattens
  <2>6. m + 1 \in 0..n
    BY <1>2
  <2> QED
    BY <2>5, <2>6
<1> HIDE DEF S
<1>3. 0..n \subseteq S
  BY <1>1, <1>2, BoundedInduction
<1>4. n \in S
  BY <1>3
<1> QED
  BY <1>4 DEF S

\* Two such functions agree where both are defined.
LEMMA FlattensAgree ==
  ASSUME NEW n \in Nat, NEW m \in 1..n, NEW L, NEW K, NEW f, NEW g,
         Flattens(f, L, n), Flattens(g, K, m), \A i \in 1..m : L[i] = K[i]
  PROVE  f[m] = g[m]
<1> DEFINE S == {j \in 0..m : j # 0 => f[j] = g[j]}
<1>1. 0 \in S
  OBVIOUS
<1>2. ASSUME NEW j \in 0..m, j \in S, j < m
      PROVE  j + 1 \in S
  <2>1. j + 1 \in 1..n /\ j + 1 \in 1..m /\ (j + 1) - 1 = j /\ j + 1 \in 0..m
    BY <1>2
  <2>2. f[j + 1] = IF j + 1 = 1 THEN L[j + 1] ELSE f[j] \o L[j + 1]
    BY <2>1 DEF Flattens
  <2>3. g[j + 1] = IF j + 1 = 1 THEN K[j + 1] ELSE g[j] \o K[j + 1]
    BY <2>1 DEF Flattens
  <2>4. j + 1 # 1 => f[j] = g[j]
    BY <1>2
  <2> QED
    BY <2>1, <2>2, <2>3, <2>4
<1> HIDE DEF S
<1>3. 0..m \subseteq S
  BY <1>1, <1>2, BoundedInduction
<1>4. m \in S /\ m # 0
  BY <1>3
<1> QED
  BY <1>4 DEF S

\* The flattening of nothing, and of one more list.
LEMMA FlattenLaws ==
  ASSUME NEW L, IsList(L), \A i \in DOMAIN L : IsList(L[i])
  PROVE  /\ L = <<>> => FlattenSeq(L) = <<>>
         /\ \A n \in 1..Len(L) :
              FlattenSeq(First(L, n)) = FlattenSeq(First(L, n - 1)) \o L[n]
         /\ L = First(L, Len(L))
<1> DEFINE F(n) == CHOOSE f : Flattens(f, First(L, n), n)
<1>1. Len(L) \in Nat /\ DOMAIN L = 1..Len(L) /\ L = First(L, Len(L))
  BY ListFacts DEF First
<1>2. ASSUME NEW n \in 0..Len(L)
      PROVE  /\ Len(First(L, n)) = n /\ Flattens(F(n), First(L, n), n)
             /\ n = 0 => FlattenSeq(First(L, n)) = <<>>
             /\ n # 0 => FlattenSeq(First(L, n)) = F(n)[n]
  <2>1. n \in Nat
    BY <1>1
  <2>2. \E f : Flattens(f, First(L, n), n)
    BY <2>1, FlattensExists
  <2>3. IsList(First(L, n)) /\ Len(First(L, n)) = n
    <3>1. First(L, n) = [p \in 1..n |-> First(L, n)[p]]
      BY DEF First
    <3> QED
      BY <2>1, <3>1, ListOfFunction
  <2>4. n = 0 => FlattenSeq(First(L, n)) = <<>>
    BY <2>3, ListFacts DEF FlattenSeq
  <2>5. n # 0 => FlattenSeq(First(L, n)) = F(n)[n]
    BY <2>3 DEF FlattenSeq, Flattens
  <2> QED
    BY <2>2, <2>3, <2>4, <2>5
<1> HIDE DEF F
<1>3. ASSUME NEW n \in 1..Len(L)
      PROVE  FlattenSeq(First(L, n)) = FlattenSeq(First(L, n - 1)) \o L[n]
  <2>1. n \in 0..Len(L) /\ n - 1 \in 0..Len(L) /\ n # 0 /\ n \in Nat
    BY <1>1
  <2>2. First(L, n)[n] = L[n]
    BY <1>1 DEF First
  <2>3. PICK f : Flattens(f, First(L, n), n) /\ FlattenSeq(First(L, n)) = f[n]
    BY <1>2, <2>1
  <2>4. f[n] = IF n = 1 THEN L[n] ELSE f[n - 1] \o L[n]
    <3>1. n \in 1..n
      BY <2>1
    <3>2. \A i \in 1..n : f[i] = IF i = 1 THEN First(L, n)[i] ELSE f[i - 1] \o First(L, n)[i]
      BY <2>3 DEF Flattens
    <3> QED
      BY <2>2, <3>1, <3>2
  <2>5. CASE n = 1
    <3>1. FlattenSeq(First(L, n - 1)) = <<>>
      BY <1>2, <2>1, <2>5
    <3>2. <<>> \o L[n] = L[n]
      BY <1>1, ConcatLaws, ShortLists
    <3> QED
      BY <2>3, <2>4, <2>5, <3>1, <3>2
  <2>6. CASE n # 1
    <3>1. n - 1 \in 1..n /\ n - 1 # 0
      BY <2>1, <2>6
    <3>2. PICK g : /\ Flattens(g, First(L, n - 1), n - 1)
                   /\ FlattenSeq(First(L, n - 1)) = g[n - 1]
      BY <1>2, <2>1, <3>1
    <3>3. \A i \in 1..(n - 1) : First(L, n)[i] = First(L, n - 1)[i]
      BY <2>1 DEF First
    <3>4. f[n - 1] = g[n - 1]
      BY <2>1, <2>3, <3>1, <3>2, <3>3, FlattensAgree
    <3> QED
      BY <2>3, <2>4, <2>6, <3>2, <3>4
  <2> QED
    BY <2>5, <2>6
<1>4. L = <<>> => FlattenSeq(L) = <<>>
  <2>1. 0 \in 0..Len(L) /\ (L = <<>> => Len(L) = 0)
    BY <1>1, ListFacts
  <2> QED
    BY <1>1, <1>2, <2>1
<1> QED
  BY <1>1, <1>3, <1>4

\* A list whose elements are lists.
IsListOfLists(L) == IsList(L) /\ \A i \in 1..Len(L) : IsList(L[i])

\* The first lists of such a list, one after the other.
LEMMA FirstLists ==
  ASSUME NEW L, IsListOfLists(L)
  PROVE  /\ Len(L) \in Nat /\ L = First(L, Len(L))
         /\ FlattenSeq(First(L, 0)) = <<>>
         /\ \A n \in 0..Len(L) : IsListOfLists(First(L, n)) /\ Len(First(L, n)) = n
         /\ \A n \in 0..Len(L) : n < Len(L) =>
              FlattenSeq(First(L, n + 1)) = FlattenSeq(First(L, n)) \o L[n + 1]
<1>1. /\ Len(L) \in Nat /\ L = First(L, Len(L)) /\ DOMAIN L = 1..Len(L)
      /\ IsList(L) /\ \A i \in DOMAIN L : IsList(L[i])
  BY ListFacts, FlattenLaws DEF IsListOfLists
<1>2. ASSUME NEW n \in 0..Len(L)
      PROVE  IsListOfLists(First(L, n)) /\ Len(First(L, n)) = n
  <2>1. First(L, n) = [p \in 1..n |-> First(L, n)[p]] /\ n \in Nat
    BY <1>1 DEF First
  <2>2. IsList(First(L, n)) /\ Len(First(L, n)) = n
    BY <2>1, ListOfFunction
  <2>3. \A i \in 1..n : First(L, n)[i] = L[i] /\ i \in 1..Len(L)
    BY <1>1 DEF First
  <2> QED
    BY <2>2, <2>3 DEF IsListOfLists
<1>3. FlattenSeq(First(L, 0)) = <<>>
  <2>1. IsListOfLists(First(L, 0)) /\ Len(First(L, 0)) = 0
    BY <1>1, <1>2
  <2>2. First(L, 0) = <<>> /\ \A i \in DOMAIN First(L, 0) : IsList(First(L, 0)[i])
    BY <2>1, ListFacts DEF IsListOfLists
  <2> QED
    BY <2>1, <2>2, FlattenLaws DEF IsListOfLists
<1>4. ASSUME NEW n \in 0..Len(L), n < Len(L)
      PROVE  FlattenSeq(First(L, n + 1)) = FlattenSeq(First(L, n)) \o L[n + 1]
  <2>1. n + 1 \in 1..Len(L) /\ (n + 1) - 1 = n
    BY <1>1, <1>4
  <2> QED
    BY <1>1, <2>1, FlattenLaws
<1> QED
  BY <1>1, <1>2, <1>3, <1>4

\* A flattened list is a list, of the elements of its lists.
LEMMA FlattenElements ==
  ASSUME NEW L, IsListOfLists(L)
  PROVE  /\ IsList(FlattenSeq(L))
         /\ \A p \in 1..Len(FlattenSeq(L)) : \E i \in 1..Len(L) : \E k \in 1..Len(L[i]) :
              FlattenSeq(L)[p] = L[i][k]
         /\ \A i \in 1..Len(L) : \A k \in 1..Len(L[i]) : \E p \in 1..Len(FlattenSeq(L)) :
              FlattenSeq(L)[p] = L[i][k]
<1> DEFINE F(n) == FlattenSeq(First(L, n))
           P(n) == /\ IsList(F(n))
                   /\ \A p \in 1..Len(F(n)) : \E i \in 1..n : \E k \in 1..Len(L[i]) :
                        F(n)[p] = L[i][k]
                   /\ \A i \in 1..n : \A k \in 1..Len(L[i]) : \E p \in 1..Len(F(n)) :
                        F(n)[p] = L[i][k]
           S == {n \in 0..Len(L) : P(n)}
<1>1. Len(L) \in Nat /\ L = First(L, Len(L))
  BY FirstLists
<1>2. 0 \in S
  <2>1. F(0) = <<>> /\ 0 \in 0..Len(L)
    BY <1>1, FirstLists
  <2> QED
    <3> HIDE DEF F
    <3>1. P(0)
      BY <2>1, EmptyList
    <3> QED
      BY <2>1, <3>1
<1>3. ASSUME NEW n \in 0..Len(L), n \in S, n < Len(L)
      PROVE  n + 1 \in S
  <2>1. n + 1 \in 1..Len(L) /\ n + 1 \in 0..Len(L) /\ IsList(L[n + 1]) /\ n \in Nat
    BY <1>1, <1>3 DEF IsListOfLists
  <2> DEFINE a == F(n)
             b == F(n + 1)
             l == L[n + 1]
  <2>2. b = a \o l
    BY <1>3, FirstLists
  <2>3. /\ IsList(a) /\ IsList(l)
        /\ \A p \in 1..Len(a) : \E i \in 1..n : \E k \in 1..Len(L[i]) : a[p] = L[i][k]
        /\ \A i \in 1..n : \A k \in 1..Len(L[i]) : \E p \in 1..Len(a) : a[p] = L[i][k]
    BY <1>3, <2>1
  <2> HIDE DEF a, b
  <2>4. /\ IsList(b) /\ Len(b) = Len(a) + Len(l)
        /\ \A p \in 1..Len(a) : b[p] = a[p]
        /\ \A p \in 1..Len(l) : b[Len(a) + p] = l[p]
        /\ Len(a) \in Nat /\ Len(l) \in Nat
    <3> HIDE DEF l
    <3> QED
      BY <2>2, <2>3, ConcatLists, ListFacts
  <2>5. ASSUME NEW p \in 1..Len(b)
        PROVE  \E i \in 1..(n + 1) : \E k \in 1..Len(L[i]) : b[p] = L[i][k]
    <3>1. CASE p \in 1..Len(a)
      <4>1. PICK i \in 1..n : \E k \in 1..Len(L[i]) : a[p] = L[i][k]
        BY <2>3, <3>1
      <4>2. b[p] = a[p] /\ i \in 1..(n + 1)
        BY <2>1, <2>4, <3>1
      <4> QED
        BY <4>1, <4>2
    <3>2. CASE p \notin 1..Len(a)
      <4>1. p - Len(a) \in 1..Len(l) /\ Len(a) + (p - Len(a)) = p
        BY <2>4, <3>2
      <4>2. b[p] = l[p - Len(a)] /\ n + 1 \in 1..(n + 1)
        BY <2>1, <2>4, <4>1
      <4> QED
        BY <4>1, <4>2
    <3> QED
      BY <3>1, <3>2
  <2>6. ASSUME NEW i \in 1..(n + 1), NEW k \in 1..Len(L[i])
        PROVE  \E p \in 1..Len(b) : b[p] = L[i][k]
    <3>1. CASE i = n + 1
      <4>1. Len(a) + k \in 1..Len(b) /\ b[Len(a) + k] = L[i][k]
        BY <2>4, <3>1
      <4> QED
        BY <4>1
    <3>2. CASE i # n + 1
      <4>1. i \in 1..n
        BY <2>1, <3>2
      <4>2. PICK p \in 1..Len(a) : a[p] = L[i][k]
        BY <2>3, <4>1
      <4>3. p \in 1..Len(b) /\ b[p] = L[i][k]
        BY <2>4, <4>2
      <4> QED
        BY <4>3
    <3> QED
      BY <3>1, <3>2
  <2>7. P(n + 1)
    BY <2>4, <2>5, <2>6 DEF b
  <2> QED
    BY <2>1, <2>7
<1> HIDE DEF S
<1>4. 0..Len(L) \subseteq S
  BY <1>1, <1>2, <1>3, BoundedInduction
<1>5. P(Len(L)) /\ F(Len(L)) = FlattenSeq(L)
  BY <1>1, <1>4 DEF S
<1> HIDE DEF F
<1> QED
  BY <1>5

\* w gives every element of s an integer.
Weighs(w, s) == \A p \in 1..Len(s) : w[s[p]] \in Int

\* What w gives the elements of s, together.
Weights(s, w) == [p \in 1..Len(s) |-> w[s[p]]]
SumOver(s, w) == SumTo(Weights(s, w), Len(s))

\* The weight of nothing, of one element, and of two lists.
LEMMA SumOverLaws ==
  ASSUME NEW w, NEW s, IsList(s), Weighs(w, s)
  PROVE  /\ SumOver(s, w) \in Int
         /\ SumOver(<<>>, w) = 0
         /\ \A x : w[x] \in Int => SumOver(<<x>>, w) = w[x]
         /\ \A t : IsList(t) /\ Weighs(w, t) =>
              SumOver(s \o t, w) = SumOver(s, w) + SumOver(t, w)
<1>1. ASSUME NEW t, IsList(t), Weighs(w, t)
      PROVE  Integers(Weights(t, w), Len(t)) /\ Len(t) \in Nat
  BY <1>1, ListFacts DEF Weighs, Integers, Weights
<1>2. SumOver(s, w) \in Int
  BY <1>1, SumLaws DEF SumOver
<1>3. SumOver(<<>>, w) = 0
  <2>1. IsList(<<>>) /\ Weighs(w, <<>>) /\ Len(<<>>) = 0
    BY EmptyList DEF Weighs
  <2>2. Integers(Weights(<<>>, w), 0)
    BY <1>1, <2>1
  <2> QED
    BY <2>1, <2>2, SumLaws DEF SumOver
<1>4. ASSUME NEW x, w[x] \in Int
      PROVE  SumOver(<<x>>, w) = w[x]
  <2>1. IsList(<<x>>) /\ Len(<<x>>) = 1 /\ <<x>>[1] = x
    BY ShortLists
  <2>2. Weighs(w, <<x>>)
    BY <1>4, <2>1 DEF Weighs
  <2>3. Integers(Weights(<<x>>, w), 1) /\ Weights(<<x>>, w)[1] = w[x]
    <3>1. Integers(Weights(<<x>>, w), 1)
      BY <1>1, <2>1, <2>2
    <3>2. Weights(<<x>>, w)[1] = w[<<x>>[1]]
      <4>1. 1 \in 1..Len(<<x>>)
        BY <2>1
      <4> QED
        BY <4>1 DEF Weights
    <3> QED
      BY <2>1, <3>1, <3>2
  <2>4. 1 \in Nat /\ 1 # 0 /\ 1 - 1 = 0
    OBVIOUS
  <2>5. SumTo(Weights(<<x>>, w), 1) = SumTo(Weights(<<x>>, w), 0) + w[x] /\ SumTo(Weights(<<x>>, w), 0) = 0
    BY <2>3, <2>4, SumLaws
  <2> QED
    BY <1>4, <2>1, <2>5 DEF SumOver
<1>5. ASSUME NEW t, IsList(t), Weighs(w, t)
      PROVE  SumOver(s \o t, w) = SumOver(s, w) + SumOver(t, w)
  <2> DEFINE c == s \o t
             n == Len(s)
             m == Len(t)
  <2>1. /\ IsList(c) /\ Len(c) = n + m /\ n \in Nat /\ m \in Nat
        /\ \A p \in 1..n : c[p] = s[p]
        /\ \A p \in 1..m : c[n + p] = t[p]
    BY <1>5, ConcatLists, ListFacts
  <2> HIDE DEF c, n, m
  <2>2. Weighs(w, c)
    <3> SUFFICES ASSUME NEW p \in 1..(n + m)
                 PROVE  w[c[p]] \in Int
      BY <2>1 DEF Weighs
    <3>1. CASE p \in 1..n
      BY <2>1, <3>1 DEF Weighs, n
    <3>2. CASE p \notin 1..n
      <4>1. p - n \in 1..m /\ n + (p - n) = p
        BY <2>1, <3>2
      <4>2. c[p] = t[p - n]
        BY <2>1, <4>1
      <4> QED
        BY <1>5, <4>1, <4>2 DEF Weighs, m
    <3> QED
      BY <3>1, <3>2
  <2>3. Integers(Weights(c, w), n + m)
    BY <1>1, <2>1, <2>2
  <2>4. \A p \in 1..n : Weights(s, w)[p] = Weights(c, w)[p]
    BY <2>1 DEF n, Weights
  <2>5. \A p \in 1..m : Weights(t, w)[p] = Weights(c, w)[n + p]
    <3> SUFFICES ASSUME NEW p \in 1..m
                 PROVE  Weights(t, w)[p] = Weights(c, w)[n + p]
      OBVIOUS
    <3>1. n + p \in 1..Len(c) /\ c[n + p] = t[p]
      BY <2>1
    <3> QED
      BY <3>1 DEF m, Weights
  <2> DEFINE f == Weights(s, w)
             g == Weights(t, w)
             h == Weights(c, w)
  <2>6. /\ n \in Nat /\ m \in Nat /\ Integers(h, n + m)
        /\ \A p \in 1..n : f[p] = h[p]
        /\ \A p \in 1..m : g[p] = h[n + p]
    BY <2>1, <2>3, <2>4, <2>5
  <2> HIDE DEF f, g, h
  <2>7. SumTo(h, n + m) = SumTo(f, n) + SumTo(g, m)
    BY <2>6, SumSplits
  <2> QED
    BY <2>1, <2>7 DEF SumOver, c, n, m, f, g, h
<1> QED
  BY <1>2, <1>3, <1>4, <1>5

\* The weight of a flattened list is the sum of the weights of its lists.
LEMMA SumOverFlatten ==
  ASSUME NEW w, NEW L, IsListOfLists(L), \A i \in 1..Len(L) : Weighs(w, L[i]),
         NEW f, \A i \in 1..Len(L) : f[i] = SumOver(L[i], w)
  PROVE  /\ Weighs(w, FlattenSeq(L)) /\ Integers(f, Len(L))
         /\ SumOver(FlattenSeq(L), w) = SumTo(f, Len(L))
<1> DEFINE F(n) == FlattenSeq(First(L, n))
           P(n) == Weighs(w, F(n)) /\ SumOver(F(n), w) = SumTo(f, n)
           S == {n \in 0..Len(L) : P(n)}
<1>1. /\ Len(L) \in Nat /\ L = First(L, Len(L))
      /\ \A i \in 1..Len(L) : IsList(L[i]) /\ f[i] \in Int
  BY FirstLists, SumOverLaws DEF IsListOfLists
<1>2. \A n \in 0..Len(L) : Integers(f, n) /\ n \in Nat
  BY <1>1 DEF Integers
<1>3. ASSUME NEW n \in 0..Len(L)
      PROVE  Weighs(w, F(n)) /\ IsList(F(n))
  <2>1. IsListOfLists(First(L, n)) /\ Len(First(L, n)) = n /\ n \in Nat
    BY <1>1, FirstLists
  <2>2. IsList(F(n)) /\ \A p \in 1..Len(F(n)) : \E i \in 1..n : \E k \in 1..Len(First(L, n)[i]) :
                          F(n)[p] = First(L, n)[i][k]
    BY <2>1, FlattenElements
  <2>3. \A i \in 1..n : First(L, n)[i] = L[i] /\ i \in 1..Len(L)
    BY <1>1 DEF First
  <2> HIDE DEF F
  <2>4. ASSUME NEW p \in 1..Len(F(n))
        PROVE  w[F(n)[p]] \in Int
    <3>1. PICK i \in 1..n : \E k \in 1..Len(First(L, n)[i]) : F(n)[p] = First(L, n)[i][k]
      BY <2>2
    <3>2. PICK k \in 1..Len(L[i]) : F(n)[p] = L[i][k]
      BY <2>3, <3>1
    <3> QED
      BY <2>3, <3>2 DEF Weighs
  <2> QED
    BY <2>2, <2>4 DEF Weighs
<1>4. 0 \in S
  <2>1. F(0) = <<>> /\ 0 \in 0..Len(L) /\ SumTo(f, 0) = 0
    BY <1>1, <1>2, FirstLists, SumLaws
  <2>2. SumOver(<<>>, w) = 0
    BY EmptyList, SumOverLaws DEF Weighs
  <2> QED
    BY <1>3, <2>1, <2>2
<1>5. ASSUME NEW n \in 0..Len(L), n \in S, n < Len(L)
      PROVE  n + 1 \in S
  <2> DEFINE a == F(n)
             b == F(n + 1)
             l == L[n + 1]
  <2>1. /\ n + 1 \in 1..Len(L) /\ n + 1 \in 0..Len(L) /\ n + 1 # 0 /\ (n + 1) - 1 = n
        /\ IsList(l) /\ Weighs(w, l)
    BY <1>1, <1>5
  <2>2. b = a \o l /\ IsList(a) /\ Weighs(w, a) /\ Weighs(w, b)
    BY <1>3, <1>5, <2>1, FirstLists
  <2>3. SumOver(a, w) = SumTo(f, n)
    BY <1>5
  <2>4. SumTo(f, n + 1) = SumTo(f, n) + SumOver(l, w)
    BY <1>2, <2>1, SumLaws
  <2> HIDE DEF a, b, l
  <2>5. SumOver(b, w) = SumOver(a, w) + SumOver(l, w)
    BY <2>1, <2>2, SumOverLaws
  <2>6. P(n + 1)
    BY <2>2, <2>3, <2>4, <2>5 DEF b
  <2> QED
    BY <2>1, <2>6
<1> HIDE DEF S
<1>6. 0..Len(L) \subseteq S
  BY <1>1, <1>4, <1>5, BoundedInduction
<1>7. P(Len(L)) /\ F(Len(L)) = FlattenSeq(L)
  BY <1>1, <1>6 DEF S
<1> HIDE DEF F
<1> QED
  BY <1>1, <1>2, <1>7

\* Flattening two lists of lists, one after the other.
LEMMA FlattenConcat ==
  ASSUME NEW L, NEW K, IsListOfLists(L), IsListOfLists(K)
  PROVE  IsListOfLists(L \o K) /\ FlattenSeq(L \o K) = FlattenSeq(L) \o FlattenSeq(K)
<1> DEFINE C == L \o K
           n == Len(L)
           P(m) == FlattenSeq(First(C, n + m)) = FlattenSeq(L) \o FlattenSeq(First(K, m))
           S == {m \in 0..Len(K) : P(m)}
<1>1. /\ n \in Nat /\ Len(K) \in Nat /\ IsList(L) /\ IsList(K)
      /\ \A i \in 1..n : IsList(L[i])
      /\ \A i \in 1..Len(K) : IsList(K[i])
  BY FirstLists DEF IsListOfLists
<1>2. /\ IsList(C) /\ Len(C) = n + Len(K)
      /\ \A i \in 1..n : C[i] = L[i]
      /\ \A i \in 1..Len(K) : C[n + i] = K[i]
  BY <1>1, ConcatLists
<1> HIDE DEF C, n
<1>3. IsListOfLists(C)
  <2> SUFFICES ASSUME NEW i \in 1..Len(C)
               PROVE  IsList(C[i])
    BY <1>2 DEF IsListOfLists
  <2>1. CASE i \in 1..n
    BY <1>1, <1>2, <2>1
  <2>2. CASE i \notin 1..n
    <3>1. i - n \in 1..Len(K) /\ n + (i - n) = i
      BY <1>1, <1>2, <2>2
    <3> QED
      BY <1>1, <1>2, <3>1
  <2> QED
    BY <2>1, <2>2
<1>4. IsList(FlattenSeq(L))
  BY FlattenElements
<1>5. 0 \in S
  <2>1. First(C, n + 0) = L
    <3>1. First(C, n + 0) = [i \in 1..n |-> C[i]] /\ L = [i \in 1..n |-> L[i]]
      BY <1>1, FirstLists DEF First, n
    <3>2. [i \in 1..n |-> C[i]] = [i \in 1..n |-> L[i]]
      BY <1>2
    <3> QED
      BY <3>1, <3>2
  <2>2. FlattenSeq(First(K, 0)) = <<>> /\ 0 \in 0..Len(K)
    BY <1>1, FirstLists
  <2>3. FlattenSeq(L) \o <<>> = FlattenSeq(L)
    BY <1>4, ConcatLaws
  <2> QED
    BY <2>1, <2>2, <2>3
<1>6. ASSUME NEW m \in 0..Len(K), m \in S, m < Len(K)
      PROVE  m + 1 \in S
  <2>1. /\ m + 1 \in 0..Len(K) /\ m + 1 \in 1..Len(K) /\ n + m \in 0..Len(C) /\ n + m < Len(C)
        /\ n + (m + 1) = (n + m) + 1 /\ m \in Nat
    BY <1>1, <1>2, <1>6
  <2> DEFINE a == FlattenSeq(L)
             b == FlattenSeq(First(K, m))
             l == K[m + 1]
  <2>2. FlattenSeq(First(C, n + (m + 1))) = FlattenSeq(First(C, n + m)) \o C[n + (m + 1)]
    BY <1>3, <2>1, FirstLists
  <2>3. C[n + (m + 1)] = l
    BY <1>2, <2>1
  <2>4. FlattenSeq(First(C, n + m)) = a \o b
    BY <1>6
  <2>5. FlattenSeq(First(K, m + 1)) = b \o l
    BY <1>6, FirstLists
  <2>6. IsList(a) /\ IsList(b) /\ IsList(l)
    BY <1>1, <1>4, <1>6, <2>1, FirstLists, FlattenElements
  <2> HIDE DEF a, b, l
  <2>7. (a \o b) \o l = a \o (b \o l)
    BY <2>6, ConcatLaws
  <2>8. P(m + 1)
    BY <2>2, <2>3, <2>4, <2>5, <2>7 DEF a
  <2> QED
    BY <2>1, <2>8
<1> HIDE DEF S
<1>7. 0..Len(K) \subseteq S
  BY <1>1, <1>5, <1>6, BoundedInduction
<1>8. P(Len(K))
  BY <1>1, <1>7 DEF S
<1>9. K = First(K, Len(K)) /\ C = First(C, Len(C))
  BY <1>3, FirstLists
<1> QED
  BY <1>2, <1>3, <1>8, <1>9 DEF C

\* Flattening one list, and a list of lists of one element each.
LEMMA FlattenSingles ==
  ASSUME NEW s, IsList(s)
  PROVE  /\ FlattenSeq(<<s>>) = s
         /\ \A L : L = [p \in 1..Len(s) |-> <<s[p]>>] => FlattenSeq(L) = s
<1>1. FlattenSeq(<<s>>) = s
  <2>1. IsList(<<s>>) /\ Len(<<s>>) = 1 /\ <<s>>[1] = s
    BY ShortLists
  <2>2. IsListOfLists(<<s>>)
    BY <2>1 DEF IsListOfLists
  <2>3. PICK L : L = <<s>>
    OBVIOUS
  <2>4. IsListOfLists(L) /\ Len(L) = 1 /\ L[1] = s
    BY <2>1, <2>2, <2>3
  <2>5. 0 \in 0..Len(L) /\ 0 < Len(L) /\ 0 + 1 = 1
    BY <2>4
  <2>6. /\ FlattenSeq(First(L, 0)) = <<>> /\ L = First(L, 1)
        /\ FlattenSeq(First(L, 1)) = FlattenSeq(First(L, 0)) \o L[1]
    BY <2>4, <2>5, FirstLists
  <2>7. <<>> \o s = s
    BY ConcatLaws
  <2>8. FlattenSeq(L) = s
    BY <2>4, <2>6, <2>7
  <2> QED
    BY <2>3, <2>8
<1>2. ASSUME NEW L, L = [p \in 1..Len(s) |-> <<s[p]>>]
      PROVE  FlattenSeq(L) = s
  <2> DEFINE n == Len(s)
             P(m) == /\ IsList(FlattenSeq(First(L, m))) /\ Len(FlattenSeq(First(L, m))) = m
                     /\ \A p \in 1..m : FlattenSeq(First(L, m))[p] = s[p]
             S == {m \in 0..n : P(m)}
  <2>1. n \in Nat
    BY ListFacts
  <2> HIDE DEF n
  <2>2. L = [p \in 1..n |-> L[p]] /\ \A p \in 1..n : L[p] = <<s[p]>>
    BY <1>2 DEF n
  <2>3. IsList(L) /\ Len(L) = n
    BY <2>1, <2>2, ListOfFunction
  <2>4. IsListOfLists(L)
    <3>1. ASSUME NEW p \in 1..n PROVE IsList(L[p])
      <4>1. IsList(<<s[p]>>)
        BY ShortLists
      <4> QED
        BY <2>2, <4>1
    <3> QED
      BY <2>3, <3>1 DEF IsListOfLists
  <2>5. 0 \in S
    <3>1. FlattenSeq(First(L, 0)) = <<>> /\ 0 \in 0..n
      BY <2>1, <2>4, FirstLists
    <3>2. P(0)
      BY <3>1, EmptyList
    <3> QED
      BY <3>1, <3>2
  <2>6. ASSUME NEW m \in 0..n, m \in S, m < n
        PROVE  m + 1 \in S
    <3> DEFINE a == FlattenSeq(First(L, m))
               b == FlattenSeq(First(L, m + 1))
               l == L[m + 1]
    <3>1. m + 1 \in 0..n /\ m + 1 \in 1..n /\ m \in Nat
      BY <2>1, <2>6
    <3>2. b = a \o l /\ l = <<s[m + 1]>>
      BY <2>2, <2>3, <2>4, <2>6, <3>1, FirstLists
    <3>3. IsList(a) /\ Len(a) = m /\ \A p \in 1..m : a[p] = s[p]
      BY <2>6
    <3> HIDE DEF a, b, l
    <3>4. IsList(l) /\ Len(l) = 1 /\ l[1] = s[m + 1]
      BY <3>2, ShortLists
    <3>5. /\ IsList(b) /\ Len(b) = m + 1
          /\ \A p \in 1..m : b[p] = a[p]
          /\ b[m + 1] = l[1]
      BY <3>2, <3>3, <3>4, ConcatLists
    <3>6. \A p \in 1..(m + 1) : b[p] = s[p]
      <4> SUFFICES ASSUME NEW p \in 1..(m + 1)
                   PROVE  b[p] = s[p]
        OBVIOUS
      <4>1. p \in 1..m \/ p = m + 1
        BY <3>1
      <4> QED
        BY <3>3, <3>4, <3>5, <4>1
    <3>7. P(m + 1)
      BY <3>5, <3>6 DEF b
    <3> QED
      BY <3>1, <3>7
  <2> HIDE DEF S
  <2>7. 0..n \subseteq S
    BY <2>1, <2>5, <2>6, BoundedInduction
  <2>8. P(n) /\ L = First(L, n)
    BY <2>1, <2>3, <2>4, <2>7, FirstLists DEF S
  <2>9. IsList(FlattenSeq(L)) /\ Len(FlattenSeq(L)) = n /\ \A p \in 1..n : FlattenSeq(L)[p] = s[p]
    BY <2>8
  <2> QED
    BY <2>9, ListsEqual DEF n
<1> QED
  BY <1>1, <1>2

-----------------------------------------------------------------------------
(* Sums that wrap.                                                          *)

\* The remainder of a number is the one with which a quotient gives it back.
LEMMA Remainder ==
  ASSUME NEW m \in Nat \ {0}, NEW a \in Int, NEW q \in Int, NEW r \in 0..(m - 1), a = q * m + r
  PROVE  a % m = r
OBVIOUS

\* Taking remainders first changes no remainder of a sum.
LEMMA RemainderOfSum ==
  ASSUME NEW m \in Nat \ {0}, NEW a \in Int, NEW b \in Int
  PROVE  ((a % m) + b) % m = (a + b) % m
<1>1. /\ a = (a \div m) * m + (a % m)
      /\ (a \div m) \in Int
      /\ (a % m) \in 0..(m - 1)
  OBVIOUS
<1> DEFINE c == (a % m) + b
<1>2. c \in Int
  BY <1>1
<1> HIDE DEF c
<1>3. /\ c = (c \div m) * m + (c % m)
      /\ (c \div m) \in Int
      /\ (c % m) \in 0..(m - 1)
  BY <1>2
<1> DEFINE p == a \div m
           q == c \div m
           r == c % m
           x == a % m
<1>4. a = p * m + x /\ c = q * m + r /\ c = x + b /\ p \in Int /\ q \in Int /\ x \in Int /\ r \in 0..(m - 1)
  BY <1>1, <1>3 DEF c
<1> HIDE DEF p, q, r, x
<1>5. a + b = (p + q) * m + r
  <2>1. (p + q) * m = p * m + q * m
    BY <1>4
  <2>2. p * m \in Int /\ q * m \in Int
    BY <1>4
  <2> QED
    BY <1>4, <2>1, <2>2
<1>6. (a + b) % m = r
  <2>1. p + q \in Int /\ a + b \in Int
    BY <1>4
  <2> QED
    BY <1>4, <1>5, <2>1, Remainder
<1> QED
  BY <1>4, <1>6 DEF r, c

\* An i64 sum may wrap at any step, or once at the end.
LEMMA WrapLaws ==
  ASSUME NEW a \in Int, NEW b \in Int
  PROVE  /\ WrapI64(a) \in Int
         /\ WrapI64(0) = 0
         /\ WrapI64(WrapI64(a)) = WrapI64(a)
         /\ WrapI64(WrapI64(a) + b) = WrapI64(a + b)
<1> DEFINE M == I64Max + 1
           m == 2 * (I64Max + 1)
<1>1. M \in Nat \ {0} /\ m \in Nat \ {0} /\ m = M + M
  BY WidthAssumption
<1>2. \A n : WrapI64(n) = ((n + I64Max + 1) % m) - M
  BY DEF WrapI64
<1>3. \A n \in Int : n + I64Max + 1 = n + M
  BY WidthAssumption
<1> HIDE DEF M, m
<1>4. \A n \in Int : WrapI64(n) = ((n + M) % m) - M /\ WrapI64(n) \in Int
  BY <1>1, <1>2, <1>3
<1>5. WrapI64(0) = 0
  <2>1. 0 * m + M = 0 + M /\ M \in 0..(m - 1) /\ 0 + M \in Int
    BY <1>1
  <2>2. (0 + M) % m = M
    BY <1>1, <2>1, Remainder
  <2> QED
    BY <1>1, <1>4, <2>2
<1>6. ASSUME NEW d \in Int
      PROVE  WrapI64(WrapI64(a) + d) = WrapI64(a + d)
  <2>1. a + M \in Int /\ (a + M) % m \in Int
    BY <1>1
  <2>2. WrapI64(a) + d \in Int /\ (WrapI64(a) + d) + M = ((a + M) % m) + d
    BY <1>1, <1>4, <2>1
  <2>3. (((a + M) % m) + d) % m = ((a + M) + d) % m
    BY <1>1, <2>1, RemainderOfSum
  <2>4. (a + M) + d = (a + d) + M /\ a + d \in Int
    BY <1>1
  <2> QED
    BY <1>4, <2>2, <2>3, <2>4
<1>7. WrapI64(WrapI64(a)) = WrapI64(a)
  <2>1. WrapI64(WrapI64(a) + 0) = WrapI64(a + 0) /\ WrapI64(a) \in Int
    BY <1>4, <1>6
  <2> QED
    BY <2>1
<1> QED
  BY <1>4, <1>5, <1>6, <1>7

\* Two numbers that wrap to the same.
Congruent(a, b) == WrapI64(a) = WrapI64(b)

\* Congruent numbers add up to congruent numbers.
LEMMA CongruentSums ==
  ASSUME NEW a \in Int, NEW b \in Int, NEW c \in Int, NEW d \in Int,
         Congruent(a, b), Congruent(c, d)
  PROVE  Congruent(a + c, b + d)
<1>1. /\ WrapI64(WrapI64(a) + c) = WrapI64(a + c)
      /\ WrapI64(WrapI64(b) + c) = WrapI64(b + c)
      /\ WrapI64(WrapI64(c) + b) = WrapI64(c + b)
      /\ WrapI64(WrapI64(d) + b) = WrapI64(d + b)
  BY WrapLaws
<1>2. c + b = b + c /\ d + b = b + d
  OBVIOUS
<1> QED
  BY <1>1, <1>2 DEF Congruent

\* Sums of congruent values are congruent.
LEMMA CongruentSumTo ==
  ASSUME NEW n \in Nat, NEW f, NEW g, Integers(f, n), Integers(g, n),
         \A k \in 1..n : Congruent(f[k], g[k])
  PROVE  Congruent(SumTo(f, n), SumTo(g, n))
<1> DEFINE P(m) == Congruent(SumTo(f, m), SumTo(g, m))
           S == {m \in 0..n : P(m)}
<1>1. \A m \in 0..n : Integers(f, m) /\ Integers(g, m) /\ m \in Nat
  BY DEF Integers
<1>2. 0 \in S
  <2>1. SumTo(f, 0) = 0 /\ SumTo(g, 0) = 0 /\ 0 \in 0..n
    BY SumLaws
  <2> QED
    BY <2>1 DEF Congruent
<1>3. ASSUME NEW m \in 0..n, m \in S, m < n
      PROVE  m + 1 \in S
  <2>1. /\ m + 1 \in 0..n /\ m + 1 \in 1..n /\ m \in Nat /\ m + 1 \in Nat /\ (m + 1) - 1 = m
        /\ m + 1 # 0 /\ f[m + 1] \in Int /\ g[m + 1] \in Int
        /\ Congruent(f[m + 1], g[m + 1])
    BY <1>3 DEF Integers
  <2>2. SumTo(f, m) \in Int /\ SumTo(g, m) \in Int
    BY <1>1, <2>1, SumLaws
  <2>3. SumTo(f, m + 1) = SumTo(f, m) + f[m + 1] /\ SumTo(g, m + 1) = SumTo(g, m) + g[m + 1]
    BY <1>1, <2>1, SumLaws
  <2>4. P(m)
    BY <1>3
  <2>5. P(m + 1)
    BY <2>1, <2>2, <2>3, <2>4, CongruentSums
  <2> QED
    BY <2>1, <2>5
<1> HIDE DEF S
<1>4. 0..n \subseteq S
  BY <1>2, <1>3, BoundedInduction
<1>5. P(n)
  BY <1>4 DEF S
<1> QED
  BY <1>5

-----------------------------------------------------------------------------
(* Folds.                                                                   *)

\* A set of numbers that is not empty has a least one.
LEMMA LeastNumber ==
  ASSUME NEW S \in SUBSET Nat, S # {}
  PROVE  \E m \in S : \A k \in S : m <= k
<1>1. PICK m \in S : \A k \in S : ~ (<<k, m>> \in OpToRel(<, Nat))
  BY NatLessThanWellFounded, WFMin
<1>2. \A k \in S : ~(k < m)
  BY <1>1 DEF OpToRel
<1> QED
  BY <1>2

\* Max of a finite set of positions is one of them and no less than any.
LEMMA GreatestExists ==
  ASSUME NEW n \in Nat, NEW T \in SUBSET (1..n), T # {}
  PROVE  Max(T) \in T /\ \A y \in T : Max(T) >= y
<1> DEFINE S == {k \in 0..n : n - k \in T}
<1>1. PICK t \in T : t \in 1..n
  OBVIOUS
<1>2. n - t \in S
  <2>1. n - (n - t) = t /\ n - t \in 0..n
    BY <1>1
  <2> QED
    BY <1>1, <2>1
<1>3. PICK m \in S : \A k \in S : m <= k
  <2>1. S \in SUBSET Nat
    OBVIOUS
  <2> HIDE DEF S
  <2> QED
    BY <1>2, <2>1, LeastNumber
<1>4. ASSUME NEW y \in T PROVE n - m >= y
  <2>1. y \in 1..n /\ n - (n - y) = y /\ n - y \in 0..n
    OBVIOUS
  <2>2. m <= n - y
    BY <1>3, <2>1
  <2> QED
    BY <2>1, <2>2
<1>5. n - m \in T
  OBVIOUS
<1> QED
  BY <1>4, <1>5 DEF Max

\* The last of n positions is n.
LEMMA GreatestOfRange ==
  ASSUME NEW n \in Nat \ {0}
  PROVE  Max(1..n) = n
<1>1. 1..n \in SUBSET (1..n) /\ 1..n # {} /\ n \in 1..n
  OBVIOUS
<1>2. Max(1..n) \in 1..n /\ Max(1..n) >= n
  BY <1>1, GreatestExists
<1> QED
  BY <1>2

\* g folds step over the positions up to n, taken from the greatest down.
IsFold(g, n, base, step) ==
  \A T \in SUBSET (1..n) :
    g[T] = IF T = {} THEN base ELSE step[<<Max(T), g[T \ {Max(T)}]>>]

\* Such a fold is well defined.
LEMMA FoldExists ==
  ASSUME NEW n \in Nat, NEW V, NEW base \in V, NEW step \in [(1..n) \X V -> V]
  PROVE  \E g \in [SUBSET (1..n) -> V] : IsFold(g, n, base, step)
<1> DEFINE Fold(g, m) ==
             \A T \in SUBSET (1..m) :
               g[T] = IF T = {} THEN base ELSE step[<<Max(T), g[T \ {Max(T)}]>>]
           S == {m \in 0..n : \E g \in [SUBSET (1..m) -> V] : Fold(g, m)}
<1>1. 0 \in S
  <2> DEFINE g == [T \in SUBSET (1..0) |-> base]
  <2>1. \A T \in SUBSET (1..0) : T = {}
    OBVIOUS
  <2>2. g \in [SUBSET (1..0) -> V] /\ Fold(g, 0)
    BY <2>1
  <2>3. 0 \in 0..n
    OBVIOUS
  <2> QED
    BY <2>2, <2>3
<1>2. ASSUME NEW m \in 0..n, m \in S, m < n
      PROVE  m + 1 \in S
  <2>1. PICK g \in [SUBSET (1..m) -> V] : Fold(g, m)
    BY <1>2
  <2> DEFINE h == [T \in SUBSET (1..(m + 1)) |->
                     IF m + 1 \in T THEN step[<<m + 1, g[T \ {m + 1}]>>] ELSE g[T]]
  <2>2. \A T \in SUBSET (1..(m + 1)) : T \ {m + 1} \in SUBSET (1..m)
    OBVIOUS
  <2>3. \A T \in SUBSET (1..(m + 1)) : m + 1 \notin T => T \in SUBSET (1..m)
    BY <2>2
  <2>4. m + 1 \in 1..n
    BY <1>2
  <2>5. h \in [SUBSET (1..(m + 1)) -> V]
    BY <2>2, <2>3, <2>4
  <2>6. ASSUME NEW T \in SUBSET (1..(m + 1))
        PROVE  h[T] = IF T = {} THEN base ELSE step[<<Max(T), h[T \ {Max(T)}]>>]
    <3>1. CASE m + 1 \in T
      <4>1. Max(T) = m + 1
        <5>1. m + 1 \in Nat /\ T # {}
          BY <3>1
        <5>2. Max(T) \in T /\ Max(T) >= m + 1
          BY <3>1, <5>1, GreatestExists
        <5>3. Max(T) \in 1..(m + 1)
          BY <5>2
        <5> QED
          BY <5>2, <5>3
      <4>2. T \ {m + 1} \in SUBSET (1..(m + 1)) /\ m + 1 \notin T \ {m + 1}
        OBVIOUS
      <4>3. h[T \ {m + 1}] = g[T \ {m + 1}]
        BY <4>2
      <4>4. h[T] = step[<<m + 1, g[T \ {m + 1}]>>]
        BY <3>1
      <4> QED
        BY <3>1, <4>1, <4>3, <4>4
    <3>2. CASE m + 1 \notin T
      <4>1. T \in SUBSET (1..m) /\ h[T] = g[T]
        BY <2>3, <3>2
      <4>2. CASE T = {}
        BY <2>1, <4>1, <4>2
      <4>3. CASE T # {}
        <5>1. g[T] = step[<<Max(T), g[T \ {Max(T)}]>>]
          BY <2>1, <4>1, <4>3
        <5>2. h[T \ {Max(T)}] = g[T \ {Max(T)}]
          <6>1. T \ {Max(T)} \in SUBSET (1..(m + 1)) /\ m + 1 \notin T \ {Max(T)}
            BY <3>2
          <6> QED
            BY <6>1
        <5> HIDE DEF h
        <5> QED
          BY <4>1, <4>3, <5>1, <5>2
      <4> QED
        BY <4>2, <4>3
    <3> QED
      BY <3>1, <3>2
  <2>7. m + 1 \in 0..n
    BY <1>2
  <2> HIDE DEF h
  <2> QED
    BY <2>5, <2>6, <2>7
<1>3. n \in S
  <2>1. \A k \in 0..n : k \in S /\ k < n => k + 1 \in S
    BY <1>2
  <2> HIDE DEF S
  <2>2. 0..n \subseteq S
    BY <1>1, <2>1, BoundedInduction
  <2> QED
    BY <2>2
<1> QED
  BY <1>3 DEF IsFold

\* The positions the turns of such a fold take.
LEMMA Turn ==
  ASSUME NEW n \in Nat, NEW k \in 1..n
  PROVE  /\ 1..k \in SUBSET (1..n) /\ 1..k # {}
         /\ Max(1..k) = k /\ (1..k) \ {Max(1..k)} = 1..(k - 1)
<1>1. Max(1..k) = k
  BY GreatestOfRange
<1> QED
  BY <1>1

\* h is the history of a sum that wraps at every turn.
SumHistory(h, values) ==
  /\ h \in [0..Len(values) -> Int] /\ h[0] = 0
  /\ \A k \in 1..Len(values) : h[k] = WrapI64(h[k - 1] + values[k])

\* The loop that adds up a list has a history.
LEMMA SumOfHistory ==
  ASSUME NEW values, IsList(values), Integers(values, Len(values))
  PROVE  \E h : SumHistory(h, values) /\ SumOf(values) = h[Len(values)]
<1> DEFINE n == Len(values)
           step == [p \in (1..n) \X Int |-> WrapI64(p[2] + values[p[1]])]
           Eqn(g) == g = [T \in SUBSET DOMAIN values |->
                            IF T = {} THEN 0
                            ELSE WrapI64(g[T \ {Max(T)}] + values[Max(T)])]
           iter == CHOOSE g : Eqn(g)
           h == [k \in 0..n |-> iter[1..k]]
<1>1. n \in Nat /\ DOMAIN values = 1..n /\ \A k \in 1..n : values[k] \in Int
  BY ListFacts DEF Integers
<1>2. ASSUME NEW x \in Int, NEW k \in 1..n
      PROVE  WrapI64(x + values[k]) \in Int
  <2>1. x + values[k] \in Int /\ 0 \in Int
    BY <1>1
  <2> QED
    BY <2>1, WrapLaws
<1>3. step \in [(1..n) \X Int -> Int]
  BY <1>1, <1>2
<1>4. SumOf(values) = iter[DOMAIN values]
  BY DEF SumOf, FoldLeft, MapThenFoldSet
<1>5. \A T \in SUBSET (1..n) : T # {} => Max(T) \in 1..n /\ T \ {Max(T)} \in SUBSET (1..n)
  BY <1>1, GreatestExists
<1>6. PICK g \in [SUBSET (1..n) -> Int] : IsFold(g, n, 0, step)
  <2> DEFINE V == Int
             base == 0
  <2>1. base \in V /\ step \in [(1..n) \X V -> V]
    BY <1>3
  <2> HIDE DEF n, step, iter, V, base
  <2>2. \E g \in [SUBSET (1..n) -> V] : IsFold(g, n, base, step)
    BY <1>1, <2>1, FoldExists
  <2> QED
    BY <2>2 DEF V, base
<1>7. Eqn(g)
  <2>1. ASSUME NEW T \in SUBSET (1..n), T # {}
        PROVE  g[T] = WrapI64(g[T \ {Max(T)}] + values[Max(T)])
    <3>1. Max(T) \in 1..n /\ g[T \ {Max(T)}] \in Int
      BY <1>5, <1>6, <2>1
    <3>2. g[T] = step[<<Max(T), g[T \ {Max(T)}]>>]
      BY <1>6, <2>1 DEF IsFold
    <3> QED
      BY <3>1, <3>2
  <2>2. g[{}] = 0
    BY <1>6 DEF IsFold
  <2>3. g = [T \in SUBSET (1..n) |-> g[T]]
    BY <1>6
  <2> QED
    BY <1>1, <2>1, <2>2, <2>3
<1>8. Eqn(iter)
  BY <1>7
<1>9. h[0] = 0 /\ h[n] = iter[DOMAIN values]
  <2>1. 1..0 = {} /\ 0 \in 0..n /\ n \in 0..n
    BY <1>1
  <2> HIDE DEF iter
  <2> QED
    BY <1>1, <1>8, <2>1
<1>10. ASSUME NEW k \in 1..n PROVE h[k] = WrapI64(h[k - 1] + values[k])
  <2>1. k \in 0..n /\ k - 1 \in 0..n
    BY <1>1
  <2>2. 1..k \in SUBSET DOMAIN values /\ 1..k # {} /\ Max(1..k) = k
        /\ (1..k) \ {Max(1..k)} = 1..(k - 1)
    BY <1>1, Turn
  <2>3. iter[1..k] = WrapI64(iter[(1..k) \ {Max(1..k)}] + values[Max(1..k)])
    <3> HIDE DEF iter
    <3> QED
      BY <1>8, <2>2
  <2> HIDE DEF iter
  <2> QED
    BY <2>1, <2>2, <2>3
<1>11. \A k \in 0..n : h[k] \in Int
  <2> DEFINE S == {k \in 0..n : h[k] \in Int}
  <2>1. 0 \in S
    BY <1>1, <1>9
  <2>2. ASSUME NEW k \in 0..n, k \in S, k < n PROVE k + 1 \in S
    <3>1. k + 1 \in 1..n /\ k + 1 \in 0..n /\ (k + 1) - 1 = k /\ h[k] \in Int
      BY <1>1, <2>2
    <3> HIDE DEF h
    <3> QED
      BY <1>2, <1>10, <3>1
  <2> HIDE DEF S, h
  <2>3. 0..n \subseteq S
    BY <1>1, <2>1, <2>2, BoundedInduction
  <2> QED
    BY <2>3 DEF S
<1> QED
  <2>1. h \in [0..n -> Int]
    BY <1>11
  <2> HIDE DEF h
  <2>2. SumHistory(h, values)
    BY <1>9, <1>10, <2>1 DEF SumHistory
  <2> HIDE DEF iter
  <2> QED
    BY <1>4, <1>9, <2>2

\* A sum that wraps at every turn is the sum, wrapped.
LEMMA SumOfIsSum ==
  ASSUME NEW values, IsList(values), Integers(values, Len(values))
  PROVE  SumOf(values) = WrapI64(SumTo(values, Len(values)))
<1>1. PICK h : SumHistory(h, values) /\ SumOf(values) = h[Len(values)]
  BY SumOfHistory
<1> DEFINE n == Len(values)
           S == {k \in 0..n : h[k] = WrapI64(SumTo(values, k))}
<1>2. n \in Nat /\ \A k \in 0..n : Integers(values, k) /\ k \in Nat
  BY ListFacts DEF Integers
<1>3. /\ h[0] = 0 /\ \A k \in 1..n : h[k] = WrapI64(h[k - 1] + values[k])
      /\ \A k \in 1..n : values[k] \in Int
  BY <1>1 DEF SumHistory, Integers
<1> HIDE DEF n
<1>4. 0 \in S
  <2>1. SumTo(values, 0) = 0 /\ WrapI64(0) = 0
    BY <1>2, SumLaws, WrapLaws
  <2> QED
    BY <1>2, <1>3, <2>1
<1>5. ASSUME NEW k \in 0..n, k \in S, k < n
      PROVE  k + 1 \in S
  <2>1. k + 1 \in 1..n /\ k + 1 \in 0..n /\ (k + 1) - 1 = k /\ k + 1 # 0
    BY <1>2, <1>5
  <2>2. /\ SumTo(values, k) \in Int
        /\ SumTo(values, k + 1) = SumTo(values, k) + values[k + 1]
    BY <1>2, <2>1, SumLaws
  <2>3. h[k + 1] = WrapI64(WrapI64(SumTo(values, k)) + values[k + 1])
    BY <1>3, <1>5, <2>1
  <2>4. values[k + 1] \in Int
    BY <1>3, <2>1
  <2>5. h[k + 1] = WrapI64(SumTo(values, k + 1))
    <3> DEFINE a == SumTo(values, k)
               b == values[k + 1]
    <3> HIDE DEF a, b
    <3>1. WrapI64(WrapI64(a) + b) = WrapI64(a + b)
      BY <2>2, <2>4, WrapLaws DEF a, b
    <3> QED
      BY <2>2, <2>3, <3>1 DEF a, b
  <2> QED
    BY <2>1, <2>5
<1> HIDE DEF S
<1>6. 0..n \subseteq S
  BY <1>2, <1>4, <1>5, BoundedInduction
<1>7. n \in S
  BY <1>2, <1>6
<1> QED
  BY <1>1, <1>7 DEF S, n

\* Entries whose keys are in K, and what counts towards one key.
EntryOf(K) == [key : K, amount : Int]
AmountFor(k, K) == [e \in EntryOf(K) |-> IF e.key = k THEN e.amount ELSE 0]

KeysUpTo(entries, n) == {entries[p].key : p \in 1..n}

\* What a tally of entries can be.
TallyOf(K) == UNION {[D -> Int] : D \in SUBSET K}

\* h is the history of a tally.
TallyHistory(h, entries) ==
  /\ h[0] = NoTally
  /\ \A k \in 1..Len(entries) : h[k] = Add(h[k - 1], entries[k])

\* One more entry makes a tally of a tally.
LEMMA AddTypes ==
  ASSUME NEW K, NEW tally \in TallyOf(K), NEW entry \in EntryOf(K)
  PROVE  Add(tally, entry) \in TallyOf(K)
<1>1. PICK D \in SUBSET K : tally \in [D -> Int]
  BY DEF TallyOf
<1>2. entry.key \in K /\ entry.amount \in Int
  BY DEF EntryOf
<1> DEFINE D2 == D \cup {entry.key}
           t == Add(tally, entry)
<1>3. D2 \in SUBSET K /\ DOMAIN tally = D
  BY <1>1, <1>2
<1>4. ASSUME NEW k \in D2
      PROVE  t[k] \in Int
  <2> DEFINE a == IF k \in D THEN tally[k] ELSE 0
             b == entry.amount
  <2>1. a \in Int /\ b \in Int /\ a + b \in Int
    BY <1>1, <1>2
  <2>2. t[k] = IF k # entry.key THEN tally[k] ELSE WrapI64(a + b)
    BY <1>3 DEF Add
  <2> HIDE DEF a, b, t
  <2>3. WrapI64(a + b) \in Int
    BY <2>1, WrapLaws
  <2>4. k # entry.key => tally[k] \in Int
    BY <1>1
  <2> QED
    BY <2>2, <2>3, <2>4
<1>5. t = [k \in D2 |-> t[k]]
  BY <1>3 DEF Add
<1> HIDE DEF t, D2
<1>6. t \in [D2 -> Int]
  BY <1>4, <1>5
<1> QED
  BY <1>3, <1>6 DEF TallyOf, t

\* The loop that tallies a list has a history.
LEMMA HistoryOfTally ==
  ASSUME NEW K, NEW entries, IsList(entries),
         \A p \in 1..Len(entries) : entries[p] \in EntryOf(K)
  PROVE  \E h : TallyHistory(h, entries) /\ Tally(entries) = h[Len(entries)]
<1> DEFINE n == Len(entries)
           V == TallyOf(K)
           step == [p \in (1..n) \X V |-> Add(p[2], entries[p[1]])]
           Eqn(g) == g = [T \in SUBSET DOMAIN entries |->
                            IF T = {} THEN NoTally
                            ELSE Add(g[T \ {Max(T)}], entries[Max(T)])]
           iter == CHOOSE g : Eqn(g)
           h == [k \in 0..n |-> iter[1..k]]
<1>1. n \in Nat /\ DOMAIN entries = 1..n
  BY ListFacts
<1>2. NoTally \in V
  <2>1. NoTally \in [{} -> Int] /\ {} \in SUBSET K
    BY DEF NoTally
  <2> QED
    BY <2>1 DEF TallyOf
<1>3. step \in [(1..n) \X V -> V]
  BY AddTypes
<1>4. Tally(entries) = iter[DOMAIN entries]
  BY DEF Tally, FoldLeft, MapThenFoldSet
<1>5. \A T \in SUBSET (1..n) : T # {} => Max(T) \in 1..n /\ T \ {Max(T)} \in SUBSET (1..n)
  BY <1>1, GreatestExists
<1>6. PICK g \in [SUBSET (1..n) -> V] : IsFold(g, n, NoTally, step)
  <2> HIDE DEF n, V, step, iter
  <2> QED
    BY <1>1, <1>2, <1>3, FoldExists
<1>7. Eqn(g)
  <2>1. ASSUME NEW T \in SUBSET (1..n), T # {}
        PROVE  g[T] = Add(g[T \ {Max(T)}], entries[Max(T)])
    <3>1. Max(T) \in 1..n /\ g[T \ {Max(T)}] \in V
      BY <1>5, <1>6, <2>1
    <3>2. g[T] = step[<<Max(T), g[T \ {Max(T)}]>>]
      BY <1>6, <2>1 DEF IsFold
    <3> HIDE DEF V
    <3> QED
      BY <3>1, <3>2
  <2>2. g[{}] = NoTally
    BY <1>6 DEF IsFold
  <2>3. g = [T \in SUBSET (1..n) |-> g[T]]
    BY <1>6
  <2> QED
    BY <1>1, <2>1, <2>2, <2>3
<1>8. Eqn(iter)
  BY <1>7
<1>9. h[0] = NoTally /\ h[n] = iter[DOMAIN entries]
  <2>1. 1..0 = {} /\ 0 \in 0..n /\ n \in 0..n
    BY <1>1
  <2> HIDE DEF iter
  <2> QED
    BY <1>1, <1>8, <2>1
<1>10. ASSUME NEW k \in 1..n PROVE h[k] = Add(h[k - 1], entries[k])
  <2>1. k \in 0..n /\ k - 1 \in 0..n
    BY <1>1
  <2>2. 1..k \in SUBSET DOMAIN entries /\ 1..k # {} /\ Max(1..k) = k
        /\ (1..k) \ {Max(1..k)} = 1..(k - 1)
    BY <1>1, Turn
  <2>3. iter[1..k] = Add(iter[(1..k) \ {Max(1..k)}], entries[Max(1..k)])
    <3> HIDE DEF iter
    <3> QED
      BY <1>8, <2>2
  <2> HIDE DEF iter
  <2> QED
    BY <2>1, <2>2, <2>3
<1> HIDE DEF h, iter
<1>11. TallyHistory(h, entries)
  BY <1>9, <1>10 DEF TallyHistory
<1> QED
  BY <1>4, <1>9, <1>11

\* A tally gives each key that an entry has the sum of what counts towards it.
LEMMA TallyTotals ==
  ASSUME NEW K, NEW entries, IsList(entries),
         \A p \in 1..Len(entries) : entries[p] \in EntryOf(K)
  PROVE  /\ \A k : Weighs(AmountFor(k, K), entries)
         /\ Tally(entries) = [k \in KeysUpTo(entries, Len(entries)) |->
                                WrapI64(SumOver(entries, AmountFor(k, K)))]
<1>1. PICK h : TallyHistory(h, entries) /\ Tally(entries) = h[Len(entries)]
  BY HistoryOfTally
<1> DEFINE n == Len(entries)
           F(m) == [k \in KeysUpTo(entries, m) |->
                      WrapI64(SumTo(Weights(entries, AmountFor(k, K)), m))]
           S == {m \in 0..n : h[m] = F(m)}
<1>2. n \in Nat
  BY ListFacts
<1>3. ASSUME NEW k, NEW p \in 1..n
      PROVE  /\ AmountFor(k, K)[entries[p]] \in Int
             /\ Weights(entries, AmountFor(k, K))[p]
                  = IF entries[p].key = k THEN entries[p].amount ELSE 0
             /\ entries[p].key \in K /\ entries[p].amount \in Int
  BY DEF AmountFor, EntryOf, Weights
<1>4. \A k : \A m \in 0..n : Integers(Weights(entries, AmountFor(k, K)), m)
  BY <1>2, <1>3 DEF Integers
<1>5. \A k : Weighs(AmountFor(k, K), entries)
  BY <1>3 DEF Weighs
<1>6. h[0] = NoTally /\ \A m \in 1..n : h[m] = Add(h[m - 1], entries[m])
  BY <1>1 DEF TallyHistory
<1> HIDE DEF n
<1>7. 0 \in S
  <2>1. KeysUpTo(entries, 0) = {}
    BY DEF KeysUpTo
  <2>2. F(0) = NoTally
    BY <2>1 DEF NoTally
  <2> QED
    BY <1>2, <1>6, <2>2
<1>8. ASSUME NEW m \in 0..n, m \in S, m < n
      PROVE  m + 1 \in S
  <2> DEFINE e == entries[m + 1]
             G == F(m + 1)
             t == h[m]
             u == h[m + 1]
  <2>1. m + 1 \in 1..n /\ m + 1 \in 0..n /\ m + 1 # 0 /\ (m + 1) - 1 = m /\ m \in Nat
    BY <1>2, <1>8
  <2>2. KeysUpTo(entries, m + 1) = KeysUpTo(entries, m) \cup {e.key}
    BY <2>1 DEF KeysUpTo
  <2>3. /\ DOMAIN t = KeysUpTo(entries, m)
        /\ \A k \in KeysUpTo(entries, m) :
             t[k] = WrapI64(SumTo(Weights(entries, AmountFor(k, K)), m))
    BY <1>8
  <2>4. u = Add(t, e)
    BY <1>6, <2>1
  <2> HIDE DEF t, u
  <2>5. DOMAIN u = KeysUpTo(entries, m + 1) /\ u = [k \in DOMAIN u |-> u[k]]
    BY <2>2, <2>3, <2>4 DEF Add
  <2>6. ASSUME NEW k \in KeysUpTo(entries, m + 1)
        PROVE  u[k] = WrapI64(SumTo(Weights(entries, AmountFor(k, K)), m + 1))
    <3> DEFINE f == Weights(entries, AmountFor(k, K))
               a == SumTo(f, m)
               b == e.amount
    <3>1. f[m + 1] = (IF e.key = k THEN b ELSE 0) /\ b \in Int
      BY <1>3, <2>1
    <3>2. \A p \in 1..m : f[p] = IF entries[p].key = k THEN entries[p].amount ELSE 0
      <4>1. \A p \in 1..m : p \in 1..n
        BY <1>2
      <4> QED
        BY <1>3, <4>1
    <3>3. Integers(f, m) /\ Integers(f, m + 1)
      BY <1>4, <2>1
    <3> HIDE DEF f, e
    <3>4. SumTo(f, m) \in Int /\ SumTo(f, m + 1) = SumTo(f, m) + f[m + 1] /\ SumTo(f, 0) = 0
      BY <2>1, <3>3, SumLaws
    <3> HIDE DEF a, b
    <3>5. CASE k # e.key
      <4>1. u[k] = t[k] /\ k \in KeysUpTo(entries, m)
        BY <2>2, <2>3, <2>4, <3>5 DEF Add
      <4>2. f[m + 1] = 0
        BY <3>1, <3>5
      <4> QED
        BY <2>3, <3>4, <4>1, <4>2 DEF f
    <3>6. CASE k = e.key
      <4>1. f[m + 1] = b /\ SumTo(f, m + 1) = a + b /\ a \in Int
        BY <3>1, <3>4, <3>6 DEF a
      <4>2. WrapI64(WrapI64(a) + b) = WrapI64(a + b)
        BY <3>1, <4>1, WrapLaws
      <4>3. u[k] = WrapI64((IF k \in DOMAIN t THEN t[k] ELSE 0) + b)
        BY <2>2, <2>4, <3>6 DEF Add, b
      <4>4. CASE k \in KeysUpTo(entries, m)
        <5>1. t[k] = WrapI64(a)
          BY <2>3, <4>4 DEF a, f
        <5> QED
          BY <2>3, <4>1, <4>2, <4>3, <4>4, <5>1 DEF f
      <4>5. CASE k \notin KeysUpTo(entries, m)
        <5>1. \A p \in 1..m : f[p] = 0
          BY <3>2, <4>5 DEF KeysUpTo
        <5>2. 0 \in 0..m /\ \A p \in 1..m : p > 0 => f[p] = 0
          BY <2>1, <5>1
        <5>3. a = 0
          BY <2>1, <3>3, <3>4, <5>2, SumRests DEF a
        <5> QED
          BY <2>3, <4>1, <4>3, <4>5, <5>3 DEF f
      <4> QED
        BY <4>4, <4>5
    <3> QED
      BY <3>5, <3>6
  <2>7. u = G
    BY <2>5, <2>6
  <2> QED
    BY <2>1, <2>7 DEF u
<1>9. n \in S
  <2> HIDE DEF S
  <2>1. 0..n \subseteq S
    BY <1>2, <1>7, <1>8, BoundedInduction
  <2> QED
    BY <1>2, <2>1
<1>10. h[n] = F(n)
  BY <1>9
<1> QED
  BY <1>1, <1>5, <1>10 DEF SumOver, n

-----------------------------------------------------------------------------
(* Sums of columns.                                                         *)

\* A sum of equal values is a product.
LEMMA SumConstant ==
  ASSUME NEW n \in Nat, NEW v \in Int, NEW f, \A k \in 1..n : f[k] = v
  PROVE  SumTo(f, n) = n * v
<1> DEFINE S == {m \in 0..n : SumTo(f, m) = m * v}
<1>1. \A m \in 0..n : Integers(f, m) /\ m \in Nat
  BY DEF Integers
<1>2. 0 \in S
  BY <1>1, SumLaws
<1>3. ASSUME NEW m \in 0..n, m \in S, m < n
      PROVE  m + 1 \in S
  <2>1. m + 1 \in 1..n /\ m + 1 \in 0..n /\ m + 1 # 0 /\ (m + 1) - 1 = m
    BY <1>3
  <2>2. SumTo(f, m + 1) = SumTo(f, m) + f[m + 1] /\ f[m + 1] = v
    BY <1>1, <2>1, SumLaws
  <2>3. (m + 1) * v = m * v + v
    BY <1>1
  <2> QED
    BY <1>3, <2>1, <2>2, <2>3
<1> HIDE DEF S
<1>4. 0..n \subseteq S
  BY <1>2, <1>3, BoundedInduction
<1>5. n \in S
  BY <1>4
<1> QED
  BY <1>5 DEF S

\* Whichever variant a column was compacted to, its total is that of its cells.
LEMMA NumSumIsSum ==
  ASSUME NEW c \in NumColumn, NEW f, \A x \in 1..NumLen(c) : f[x] = NumGet(c, x - 1)
  PROVE  /\ NumLen(c) \in Nat /\ NumSum(c) \in Int
         /\ Integers(f, NumLen(c))
         /\ Congruent(NumSum(c), SumTo(f, NumLen(c)))
<1>1. CASE c.tag = "Empty"
  <2>1. NumLen(c) = 0 /\ NumSum(c) = 0 /\ Integers(f, 0)
    BY <1>1 DEF NumLen, NumSum, Integers
  <2>2. SumTo(f, 0) = 0
    BY <2>1, SumLaws
  <2> QED
    BY <2>1, <2>2 DEF Congruent
<1>2. CASE c.tag = "Constant"
  <2>1. c.len \in Nat /\ c.value \in Int /\ NumLen(c) = c.len
    BY <1>2 DEF NumColumn, NumLen
  <2>2. NumSum(c) = WrapI64(c.len * c.value) /\ c.len * c.value \in Int
    BY <1>2, <2>1 DEF NumSum
  <2>3. \A x \in 1..c.len : f[x] = c.value
    BY <1>2, <2>1 DEF NumGet
  <2>4. SumTo(f, c.len) = c.len * c.value /\ Integers(f, c.len)
    BY <2>1, <2>3, SumConstant DEF Integers
  <2> DEFINE a == c.len * c.value
  <2>5. a \in Int
    BY <2>1
  <2> HIDE DEF a
  <2>6. WrapI64(a) \in Int /\ WrapI64(WrapI64(a)) = WrapI64(a)
    <3>1. 0 \in Int
      OBVIOUS
    <3> QED
      BY <2>5, <3>1, WrapLaws
  <2>7. NumSum(c) = WrapI64(a) /\ SumTo(f, c.len) = a
    BY <2>2, <2>4 DEF a
  <2> QED
    BY <2>1, <2>4, <2>6, <2>7 DEF Congruent
<1>3. CASE c.tag \in {"I32", "I64"}
  <2> DEFINE vs == c.values
  <2>1. vs \in Seq(Int) /\ NumLen(c) = Len(vs) /\ Len(vs) \in Nat /\ NumSum(c) = SumOf(vs)
    BY <1>3 DEF NumColumn, NumLen, NumSum
  <2>2. IsList(vs) /\ Integers(vs, Len(vs))
    <3>1. \A p \in 1..Len(vs) : vs[p] \in Int
      BY <2>1
    <3>2. vs \in Seq({vs[p] : p \in DOMAIN vs})
      BY <2>1
    <3> QED
      BY <3>1, <3>2 DEF IsList, Integers
  <2>3. \A x \in 1..Len(vs) : f[x] = vs[x]
    <3>1. c.tag # "Empty" /\ c.tag # "Constant"
      BY <1>3
    <3>2. \A k : NumGet(c, k) = At(vs, k)
      BY <3>1 DEF NumGet
    <3>3. \A x \in 1..Len(vs) : At(vs, x - 1) = vs[x]
      BY <2>1 DEF At
    <3> QED
      BY <2>1, <3>2, <3>3
  <2> HIDE DEF vs
  <2>4. SumTo(f, Len(vs)) = SumTo(vs, Len(vs)) /\ Integers(f, Len(vs))
    <3>1. Integers(f, Len(vs)) /\ \A x \in 1..Len(vs) : vs[x] = f[x]
      BY <2>2, <2>3 DEF Integers
    <3> QED
      BY <2>1, <3>1, SumSame
  <2> DEFINE a == SumTo(vs, Len(vs))
  <2>5. NumSum(c) = WrapI64(a) /\ a \in Int
    BY <2>1, <2>2, SumOfIsSum, SumLaws
  <2> HIDE DEF a
  <2>6. WrapI64(a) \in Int /\ WrapI64(WrapI64(a)) = WrapI64(a)
    <3>1. 0 \in Int
      OBVIOUS
    <3> QED
      BY <2>5, <3>1, WrapLaws
  <2> QED
    BY <2>1, <2>4, <2>5, <2>6 DEF Congruent, a
<1> QED
  BY <1>1, <1>2, <1>3 DEF NumColumn

-----------------------------------------------------------------------------
(* What every table has: its templates are used, named after their events,   *)
(* and typed.                                                               *)

\* References and instances correspond one to one, in terms of the counts.
LEMMA ClaimedAlways == Spec => []Claimed
<1>1. Init => Claimed
  BY DEF Init, Claimed, Table
<1>2. IInv /\ IInv' /\ Claimed /\ [Next]_vars => Claimed'
  BY ClaimedStep
<1> QED
  BY <1>1, <1>2, InductiveInvariant, PTL DEF Spec

\* Interning appends one reference to one stream.
LEMMA InternRanks ==
  ASSUME IInv, IInv', NEW i \in DOMAIN trace,
         InternEventTemplate(i) \/ InternKernelTemplate(i)
  PROVE  /\ phase = "interning" /\ phase' = "interning" /\ trace' = trace
         /\ Table = templates /\ Table' = templates'
         /\ DOMAIN ranks = DOMAIN trace /\ DOMAIN ranks' = DOMAIN trace
         /\ \A j \in DOMAIN trace : Len(ranks[j]) \in Nat
         /\ Len(ranks'[i]) = Len(ranks[i]) + 1
         /\ \A k \in 1..Len(ranks[i]) : ranks'[i][k] = ranks[i][k]
         /\ \A j \in DOMAIN trace : j # i => ranks'[j] = ranks[j]
         /\ trace[i].events[Len(ranks[i]) + 1] = CurrentEvent(i)
         /\ \A j \in DOMAIN trace : KindOf(j)' = KindOf(j)
<1>1. /\ IsCurrent(i) /\ phase' = phase /\ trace' = trace
      /\ \E r : ranks' = [ranks EXCEPT ![i] = Append(@, r)]
  BY InternEffect
<1>2. PICK r : ranks' = [ranks EXCEPT ![i] = Append(@, r)]
  BY <1>1
<1>3. /\ DOMAIN ranks = DOMAIN trace /\ DOMAIN ranks' = DOMAIN trace'
      /\ \A j \in DOMAIN trace : ranks[j] \in Seq(Reference)
  BY DEF IInv, Shape
<1>4. ranks'[i] = Append(ranks[i], r) /\ IsList(ranks[i])
  BY <1>2, <1>3 DEF IsList
<1>5. phase = "interning"
  BY <1>1 DEF IsCurrent
<1>6. \A j \in DOMAIN trace : KindOf(j)' = KindOf(j)
  BY <1>1 DEF KindOf, IsGpu
<1>7. /\ Len(ranks'[i]) = Len(ranks[i]) + 1
      /\ \A k \in 1..Len(ranks[i]) : ranks'[i][k] = ranks[i][k]
  BY <1>4, AppendAny
<1>8. \A j \in DOMAIN trace : j # i => ranks'[j] = ranks[j]
  BY <1>2, <1>3
<1>9. \A j \in DOMAIN trace : Len(ranks[j]) \in Nat
  BY <1>3
<1> QED
  BY <1>1, <1>3, <1>5, <1>6, <1>7, <1>8, <1>9 DEF Table, CurrentEvent

\* Interning keeps the entries of the indexes, and the template it records is the
\* one the index has for the signature of the event.
LEMMA InternFiles ==
  ASSUME IInv, IInv', NEW i \in DOMAIN trace,
         InternEventTemplate(i) \/ InternKernelTemplate(i),
         NEW kind \in Kinds, kind = KindOf(i),
         NEW sig, sig = TemplateSignature(CurrentEvent(i))
  PROVE  /\ \A k \in Kinds : \A x \in DOMAIN IndexFor(k) :
              x \in DOMAIN IndexFor(k)' /\ IndexFor(k)'[x] = IndexFor(k)[x]
         /\ sig \in DOMAIN IndexFor(kind)'
         /\ IndexFor(kind)'[sig] = ranks'[i][Len(ranks[i]) + 1].template
<1> DEFINE last == Len(ranks[i]) + 1
<1>1. phase' # "panicked" /\ KindOf(i)' = KindOf(i)
  BY InternRanks
<1>2. DOMAIN ranks = DOMAIN trace /\ IsList(ranks[i])
  <2>1. ranks[i] \in Seq(Reference)
    BY DEF IInv, Shape
  <2> QED
    BY <2>1 DEF IInv, Shape, IsList
<1>3. ASSUME NEW r, ranks' = [ranks EXCEPT ![i] = Append(@, r)]
      PROVE  ranks'[i][last] = r
  <2>1. ranks'[i] = Append(ranks[i], r)
    BY <1>2, <1>3
  <2> QED
    BY <1>2, <2>1, AppendAny
<1>5. CASE InternKnown(i, IndexFor(kind))
  <2>1. cpuIndex' = cpuIndex /\ gpuIndex' = gpuIndex /\ sig \in DOMAIN IndexFor(kind)
    BY <1>5 DEF InternKnown
  <2>2. \A k : IndexFor(k)' = IndexFor(k)
    BY <2>1 DEF IndexFor
  <2>3. \E x : ranks' = [ranks EXCEPT ![i] =
                           Append(@, [template |-> IndexFor(kind)[sig], instance |-> x])]
    BY <1>1, <1>5 DEF InternKnown, Record
  <2>4. PICK x : ranks' = [ranks EXCEPT ![i] =
                             Append(@, [template |-> IndexFor(kind)[sig], instance |-> x])]
    BY <2>3
  <2> DEFINE r == [template |-> IndexFor(kind)[sig], instance |-> x]
  <2>5. r.template = IndexFor(kind)[sig]
    OBVIOUS
  <2>6. ranks' = [ranks EXCEPT ![i] = Append(@, r)]
    BY <2>4
  <2> HIDE DEF r, last
  <2>7. ranks'[i][last] = r
    BY <1>3, <2>6
  <2> QED
    BY <2>1, <2>2, <2>5, <2>7 DEF last
<1>6. CASE ~InternKnown(i, IndexFor(kind))
  <2> DEFINE tid == AsU32(Len(templates))
  <2>2. /\ InternNew(i, IndexFor(kind))
        /\ \A k \in Kinds :
             IndexFor(k)' = IF k = kind THEN Indexed(IndexFor(k), CurrentEvent(i), tid)
                            ELSE IndexFor(k)
    <3>1. CASE IsGpu(i)
      <4>1. kind = "gpu" /\ IndexFor(kind) = gpuIndex
        BY <3>1 DEF KindOf, IndexFor
      <4>2. /\ InternNew(i, gpuIndex) /\ cpuIndex' = cpuIndex
            /\ gpuIndex' = Indexed(gpuIndex, CurrentEvent(i), tid)
        BY <1>6, <3>1, <4>1 DEF InternEventTemplate, InternKernelTemplate
      <4> QED
        BY <4>1, <4>2 DEF IndexFor, Kinds
    <3>2. CASE ~IsGpu(i)
      <4>1. kind = "cpu" /\ IndexFor(kind) = cpuIndex
        BY <3>2 DEF KindOf, IndexFor
      <4>2. /\ InternNew(i, cpuIndex) /\ gpuIndex' = gpuIndex
            /\ cpuIndex' = Indexed(cpuIndex, CurrentEvent(i), tid)
        BY <1>6, <3>2, <4>1 DEF InternEventTemplate, InternKernelTemplate
      <4> QED
        BY <4>1, <4>2 DEF IndexFor, Kinds
    <3> QED
      BY <3>1, <3>2
  <2>3. sig \notin DOMAIN IndexFor(kind)
    BY <2>2 DEF InternNew
  <2>4. \E x : ranks' = [ranks EXCEPT ![i] = Append(@, [template |-> tid, instance |-> x])]
    BY <2>2 DEF InternNew, Record
  <2>5. PICK x : ranks' = [ranks EXCEPT ![i] = Append(@, [template |-> tid, instance |-> x])]
    BY <2>4
  <2> DEFINE r == [template |-> tid, instance |-> x]
  <2>6. r.template = tid /\ ranks' = [ranks EXCEPT ![i] = Append(@, r)]
    BY <2>5
  <2> HIDE DEF r, tid
  <2>7. ranks'[i][last] = r
    BY <1>3, <2>6
  <2>8. sig \in DOMAIN IndexFor(kind)' /\ IndexFor(kind)'[sig] = tid
    BY <2>2 DEF Indexed
  <2>9. ASSUME NEW k \in Kinds, NEW s \in DOMAIN IndexFor(k)
        PROVE  s \in DOMAIN IndexFor(k)' /\ IndexFor(k)'[s] = IndexFor(k)[s]
    BY <2>2, <2>3 DEF Indexed
  <2> QED
    BY <2>6, <2>7, <2>8, <2>9
<1> QED
  BY <1>5, <1>6

\* Every event that was read is filed under its signature, in the template its
\* reference names.
Filed ==
  phase \in {"interning", "finalizing"} =>
    \A i \in DOMAIN trace : \A k \in 1..Len(ranks[i]) : \A kind \in Kinds : \A sig :
      kind = KindOf(i) /\ sig = TemplateSignature(trace[i].events[k]) =>
        sig \in DOMAIN IndexFor(kind) /\ IndexFor(kind)[sig] = ranks[i][k].template

\* The template a reference names is named after the event.
Named ==
  \A i \in DOMAIN trace : \A k \in 1..Len(ranks[i]) :
    Table[ranks[i][k].template + 1].name_pattern = NormalizeName(trace[i].events[k].name)

\* Every template was made for an event.
Used ==
  \A n \in DOMAIN Table : \E i \in DOMAIN trace : \E k \in 1..Len(ranks[i]) :
    ranks[i][k].template = n - 1

TableShape == IsList(Table) /\ Len(Table) <= MaxEvents

Typed(t) ==
  /\ t.kind \in Kinds /\ t.ts \in NumColumn /\ t.dur \in NumColumn
  /\ t.kind = "gpu" => t.pid \in NumColumn /\ t.stream_tid \in RunColumn(Tids)

ColumnsTyped == \A n \in DOMAIN Table : Typed(Table[n])

Facts == Filed /\ Named /\ Used /\ TableShape /\ ColumnsTyped

\* A template that takes events is typed, and its compaction is.
LEMMA OpenTyped ==
  ASSUME NEW kind \in Kinds, NEW sig, NEW bound \in Nat, bound < U32Mod,
         NEW t, Open(t, kind, sig, bound)
  PROVE  Typed(t) /\ Typed(Compact(t))
<1> DEFINE u == Compact(t)
           n == NumLen(t.ts)
<1>1. /\ n \in Nat /\ n < U32Mod /\ Building(t, kind, sig, n)
      /\ kind = "gpu" => Located(t, Tids, Phases, n)
  BY WidthAssumption DEF Open
<1>2. /\ DOMAIN t = Fields /\ t.kind = kind
      /\ t.ts \in NumColumn /\ NumLen(t.ts) < U32Mod
      /\ t.dur \in NumColumn /\ NumLen(t.dur) < U32Mod
      /\ kind = "gpu" => /\ t.pid \in NumColumn /\ NumLen(t.pid) < U32Mod
                         /\ t.stream_tid \in RunColumn(Tids) /\ RunLen(t.stream_tid) < U32Mod
  BY <1>1, WidthAssumption DEF Building, Located
<1> HIDE DEF n
<1>3. /\ u.kind = t.kind /\ u.ts = NumCompact(t.ts) /\ u.dur = NumCompact(t.dur)
      /\ kind = "gpu" => /\ u.pid = NumCompact(t.pid)
                         /\ u.stream_tid = RunCompact(t.stream_tid)
  BY <1>2 DEF Compact, CpuTemplate, GpuTemplate, Fields, Kinds
<1> HIDE DEF u
<1>4. u.ts \in NumColumn /\ u.dur \in NumColumn
  BY <1>2, <1>3, NumCompactCells
<1>5. kind = "gpu" => u.pid \in NumColumn /\ u.stream_tid \in RunColumn(Tids)
  BY <1>2, <1>3, NumCompactCells, RunCompactCells
<1> QED
  BY <1>2, <1>3, <1>4, <1>5 DEF Typed, u

\* An event filed under its signature is in a template with its name.
LEMMA FiledNamed == IInv /\ Filed /\ phase \in {"interning", "finalizing"} => Named
<1> SUFFICES ASSUME IInv, Filed, phase \in {"interning", "finalizing"},
                    NEW i \in DOMAIN trace, NEW k \in 1..Len(ranks[i])
             PROVE  Table[ranks[i][k].template + 1].name_pattern
                      = NormalizeName(trace[i].events[k].name)
  BY DEF Named
<1> DEFINE sig == TemplateSignature(trace[i].events[k])
<1>1. PICK kind \in Kinds : kind = KindOf(i)
  BY DEF KindOf, Kinds
<1>2. sig.normalized_name = NormalizeName(trace[i].events[k].name)
  BY DEF TemplateSignature
<1> HIDE DEF sig
<1>3. sig \in DOMAIN IndexFor(kind) /\ IndexFor(kind)[sig] = ranks[i][k].template
  BY <1>1 DEF Filed, sig
<1>4. templates[IndexFor(kind)[sig] + 1].name_pattern = sig.normalized_name
  BY <1>3 DEF IInv, IndexInv
<1>5. Table = templates
  BY DEF Table
<1> QED
  BY <1>2, <1>3, <1>4, <1>5

\* While events arrive, every template takes events.
LEMMA InterningTyped == IInv /\ phase = "interning" => ColumnsTyped
<1> SUFFICES ASSUME IInv, phase = "interning"
             PROVE  ColumnsTyped
  OBVIOUS
<1>1. Table = templates /\ finalized = {}
  BY DEF Table, IInv, Shape
<1>2. interned \in Nat /\ interned < U32Mod
  BY CapacityAssumption, WidthAssumption DEF IInv, Shape
<1>3. ASSUME NEW n \in DOMAIN templates
      PROVE  Typed(templates[n])
  <2>1. PICK kind \in Kinds : \E sig : Open(templates[n], kind, sig, interned)
    BY <1>1, Unfinalized
  <2> QED
    BY <1>2, <2>1, OpenTyped
<1> QED
  BY <1>1, <1>3 DEF ColumnsTyped

\* Interning an event keeps every event filed, and every template used.
LEMMA InternFacts ==
  ASSUME IInv, IInv', Filed, Used, NEW i \in DOMAIN trace,
         InternEventTemplate(i) \/ InternKernelTemplate(i)
  PROVE  Filed' /\ Used'
<1> DEFINE last == Len(ranks[i]) + 1
<1>1. /\ phase = "interning" /\ phase' = "interning" /\ trace' = trace
      /\ Table = templates /\ Table' = templates'
      /\ \A j \in DOMAIN trace : Len(ranks[j]) \in Nat
      /\ Len(ranks'[i]) = Len(ranks[i]) + 1
      /\ \A k \in 1..Len(ranks[i]) : ranks'[i][k] = ranks[i][k]
      /\ \A j \in DOMAIN trace : j # i => ranks'[j] = ranks[j]
      /\ trace[i].events[last] = CurrentEvent(i)
      /\ \A j \in DOMAIN trace : KindOf(j)' = KindOf(j)
  BY InternRanks
<1>2. PICK here \in Kinds : here = KindOf(i)
  BY DEF KindOf, Kinds
<1>3. PICK mine : mine = TemplateSignature(CurrentEvent(i))
  OBVIOUS
<1>4. /\ \A k \in Kinds : \A x \in DOMAIN IndexFor(k) :
           x \in DOMAIN IndexFor(k)' /\ IndexFor(k)'[x] = IndexFor(k)[x]
      /\ mine \in DOMAIN IndexFor(here)'
      /\ IndexFor(here)'[mine] = ranks'[i][last].template
  BY <1>2, <1>3, InternFiles
<1>5. ASSUME NEW j \in DOMAIN trace, NEW k \in 1..Len(ranks'[j]), j # i \/ k # last
      PROVE  k \in 1..Len(ranks[j]) /\ ranks'[j][k] = ranks[j][k]
  <2>1. CASE j = i
    BY <1>1, <1>5, <2>1
  <2>2. CASE j # i
    BY <1>1, <2>2
  <2> QED
    BY <2>1, <2>2
<1>6. Filed'
  <2> SUFFICES ASSUME NEW j \in DOMAIN trace, NEW k \in 1..Len(ranks'[j]), NEW kind \in Kinds,
                      NEW sig, kind = KindOf(j), sig = TemplateSignature(trace[j].events[k])
               PROVE  /\ sig \in DOMAIN IndexFor(kind)'
                      /\ IndexFor(kind)'[sig] = ranks'[j][k].template
    BY <1>1 DEF Filed
  <2>1. CASE j = i /\ k = last
    <3>1. kind = here /\ sig = mine
      BY <1>1, <1>2, <1>3, <2>1
    <3> QED
      BY <1>4, <2>1, <3>1
  <2>2. CASE ~(j = i /\ k = last)
    <3>1. k \in 1..Len(ranks[j]) /\ ranks'[j][k] = ranks[j][k]
      BY <1>5, <2>2
    <3>2. sig \in DOMAIN IndexFor(kind) /\ IndexFor(kind)[sig] = ranks[j][k].template
      BY <1>1, <3>1 DEF Filed
    <3> QED
      BY <1>4, <3>1, <3>2
  <2> QED
    BY <2>1, <2>2
<1>7. Used'
  <2>1. PICK n : Interned(i, n)
    BY InternCounts
  <2>2. /\ n \in Nat
        /\ ranks' = [ranks EXCEPT ![i] =
                       Append(@, [template |-> n - 1, instance |-> CountIn(templates, n)])]
        /\ DOMAIN templates' = DOMAIN templates \cup {n}
    BY <2>1 DEF Interned
  <2>3. ranks'[i][last].template = n - 1
    <3> DEFINE r == [template |-> n - 1, instance |-> CountIn(templates, n)]
    <3>1. r.template = n - 1
      OBVIOUS
    <3> HIDE DEF r
    <3>2. DOMAIN ranks = DOMAIN trace /\ ranks[i] \in Seq(Reference)
      BY DEF IInv, Shape
    <3>3. ranks'[i] = Append(ranks[i], r) /\ IsList(ranks[i])
      BY <2>2, <3>2 DEF r, IsList
    <3>4. ranks'[i][last] = r
      BY <3>3, AppendAny
    <3> QED
      BY <3>1, <3>4
  <2>4. ASSUME NEW m \in DOMAIN templates'
        PROVE  \E j \in DOMAIN trace : \E k \in 1..Len(ranks'[j]) :
                 ranks'[j][k].template = m - 1
    <3>1. CASE m = n
      <4>1. last \in 1..Len(ranks'[i])
        BY <1>1
      <4> QED
        BY <2>3, <3>1, <4>1
    <3>2. CASE m \in DOMAIN templates
      <4>1. PICK j \in DOMAIN trace : \E k \in 1..Len(ranks[j]) : ranks[j][k].template = m - 1
        BY <1>1, <3>2 DEF Used
      <4> PICK k \in 1..Len(ranks[j]) : ranks[j][k].template = m - 1
        BY <4>1
      <4>2. k \in 1..Len(ranks'[j]) /\ ranks'[j][k] = ranks[j][k]
        <5>1. CASE j = i
          BY <1>1, <5>1
        <5>2. CASE j # i
          BY <1>1, <5>2
        <5> QED
          BY <5>1, <5>2
      <4> QED
        BY <4>1, <4>2
    <3> QED
      BY <2>2, <3>1, <3>2
  <2> QED
    BY <1>1, <2>4 DEF Used
<1> QED
  BY <1>6, <1>7

\* Compaction renames no template, changes no reference and keeps the types.
LEMMA FinalizeFacts ==
  ASSUME IInv, IInv', Facts, NEW n \in DOMAIN templates, FinalizeTemplate(n)
  PROVE  Filed' /\ Used' /\ ColumnsTyped'
<1>1. /\ phase = "finalizing" /\ phase' = phase /\ n \notin finalized
      /\ trace' = trace /\ ranks' = ranks /\ cpuIndex' = cpuIndex /\ gpuIndex' = gpuIndex
      /\ templates' = [templates EXCEPT ![n] = Compact(@)]
      /\ Table = templates /\ Table' = templates'
  BY DEF FinalizeTemplate, Table
<1>2. /\ DOMAIN templates' = DOMAIN templates
      /\ templates'[n] = Compact(templates[n])
      /\ \A m \in DOMAIN templates : m # n => templates'[m] = templates[m]
  BY <1>1, ReplaceAny DEF IInv, Shape
<1>3. Filed'
  BY <1>1 DEF Facts, Filed, KindOf, IsGpu, IndexFor
<1>4. Used'
  BY <1>1, <1>2 DEF Facts, Used
<1>5. PICK kind \in Kinds : \E sig : Open(templates[n], kind, sig, interned)
  BY <1>1, Unfinalized
<1>6. interned \in Nat /\ interned < U32Mod
  BY CapacityAssumption, WidthAssumption DEF IInv, Shape
<1>7. Typed(templates'[n])
  BY <1>2, <1>5, <1>6, OpenTyped
<1> QED
  BY <1>1, <1>2, <1>3, <1>4, <1>7 DEF Facts, ColumnsTyped

\* Facts holds of the compressor from Init on.
LEMMA FactsAlways == Spec => []Facts
<1>1. Init => Facts
  <2> SUFFICES ASSUME Init
               PROVE  Facts
    OBVIOUS
  <2>1. IsList(Table) /\ Len(Table) <= MaxEvents /\ DOMAIN Table = {}
    <3>1. Table = <<>>
      BY DEF Init, Table
    <3> QED
      BY <3>1, EmptyList, CapacityAssumption
  <2>2. DOMAIN trace = {}
    BY DEF Init
  <2> QED
    BY <2>1, <2>2 DEF Init, Facts, Filed, Named, Used, TableShape, ColumnsTyped
<1>2. /\ (IInv /\ Filed /\ phase \in {"interning", "finalizing"} => Named)'
      /\ (IInv /\ phase = "interning" => ColumnsTyped)'
  BY FiledNamed, InterningTyped, PTL
<1>3. IInv /\ IInv' /\ Facts /\ [Next]_vars => Facts'
  <2> SUFFICES ASSUME IInv, IInv', Facts, [Next]_vars
               PROVE  Facts'
    OBVIOUS
  <2>1. phase' # "done" => TableShape'
    <3>1. IsList(templates') /\ Len(templates') \in Nat /\ Len(templates') <= interned'
          /\ interned' \in Nat /\ interned' <= MaxEvents
      BY ListFacts, CapacityAssumption DEF IInv, Shape
    <3> QED
      BY <3>1, CapacityAssumption DEF TableShape, Table
  <2>2. phase' \in {"interning", "finalizing"} /\ Filed' => Named'
    BY <1>2
  <2>3. ASSUME NEW tr \in Handed, StartCompress(tr)
        PROVE  Facts'
    <3>1. /\ phase' = "interning" /\ Table' = <<>> /\ trace' = tr
          /\ ranks' = [i \in DOMAIN tr |-> <<>>]
      BY <2>3 DEF StartCompress, Table
    <3>2. Filed' /\ Used' /\ ColumnsTyped'
      BY <3>1 DEF Filed, Used, ColumnsTyped
    <3> QED
      BY <2>1, <2>2, <3>1, <3>2 DEF Facts
  <2>4. ASSUME NEW i \in DOMAIN trace, InternEventTemplate(i) \/ InternKernelTemplate(i)
        PROVE  Facts'
    <3>1. Filed' /\ Used'
      BY <2>4, InternFacts DEF Facts
    <3>2. phase' = "interning"
      BY <2>4, InternRanks
    <3>3. ColumnsTyped'
      BY <1>2, <3>2
    <3> QED
      BY <2>1, <2>2, <3>1, <3>2, <3>3 DEF Facts
  <2>5. CASE StartFinalize
    BY <2>5 DEF StartFinalize, Facts, Filed, Named, Used, TableShape, ColumnsTyped, Table,
                KindOf, IsGpu, IndexFor
  <2>6. ASSUME NEW n \in DOMAIN templates, FinalizeTemplate(n)
        PROVE  Facts'
    <3>1. Filed' /\ Used' /\ ColumnsTyped'
      BY <2>6, FinalizeFacts
    <3>2. phase' = "finalizing"
      BY <2>6 DEF FinalizeTemplate
    <3> QED
      BY <2>1, <2>2, <3>1, <3>2 DEF Facts
  <2>7. CASE Publish
    BY <2>7 DEF Publish, Facts, Filed, Named, Used, TableShape, ColumnsTyped, Table
  <2>8. CASE UNCHANGED vars
    BY <2>8 DEF vars, Facts, Filed, Named, Used, TableShape, ColumnsTyped, Table,
                KindOf, IsGpu, IndexFor
  <2> QED
    BY <2>3, <2>4, <2>5, <2>6, <2>7, <2>8 DEF Next
<1> QED
  BY <1>1, <1>3, InductiveInvariant, PTL DEF Spec

-----------------------------------------------------------------------------
(* Whatever weight the events are given: the instances of the table weigh as  *)
(* much as the events that were read.                                       *)

\* What an instance of a template says, and what an event is.
Cell(t, x) ==
  [kind  |-> t.kind,
   where |-> IF t.kind = "gpu" THEN <<NumGet(t.pid, x), RunGet(t.stream_tid, x)>> ELSE None,
   event |-> BuildEvent(t, x)]

Datum(i, k) ==
  [kind  |-> KindOf(i),
   where |-> IF IsGpu(i) THEN <<trace[i].at.pid, trace[i].at.tid>> ELSE None,
   event |-> trace[i].events[k]]

Data == [kind : Kinds, where : (Int \X Tids) \cup {None}, event : Event]

\* The instance a reference names says what the event is.
RefCells ==
  \A i \in DOMAIN trace : \A k \in 1..Len(ranks[i]) :
    /\ Datum(i, k) \in Data
    /\ ranks[i][k].template + 1 \in DOMAIN Table
    /\ Cell(Table[ranks[i][k].template + 1], ranks[i][k].instance) = Datum(i, k)

\* The weights of the instances of each template, and of the events of each stream.
CellsOf(tpls, n, w) == [x \in 1..CountIn(tpls, n) |-> w[Cell(tpls[n], x - 1)]]
TemplateSums(tpls, w) ==
  [n \in 1..MaxEvents |-> SumTo(CellsOf(tpls, n, w), CountIn(tpls, n))]

DataOf(i, w) == [k \in 1..Len(ranks[i]) |-> w[Datum(i, k)]]
StreamSums(w) == [i \in 1..Len(trace) |-> SumTo(DataOf(i, w), Len(ranks[i]))]

SumsTyped ==
  \A w \in [Data -> Int] :
    /\ \A n \in 1..MaxEvents : /\ CountIn(Table, n) \in Nat
                               /\ Integers(CellsOf(Table, n, w), CountIn(Table, n))
    /\ Integers(TemplateSums(Table, w), MaxEvents)
    /\ \A i \in 1..Len(trace) : /\ Len(ranks[i]) \in Nat
                                /\ Integers(DataOf(i, w), Len(ranks[i]))
    /\ Integers(StreamSums(w), Len(trace)) /\ Len(trace) \in Nat
    /\ DOMAIN trace = 1..Len(trace)

MeasuresAgree ==
  \A w \in [Data -> Int] :
    SumTo(TemplateSums(Table, w), MaxEvents) = SumTo(StreamSums(w), Len(trace))

\* RefCells follows from the invariant.
LEMMA RefsAreCells == IInv => RefCells
<1> SUFFICES ASSUME IInv, NEW i \in DOMAIN trace, NEW k \in 1..Len(ranks[i])
             PROVE  /\ Datum(i, k) \in Data
                    /\ ranks[i][k].template + 1 \in DOMAIN Table
                    /\ Cell(Table[ranks[i][k].template + 1], ranks[i][k].instance)
                         = Datum(i, k)
  BY DEF RefCells
<1> DEFINE n == ranks[i][k].template + 1
           x == ranks[i][k].instance
<1>1. Shape /\ Len(ranks[i]) <= Len(trace[i].events)
  BY DEF IInv, Shape
<1>2. /\ trace[i].at \in Coordinate /\ trace[i].events \in Seq(Event)
      /\ KindOf(i) \in Kinds /\ (IsGpu(i) <=> KindOf(i) = "gpu") /\ Len(ranks[i]) \in Nat
  BY <1>1, StreamFacts
<1>3. trace[i].events[k] \in Event
  BY <1>1, <1>2
<1>4. trace[i].at.pid \in Int /\ trace[i].at.tid \in Tids
  BY <1>2 DEF Coordinate
<1>5. Datum(i, k) \in Data
  BY <1>2, <1>3, <1>4 DEF Datum, Data
<1>6. /\ n \in DOMAIN Table /\ Table[n].kind = KindOf(i)
      /\ BuildEvent(Table[n], x) = trace[i].events[k]
      /\ Table[n].kind = "gpu" => /\ NumGet(Table[n].pid, x) = trace[i].at.pid
                                  /\ RunGet(Table[n].stream_tid, x) = trace[i].at.tid
  BY DEF IInv, RefInv, Refers, Holds
<1> HIDE DEF n, x
<1>7. Cell(Table[n], x) = Datum(i, k)
  BY <1>2, <1>6 DEF Cell, Datum
<1> QED
  BY <1>5, <1>6, <1>7 DEF n, x

\* Every instance says what some event is.
LEMMA CellsAreData ==
  ASSUME RefCells, Claimed, NEW n \in DOMAIN Table, n \in Int,
         NEW x \in 0..(NumLen(Table[n].ts) - 1)
  PROVE  /\ Cell(Table[n], x) \in Data
         /\ \E i \in DOMAIN trace : \E k \in 1..Len(ranks[i]) :
              /\ ranks[i][k] = [template |-> n - 1, instance |-> x]
              /\ Cell(Table[n], x) = Datum(i, k)
<1>1. PICK i \in DOMAIN trace : \E k \in 1..Len(ranks[i]) :
        ranks[i][k] = [template |-> n - 1, instance |-> x]
  BY DEF Claimed
<1>2. PICK k \in 1..Len(ranks[i]) : ranks[i][k] = [template |-> n - 1, instance |-> x]
  BY <1>1
<1>3. ranks[i][k].template + 1 = n /\ ranks[i][k].instance = x
  BY <1>2
<1>4. Cell(Table[n], x) = Datum(i, k) /\ Datum(i, k) \in Data
  BY <1>3 DEF RefCells
<1> QED
  BY <1>2, <1>4

\* The sums are sums of integers.
LEMMA SumsAreTyped == IInv /\ Claimed /\ Facts => SumsTyped
<1> SUFFICES ASSUME IInv, Claimed, Facts, NEW w \in [Data -> Int]
             PROVE  /\ \A n \in 1..MaxEvents :
                         /\ CountIn(Table, n) \in Nat
                         /\ Integers(CellsOf(Table, n, w), CountIn(Table, n))
                    /\ Integers(TemplateSums(Table, w), MaxEvents)
                    /\ \A i \in 1..Len(trace) :
                         /\ Len(ranks[i]) \in Nat
                         /\ Integers(DataOf(i, w), Len(ranks[i]))
                    /\ Integers(StreamSums(w), Len(trace)) /\ Len(trace) \in Nat
                    /\ DOMAIN trace = 1..Len(trace)
  BY DEF SumsTyped
<1>1. RefCells
  BY RefsAreCells
<1>2. ASSUME NEW n \in 1..MaxEvents
      PROVE  /\ CountIn(Table, n) \in Nat
             /\ Integers(CellsOf(Table, n, w), CountIn(Table, n))
  <2>1. CASE n \in DOMAIN Table
    <3>1. Table[n].ts \in NumColumn /\ CountIn(Table, n) = NumLen(Table[n].ts)
      BY <2>1 DEF Facts, ColumnsTyped, Typed, CountIn
    <3>2. CountIn(Table, n) \in Nat
      BY <3>1 DEF NumColumn, NumLen
    <3>3. ASSUME NEW x \in 1..CountIn(Table, n)
          PROVE  w[Cell(Table[n], x - 1)] \in Int
      <4>1. x - 1 \in 0..(NumLen(Table[n].ts) - 1) /\ n \in Int
        BY <3>1, <3>2
      <4> QED
        BY <1>1, <2>1, <4>1, CellsAreData
    <3> QED
      BY <3>2, <3>3 DEF Integers, CellsOf
  <2>2. CASE n \notin DOMAIN Table
    BY <2>2 DEF CountIn, Integers
  <2> QED
    BY <2>1, <2>2
<1>3. Integers(TemplateSums(Table, w), MaxEvents)
  <2>1. ASSUME NEW n \in 1..MaxEvents
        PROVE  SumTo(CellsOf(Table, n, w), CountIn(Table, n)) \in Int
    BY <1>2, SumLaws
  <2> QED
    BY <2>1 DEF Integers, TemplateSums
<1>4. DOMAIN trace = 1..Len(trace) /\ Len(trace) \in Nat
  <2>1. <<>> \in Seq(Stream) /\ trace \in Traces \cup {<<>>}
    BY DEF IInv, Shape
  <2>2. trace \in Seq(Stream)
    BY <2>1, TraceAssumption
  <2> QED
    BY <2>2
<1>5. ASSUME NEW i \in 1..Len(trace)
      PROVE  /\ Len(ranks[i]) \in Nat
             /\ Integers(DataOf(i, w), Len(ranks[i]))
             /\ SumTo(DataOf(i, w), Len(ranks[i])) \in Int
  <2>1. ranks[i] \in Seq(Reference)
    BY <1>4 DEF IInv, Shape
  <2>2. \A k \in 1..Len(ranks[i]) : w[Datum(i, k)] \in Int
    BY <1>1, <1>4 DEF RefCells
  <2>3. Len(ranks[i]) \in Nat /\ Integers(DataOf(i, w), Len(ranks[i]))
    BY <2>1, <2>2 DEF Integers, DataOf
  <2> QED
    BY <2>3, SumLaws
<1>6. Integers(StreamSums(w), Len(trace))
  BY <1>5 DEF Integers, StreamSums
<1> QED
  BY <1>2, <1>3, <1>4, <1>5, <1>6

\* As long as the references stay, the instances they name say the same.
LEMMA CellsStay ==
  ASSUME RefCells, RefCells', Claimed, trace' = trace,
         \A j \in DOMAIN trace : \A k \in 1..Len(ranks[j]) :
           k \in 1..Len(ranks'[j]) /\ ranks'[j][k] = ranks[j][k],
         NEW n \in DOMAIN Table, n \in Int, NEW x \in 0..(NumLen(Table[n].ts) - 1)
  PROVE  Cell(Table'[n], x) = Cell(Table[n], x)
<1>1. PICK i \in DOMAIN trace : \E k \in 1..Len(ranks[i]) :
        /\ ranks[i][k] = [template |-> n - 1, instance |-> x]
        /\ Cell(Table[n], x) = Datum(i, k)
  BY CellsAreData
<1>2. PICK k \in 1..Len(ranks[i]) :
        /\ ranks[i][k] = [template |-> n - 1, instance |-> x]
        /\ Cell(Table[n], x) = Datum(i, k)
  BY <1>1
<1>3. /\ k \in 1..Len(ranks'[i])
      /\ ranks'[i][k].template + 1 = n /\ ranks'[i][k].instance = x
  <2> DEFINE r == [template |-> n - 1, instance |-> x]
  <2>1. r.template + 1 = n /\ r.instance = x
    OBVIOUS
  <2>2. ranks[i][k] = r
    BY <1>2
  <2> HIDE DEF r
  <2>3. k \in 1..Len(ranks'[i]) /\ ranks'[i][k] = ranks[i][k]
    OBVIOUS
  <2> QED
    BY <2>1, <2>2, <2>3
<1>4. Cell(Table'[n], x) = Datum(i, k)'
  BY <1>3 DEF RefCells
<1>5. Datum(i, k)' = Datum(i, k)
  BY DEF Datum, KindOf, IsGpu
<1> QED
  BY <1>2, <1>4, <1>5

\* When the templates have the cells they had, the sums of the table stay.
LEMMA TableSumsStay ==
  ASSUME SumsTyped, NEW w \in [Data -> Int],
         \A n \in 1..MaxEvents :
           /\ CountIn(Table', n) = CountIn(Table, n)
           /\ \A x \in 0..(CountIn(Table, n) - 1) : Cell(Table'[n], x) = Cell(Table[n], x)
  PROVE  SumTo(TemplateSums(Table', w), MaxEvents) = SumTo(TemplateSums(Table, w), MaxEvents)
<1> DEFINE T == Table
           U == Table'
<1>1. /\ \A n \in 1..MaxEvents : /\ CountIn(T, n) \in Nat
                                 /\ Integers(CellsOf(T, n, w), CountIn(T, n))
      /\ Integers(TemplateSums(T, w), MaxEvents) /\ MaxEvents \in Nat
  BY CapacityAssumption DEF SumsTyped
<1>2. \A n \in 1..MaxEvents :
        /\ CountIn(U, n) = CountIn(T, n)
        /\ \A x \in 0..(CountIn(T, n) - 1) : Cell(U[n], x) = Cell(T[n], x)
  OBVIOUS
<1> HIDE DEF T, U
<1>3. ASSUME NEW n \in 1..MaxEvents
      PROVE  SumTo(CellsOf(U, n, w), CountIn(U, n)) = SumTo(CellsOf(T, n, w), CountIn(T, n))
  <2> DEFINE c == CountIn(T, n)
             f == CellsOf(T, n, w)
             g == CellsOf(U, n, w)
  <2>1. c \in Nat /\ Integers(f, c) /\ CountIn(U, n) = c
    BY <1>1, <1>2
  <2>2. \A x \in 1..c : x - 1 \in 0..(c - 1)
    BY <2>1
  <2>3. \A x \in 1..c : f[x] = g[x]
    BY <1>2, <2>1, <2>2 DEF CellsOf
  <2> HIDE DEF f, g, c
  <2>4. SumTo(f, c) = SumTo(g, c)
    BY <2>1, <2>3, SumSame
  <2> QED
    BY <2>1, <2>4 DEF f, g, c
<1>4. \A n \in 1..MaxEvents : TemplateSums(T, w)[n] = TemplateSums(U, w)[n]
  BY <1>3 DEF TemplateSums
<1> QED
  <2> DEFINE f == TemplateSums(T, w)
             g == TemplateSums(U, w)
  <2>1. \A n \in 1..MaxEvents : f[n] = g[n]
    BY <1>4
  <2>2. Integers(f, MaxEvents) /\ MaxEvents \in Nat
    BY <1>1
  <2> HIDE DEF f, g
  <2>3. SumTo(f, MaxEvents) = SumTo(g, MaxEvents)
    BY <2>1, <2>2, SumSame
  <2> QED
    BY <2>3 DEF f, g, T, U

\* Interning an event adds its weight to one template.
LEMMA InternAddsCell ==
  ASSUME IInv, IInv', Claimed, Claimed', Facts, RefCells, RefCells',
         SumsTyped, SumsTyped', NEW i \in DOMAIN trace,
         InternEventTemplate(i) \/ InternKernelTemplate(i),
         NEW w \in [Data -> Int],
         NEW d, d = Datum(i, Len(ranks[i]) + 1)
  PROVE  /\ d \in Data
         /\ SumTo(TemplateSums(Table', w), MaxEvents)
              = SumTo(TemplateSums(Table, w), MaxEvents) + w[d]
<1>0. PICK last : last = Len(ranks[i]) + 1
  OBVIOUS
<1>1. PICK n : Interned(i, n)
  BY InternCounts
<1> DEFINE T == Table
           U == Table'
           c == CountIn(T, n)
           r == [template |-> n - 1, instance |-> c]
<1>2. /\ phase' = "interning" /\ trace' = trace /\ Table = templates /\ Table' = templates'
      /\ DOMAIN ranks = DOMAIN trace
      /\ \A j \in DOMAIN trace : Len(ranks[j]) \in Nat
      /\ Len(ranks'[i]) = last
      /\ \A k \in 1..Len(ranks[i]) : ranks'[i][k] = ranks[i][k]
      /\ \A j \in DOMAIN trace : j # i => ranks'[j] = ranks[j]
  BY <1>0, InternRanks
<1>3. /\ n \in Nat /\ ranks' = [ranks EXCEPT ![i] = Append(@, r)]
      /\ DOMAIN U = DOMAIN T \cup {n}
      /\ CountIn(U, n) = c + 1
      /\ \A m \in DOMAIN T : m # n => U[m] = T[m]
  BY <1>1, <1>2 DEF Interned
<1>4. \A j \in DOMAIN trace : \A k \in 1..Len(ranks[j]) :
        k \in 1..Len(ranks'[j]) /\ ranks'[j][k] = ranks[j][k]
  <2> SUFFICES ASSUME NEW j \in DOMAIN trace, NEW k \in 1..Len(ranks[j])
               PROVE  k \in 1..Len(ranks'[j]) /\ ranks'[j][k] = ranks[j][k]
    OBVIOUS
  <2>1. CASE j = i
    BY <1>0, <1>2, <2>1
  <2>2. CASE j # i
    BY <1>2, <2>2
  <2> QED
    BY <2>1, <2>2
<1>5. last \in 1..Len(ranks'[i]) /\ ranks'[i][last] = r
  <2>1. ranks[i] \in Seq(Reference)
    BY DEF IInv, Shape
  <2>2. ranks'[i] = Append(ranks[i], r) /\ IsList(ranks[i])
    BY <1>2, <1>3, <2>1 DEF IsList
  <2> HIDE DEF r
  <2>3. ranks'[i][last] = r
    BY <1>0, <2>2, AppendAny
  <2> QED
    BY <1>0, <1>2, <2>3
<1>6. r.template + 1 = n /\ r.instance = c
  BY <1>3
<1>7. n \in 1..MaxEvents
  <2>1. IsList(templates') /\ Len(templates') <= interned' /\ interned' \in 0..MaxEvents
    BY DEF IInv, Shape
  <2>2. n \in 1..Len(templates') /\ Len(templates') \in Nat
    BY <1>2, <1>3, <2>1, ListFacts
  <2> QED
    BY <2>1, <2>2, CapacityAssumption
<1> HIDE DEF r
<1>8. d = Datum(i, last)' /\ Datum(i, last)' \in Data /\ Cell(U[n], c) = d
  <2>1. d = Datum(i, last)'
    <3>1. \A k : Datum(i, k)' = Datum(i, k)
      BY <1>2 DEF Datum, KindOf, IsGpu
    <3> QED
      BY <1>0, <3>1
  <2>6. \A j \in DOMAIN trace' : \A k \in 1..Len(ranks'[j]) :
          /\ Datum(j, k)' \in Data
          /\ Cell(Table'[ranks'[j][k].template + 1], ranks'[j][k].instance) = Datum(j, k)'
    BY DEF RefCells
  <2>2. Datum(i, last)' \in Data
    BY <1>2, <1>5, <2>6
  <2>3. Cell(Table'[ranks'[i][last].template + 1], ranks'[i][last].instance) = Datum(i, last)'
    BY <1>2, <1>5, <2>6
  <2>4. ranks'[i][last].template + 1 = n /\ ranks'[i][last].instance = c
    BY <1>5, <1>6
  <2> HIDE DEF U, c, T
  <2>5. Cell(Table'[n], c) = Datum(i, last)'
    BY <2>3, <2>4
  <2> QED
    BY <2>1, <2>2, <2>5 DEF U
<1>9. w[d] \in Int /\ c \in Nat
  BY <1>7, <1>8 DEF SumsTyped
<1>10. ASSUME NEW m \in 1..MaxEvents, NEW x \in 0..(CountIn(T, m) - 1)
       PROVE  Cell(U[m], x) = Cell(T[m], x)
  <2>1. m \in DOMAIN T /\ x \in 0..(NumLen(T[m].ts) - 1) /\ m \in Int
    BY <1>10 DEF CountIn
  <2> QED
    BY <1>2, <1>4, <2>1, CellsStay
<1>11. \A m \in 1..MaxEvents : m # n => CountIn(U, m) = CountIn(T, m)
  BY <1>3 DEF CountIn
<1>12. /\ \A m \in 1..MaxEvents : /\ CountIn(T, m) \in Nat
                                  /\ Integers(CellsOf(T, m, w), CountIn(T, m))
                                  /\ CountIn(U, m) \in Nat
                                  /\ Integers(CellsOf(U, m, w), CountIn(U, m))
       /\ Integers(TemplateSums(T, w), MaxEvents) /\ MaxEvents \in Nat
       /\ Integers(TemplateSums(U, w), MaxEvents)
  BY CapacityAssumption DEF SumsTyped
<1> HIDE DEF c, T, U
<1>13. \A m \in 1..MaxEvents : \A k \in 1..CountIn(T, m) :
         CellsOf(U, m, w)[k] = CellsOf(T, m, w)[k]
  <2> SUFFICES ASSUME NEW m \in 1..MaxEvents, NEW k \in 1..CountIn(T, m)
               PROVE  CellsOf(U, m, w)[k] = CellsOf(T, m, w)[k]
    OBVIOUS
  <2>1. k - 1 \in 0..(CountIn(T, m) - 1)
    BY <1>12
  <2>2. k \in 1..CountIn(U, m)
    <3>1. CASE m = n
      BY <1>3, <1>9, <3>1 DEF c
    <3>2. CASE m # n
      BY <1>11, <3>2
    <3> QED
      BY <3>1, <3>2
  <2> QED
    BY <1>10, <2>1, <2>2 DEF CellsOf
<1>14. \A m \in 1..MaxEvents : m # n => TemplateSums(U, w)[m] = TemplateSums(T, w)[m]
  <2> SUFFICES ASSUME NEW m \in 1..MaxEvents, m # n
               PROVE  TemplateSums(U, w)[m] = TemplateSums(T, w)[m]
    OBVIOUS
  <2> DEFINE f == CellsOf(T, m, w)
             g == CellsOf(U, m, w)
             a == CountIn(T, m)
  <2>1. a \in Nat /\ Integers(f, a) /\ CountIn(U, m) = a /\ \A k \in 1..a : f[k] = g[k]
    BY <1>11, <1>12, <1>13
  <2> HIDE DEF f, g, a
  <2>2. SumTo(f, a) = SumTo(g, a)
    BY <2>1, SumSame
  <2> QED
    BY <2>1, <2>2 DEF TemplateSums, f, g, a
<1>15. TemplateSums(U, w)[n] = TemplateSums(T, w)[n] + w[d]
  <2> DEFINE f == CellsOf(T, n, w)
             g == CellsOf(U, n, w)
  <2>4. c \in Nat /\ c + 1 \in Nat /\ c + 1 # 0 /\ (c + 1) - 1 = c
    BY <1>9
  <2>5. CountIn(U, n) = c + 1 /\ CountIn(T, n) = c
    BY <1>3 DEF c
  <2>6. Integers(f, c) /\ Integers(g, c + 1)
    BY <1>7, <1>12, <2>5
  <2>7. Integers(g, c)
    BY <2>4, <2>6 DEF Integers
  <2>8. \A k \in 1..c : f[k] = g[k]
    BY <1>7, <1>13, <2>5
  <2>1. /\ c \in Nat /\ c + 1 \in Nat /\ c + 1 # 0 /\ (c + 1) - 1 = c
        /\ Integers(f, c) /\ CountIn(U, n) = c + 1 /\ Integers(g, c + 1) /\ Integers(g, c)
        /\ \A k \in 1..c : f[k] = g[k]
    BY <2>4, <2>5, <2>6, <2>7, <2>8
  <2>2. g[c + 1] = w[d]
    <3>1. c + 1 \in 1..CountIn(U, n)
      BY <2>1
    <3> QED
      BY <1>8, <2>1, <3>1 DEF CellsOf
  <2> HIDE DEF f, g
  <2>3. SumTo(f, c) = SumTo(g, c) /\ SumTo(g, c + 1) = SumTo(g, c) + g[c + 1]
    BY <2>1, SumSame, SumLaws
  <2> QED
    BY <1>7, <2>1, <2>2, <2>3 DEF TemplateSums, f, g, c
<1> QED
  <2> DEFINE f == TemplateSums(T, w)
             g == TemplateSums(U, w)
             v == w[d]
  <2>1. /\ Integers(f, MaxEvents) /\ Integers(g, MaxEvents) /\ MaxEvents \in Nat
        /\ n \in 1..MaxEvents /\ v \in Int /\ g[n] = f[n] + v
        /\ \A m \in 1..MaxEvents : m # n => g[m] = f[m]
    BY <1>7, <1>9, <1>12, <1>14, <1>15
  <2> HIDE DEF f, g, v
  <2>2. SumTo(g, MaxEvents) = SumTo(f, MaxEvents) + v
    BY <2>1, SumDiffers
  <2> QED
    BY <1>8, <2>2 DEF f, g, v, T, U

\* Interning an event adds its weight to one stream.
LEMMA InternAddsDatum ==
  ASSUME IInv, IInv', SumsTyped, SumsTyped', NEW i \in DOMAIN trace,
         InternEventTemplate(i) \/ InternKernelTemplate(i),
         NEW w \in [Data -> Int],
         NEW d \in Data, d = Datum(i, Len(ranks[i]) + 1)
  PROVE  SumTo(StreamSums(w), Len(trace))' = SumTo(StreamSums(w), Len(trace)) + w[d]
<1> DEFINE last == Len(ranks[i]) + 1
           old(j) == DataOf(j, w)
           new(j) == DataOf(j, w)'
<1>1. /\ trace' = trace
      /\ \A j \in DOMAIN trace : Len(ranks[j]) \in Nat
      /\ Len(ranks'[i]) = last
      /\ \A j \in DOMAIN trace : j # i => ranks'[j] = ranks[j]
  BY InternRanks
<1>2. /\ Integers(StreamSums(w), Len(trace)) /\ Len(trace) \in Nat
      /\ DOMAIN trace = 1..Len(trace)
      /\ \A j \in 1..Len(trace) : Integers(DataOf(j, w), Len(ranks[j]))
  BY DEF SumsTyped
<1>3. /\ Integers(StreamSums(w)', Len(trace'))
      /\ \A j \in 1..Len(trace') : Integers(DataOf(j, w)', Len(ranks'[j]))
  BY DEF SumsTyped
<1>4. \A j \in DOMAIN trace : \A k : Datum(j, k)' = Datum(j, k)
  BY <1>1 DEF Datum, KindOf, IsGpu
<1>5. \A j \in DOMAIN trace : j # i => StreamSums(w)'[j] = StreamSums(w)[j]
  BY <1>1, <1>2, <1>4 DEF StreamSums, DataOf
<1>6. StreamSums(w)'[i] = StreamSums(w)[i] + w[d]
  <2> DEFINE f == DataOf(i, w)
             g == DataOf(i, w)'
             c == Len(ranks[i])
  <2>1. /\ c \in Nat /\ c + 1 \in Nat /\ c + 1 # 0 /\ (c + 1) - 1 = c
        /\ Integers(f, c) /\ Integers(g, c + 1) /\ Integers(g, c) /\ Len(ranks'[i]) = c + 1
    BY <1>1, <1>2, <1>3 DEF Integers
  <2>2. /\ \A k \in 1..c : f[k] = w[Datum(i, k)]
        /\ \A k \in 1..(c + 1) : g[k] = w[Datum(i, k)]
    BY <1>4, <2>1 DEF DataOf
  <2>3. /\ StreamSums(w)[i] = SumTo(f, c)
        /\ StreamSums(w)'[i] = SumTo(g, c + 1)
    BY <1>1, <1>2, <2>1 DEF StreamSums
  <2>4. (\A k \in 1..c : f[k] = g[k]) /\ g[c + 1] = w[d]
    BY <2>1, <2>2
  <2> HIDE DEF f, g, c
  <2>5. SumTo(f, c) = SumTo(g, c) /\ SumTo(g, c + 1) = SumTo(g, c) + g[c + 1]
    BY <2>1, <2>4, SumSame, SumLaws
  <2> QED
    BY <2>3, <2>4, <2>5
<1> QED
  <2> DEFINE f == StreamSums(w)
             g == StreamSums(w)'
             n == Len(trace)
             v == w[d]
  <2>1. /\ Integers(f, n) /\ Integers(g, n) /\ n \in Nat /\ i \in 1..n /\ v \in Int
        /\ g[i] = f[i] + v /\ \A m \in 1..n : m # i => g[m] = f[m]
    BY <1>1, <1>2, <1>3, <1>5, <1>6
  <2>2. SumTo(StreamSums(w), Len(trace))' = SumTo(g, n)
    BY <1>1
  <2> HIDE DEF f, g, n, v
  <2>3. SumTo(g, n) = SumTo(f, n) + v
    BY <2>1, SumDiffers
  <2> QED
    BY <2>2, <2>3 DEF f, n, v

\* Before the first event nothing weighs anything.
Blank ==
  Table = <<>> /\ Len(trace) \in Nat /\ \A i \in 1..Len(trace) : ranks[i] = <<>>

\* Both sums are sums of nothing.
LEMMA BlankAgrees == Blank => MeasuresAgree
<1> SUFFICES ASSUME Blank, NEW w \in [Data -> Int]
             PROVE  SumTo(TemplateSums(Table, w), MaxEvents)
                      = SumTo(StreamSums(w), Len(trace))
  BY DEF MeasuresAgree
<1>1. ASSUME NEW f
      PROVE  SumTo(f, 0) = 0
  BY SumLaws DEF Integers
<1>2. MaxEvents \in Nat /\ Len(trace) \in Nat /\ 0 \in Int
  BY CapacityAssumption DEF Blank
<1>3. SumTo(TemplateSums(Table, w), MaxEvents) = 0
  <2> DEFINE f == TemplateSums(Table, w)
  <2>1. \A n \in 1..MaxEvents : CountIn(Table, n) = 0
    BY DEF Blank, CountIn
  <2>2. \A n \in 1..MaxEvents : f[n] = 0
    BY <1>1, <2>1 DEF TemplateSums
  <2> HIDE DEF f
  <2>3. SumTo(f, MaxEvents) = MaxEvents * 0
    BY <1>2, <2>2, SumConstant
  <2> QED
    BY <1>2, <2>3 DEF f
<1>4. SumTo(StreamSums(w), Len(trace)) = 0
  <2> DEFINE f == StreamSums(w)
             n == Len(trace)
  <2>1. \A i \in 1..n : Len(ranks[i]) = 0
    BY DEF Blank
  <2>2. \A i \in 1..n : f[i] = 0
    BY <1>1, <2>1 DEF StreamSums
  <2>3. n \in Nat
    BY <1>2
  <2> HIDE DEF f, n
  <2>4. SumTo(f, n) = n * 0
    BY <1>2, <2>2, <2>3, SumConstant
  <2>5. n * 0 = 0
    BY <2>3
  <2> QED
    BY <2>4, <2>5 DEF f, n
<1> QED
  BY <1>3, <1>4

\* Interning adds the weight of the event on both sides.
LEMMA InternAgrees ==
  ASSUME IInv, IInv', Claimed, Claimed', Facts, RefCells, RefCells',
         SumsTyped, SumsTyped', MeasuresAgree, NEW i \in DOMAIN trace,
         InternEventTemplate(i) \/ InternKernelTemplate(i)
  PROVE  MeasuresAgree'
<1>1. ASSUME NEW w \in [Data -> Int]
      PROVE  SumTo(TemplateSums(Table', w), MaxEvents)
               = SumTo(StreamSums(w), Len(trace))'
  <2>1. PICK d : d = Datum(i, Len(ranks[i]) + 1)
    OBVIOUS
  <2>2. /\ d \in Data
        /\ SumTo(TemplateSums(Table', w), MaxEvents)
             = SumTo(TemplateSums(Table, w), MaxEvents) + w[d]
    BY <2>1, InternAddsCell
  <2>3. SumTo(StreamSums(w), Len(trace))' = SumTo(StreamSums(w), Len(trace)) + w[d]
    BY <2>1, <2>2, InternAddsDatum
  <2>4. SumTo(TemplateSums(Table, w), MaxEvents) = SumTo(StreamSums(w), Len(trace))
    BY DEF MeasuresAgree
  <2> QED
    BY <2>2, <2>3, <2>4
<1>2. \A w \in [Data -> Int] :
        SumTo(TemplateSums(Table', w), MaxEvents) = SumTo(StreamSums(w), Len(trace))'
  BY <1>1
<1> QED
  BY <1>2 DEF MeasuresAgree

\* Compaction and the move of the table change no instance.
LEMMA RestAgrees ==
  ASSUME IInv, Claimed, Facts, RefCells, RefCells', SumsTyped, MeasuresAgree,
         trace' = trace, ranks' = ranks,
         \A n \in 1..MaxEvents : CountIn(Table', n) = CountIn(Table, n)
  PROVE  MeasuresAgree'
<1>1. ASSUME NEW n \in 1..MaxEvents, NEW x \in 0..(CountIn(Table, n) - 1)
      PROVE  Cell(Table'[n], x) = Cell(Table[n], x)
  <2>1. n \in DOMAIN Table /\ x \in 0..(NumLen(Table[n].ts) - 1) /\ n \in Int
    BY DEF CountIn
  <2> QED
    BY <2>1, CellsStay
<1>2. \A w \in [Data -> Int] :
        SumTo(TemplateSums(Table', w), MaxEvents) = SumTo(TemplateSums(Table, w), MaxEvents)
  BY <1>1, TableSumsStay
<1>3. \A w : SumTo(StreamSums(w), Len(trace))' = SumTo(StreamSums(w), Len(trace))
  BY DEF StreamSums, DataOf, Datum, KindOf, IsGpu
<1>4. \A w \in [Data -> Int] :
        SumTo(TemplateSums(Table', w), MaxEvents) = SumTo(StreamSums(w), Len(trace))'
  BY <1>2, <1>3 DEF MeasuresAgree
<1> QED
  BY <1>4 DEF MeasuresAgree

\* Whatever weight events are given, at any moment of any call the instances of the
\* table weigh what the events read so far do.
LEMMA MeasuresAlwaysAgree == Spec => []MeasuresAgree
<1>1. Init => MeasuresAgree
  <2>1. Init => Blank
    BY DEF Init, Blank, Table
  <2> QED
    BY <2>1, BlankAgrees
<1>2. /\ (IInv => RefCells) /\ (IInv => RefCells)'
      /\ (IInv /\ Claimed /\ Facts => SumsTyped) /\ (IInv /\ Claimed /\ Facts => SumsTyped)'
      /\ (Blank => MeasuresAgree)'
  BY RefsAreCells, SumsAreTyped, BlankAgrees, PTL
<1>3. /\ IInv /\ IInv' /\ Claimed /\ Claimed' /\ Facts /\ Facts'
      /\ MeasuresAgree /\ [Next]_vars
      => MeasuresAgree'
  <2> SUFFICES ASSUME IInv, IInv', Claimed, Claimed', Facts, Facts',
                      MeasuresAgree, [Next]_vars
               PROVE  MeasuresAgree'
    OBVIOUS
  <2>1. RefCells /\ RefCells' /\ SumsTyped /\ SumsTyped'
    BY <1>2
  <2>2. ASSUME NEW tr \in Handed, StartCompress(tr)
        PROVE  MeasuresAgree'
    <3>1. tr \in Seq(Stream)
      BY TraceAssumption, CapacityAssumption DEF Handed
    <3>2. /\ Table' = <<>> /\ trace' = tr /\ ranks' = [i \in DOMAIN tr |-> <<>>]
      BY <2>2 DEF StartCompress, Table
    <3>3. Blank'
      BY <3>1, <3>2 DEF Blank
    <3> QED
      BY <1>2, <3>3
  <2>3. ASSUME NEW i \in DOMAIN trace, InternEventTemplate(i) \/ InternKernelTemplate(i)
        PROVE  MeasuresAgree'
    BY <2>1, <2>3, InternAgrees
  <2>4. ASSUME NEW n \in DOMAIN templates, FinalizeTemplate(n)
        PROVE  MeasuresAgree'
    <3>1. Table = templates /\ Table' = templates' /\ trace' = trace /\ ranks' = ranks
      BY <2>4 DEF FinalizeTemplate, Table
    <3>2. \A m \in 1..MaxEvents : CountIn(Table', m) = CountIn(Table, m)
      BY <2>4, <3>1, FinalizeCounts DEF CountIn
    <3> QED
      BY <2>1, <3>1, <3>2, RestAgrees
  <2>5. CASE StartFinalize
    BY <2>1, <2>5, RestAgrees DEF StartFinalize, Table
  <2>6. CASE Publish
    BY <2>1, <2>6, RestAgrees DEF Publish, Table
  <2>7. CASE UNCHANGED vars
    BY <2>1, <2>7, RestAgrees DEF vars, Table
  <2> QED
    BY <2>2, <2>3, <2>4, <2>5, <2>6, <2>7 DEF Next
<1> QED
  BY <1>1, <1>3, InductiveInvariant, ClaimedAlways, FactsAlways, PTL DEF Spec

-----------------------------------------------------------------------------
(* The analyses of a published artifact.                                    *)

\* The tally of a list of lists of entries: its keys, and what each list adds to
\* a key.
KeysOf(L) == UNION {{L[i][x].key : x \in 1..Len(L[i])} : i \in 1..Len(L)}
Amounts(L, k, K) == [i \in 1..Len(L) |-> SumOver(L[i], AmountFor(k, K))]

IsEntryLists(L, K) ==
  IsListOfLists(L) /\ \A i \in 1..Len(L) : \A x \in 1..Len(L[i]) : L[i][x] \in EntryOf(K)

\* A tally of flattened lists adds up what each list adds.
LEMMA TallyOfLists ==
  ASSUME NEW K, NEW L, IsEntryLists(L, K)
  PROVE  /\ \A k : Integers(Amounts(L, k, K), Len(L))
         /\ Tally(FlattenSeq(L)) =
              [k \in KeysOf(L) |-> WrapI64(SumTo(Amounts(L, k, K), Len(L)))]
<1> DEFINE all == FlattenSeq(L)
<1>1. /\ IsListOfLists(L) /\ IsList(all)
      /\ \A p \in 1..Len(all) : \E i \in 1..Len(L) : \E x \in 1..Len(L[i]) :
           all[p] = L[i][x]
      /\ \A i \in 1..Len(L) : \A x \in 1..Len(L[i]) : \E p \in 1..Len(all) :
           all[p] = L[i][x]
  BY FlattenElements DEF IsEntryLists
<1> HIDE DEF all
<1>2. \A p \in 1..Len(all) : all[p] \in EntryOf(K)
  BY <1>1 DEF IsEntryLists
<1>3. ASSUME NEW k
      PROVE  /\ Integers(Amounts(L, k, K), Len(L))
             /\ SumOver(all, AmountFor(k, K)) = SumTo(Amounts(L, k, K), Len(L))
  <2> DEFINE w == AmountFor(k, K)
             f == Amounts(L, k, K)
  <2>1. \A i \in 1..Len(L) : Weighs(w, L[i])
    BY DEF IsEntryLists, Weighs, AmountFor, EntryOf
  <2>2. \A i \in 1..Len(L) : f[i] = SumOver(L[i], w)
    BY DEF Amounts
  <2> HIDE DEF w, f
  <2>3. Integers(f, Len(L)) /\ SumOver(FlattenSeq(L), w) = SumTo(f, Len(L))
    BY <1>1, <2>1, <2>2, SumOverFlatten
  <2> QED
    BY <2>3 DEF w, f, all
<1>4. KeysUpTo(all, Len(all)) = KeysOf(L)
  <2>1. ASSUME NEW z
        PROVE  z \in KeysOf(L) <=>
                 \E i \in 1..Len(L) : \E x \in 1..Len(L[i]) : z = L[i][x].key
    BY DEF KeysOf
  <2>2. ASSUME NEW z
        PROVE  z \in KeysUpTo(all, Len(all)) <=> \E p \in 1..Len(all) : z = all[p].key
    BY DEF KeysUpTo
  <2>3. ASSUME NEW z
        PROVE  (\E p \in 1..Len(all) : z = all[p].key)
                 <=> \E i \in 1..Len(L) : \E x \in 1..Len(L[i]) : z = L[i][x].key
    BY <1>1
  <2> QED
    BY <2>1, <2>2, <2>3
<1>5. Tally(all) = [k \in KeysUpTo(all, Len(all)) |->
                      WrapI64(SumOver(all, AmountFor(k, K)))]
  BY <1>1, <1>2, TallyTotals
<1>6. Tally(all) = [k \in KeysOf(L) |-> WrapI64(SumTo(Amounts(L, k, K), Len(L)))]
  BY <1>3, <1>4, <1>5
<1> QED
  BY <1>3, <1>6 DEF all

\* Two tallies are equal that have the same keys and add up to the same amounts.
LEMMA TalliesAgree ==
  ASSUME NEW K, NEW L, NEW M, IsEntryLists(L, K), IsEntryLists(M, K),
         KeysOf(L) = KeysOf(M),
         \A k \in KeysOf(L) : Congruent(SumTo(Amounts(L, k, K), Len(L)),
                                        SumTo(Amounts(M, k, K), Len(M)))
  PROVE  Tally(FlattenSeq(L)) = Tally(FlattenSeq(M))
<1>1. Tally(FlattenSeq(L)) =
        [k \in KeysOf(L) |-> WrapI64(SumTo(Amounts(L, k, K), Len(L)))]
  BY TallyOfLists
<1>2. Tally(FlattenSeq(M)) =
        [k \in KeysOf(M) |-> WrapI64(SumTo(Amounts(M, k, K), Len(M)))]
  BY TallyOfLists
<1> QED
  BY <1>1, <1>2 DEF Congruent

\* What holds of the state when compress() has returned.
Sealed ==
  phase = "done" /\ IInv /\ AllRead /\ Claimed /\ Facts /\ ColumnsAligned /\ MeasuresAgree

\* The streams and templates the analyses walk.
LEMMA SealedShape ==
  ASSUME Sealed
  PROVE  /\ Table = table /\ IsList(table) /\ Len(table) \in 0..MaxEvents
         /\ IsList(trace) /\ trace \in Traces \cup {<<>>}
         /\ RefCells /\ SumsTyped /\ MaxEvents \in Nat
         /\ \A i \in 1..Len(trace) :
              /\ IsList(trace[i].events) /\ Len(ranks[i]) = Len(trace[i].events)
              /\ trace[i].events # <<>> /\ i \in DOMAIN trace
         /\ \A n \in 1..Len(table) : n \in DOMAIN table /\ Typed(table[n]) /\ Aligned(table[n])
<1>1. Table = table
  BY DEF Sealed, Table
<1>2. IsList(table) /\ Len(table) <= MaxEvents /\ MaxEvents \in Nat
  BY <1>1, CapacityAssumption DEF Sealed, Facts, TableShape
<1>3. Len(table) \in 0..MaxEvents /\ DOMAIN table = 1..Len(table)
  BY <1>2, ListFacts
<1>4. trace \in Traces \cup {<<>>} /\ trace \in Seq(Stream)
  <2>1. trace \in Traces \cup {<<>>} /\ <<>> \in Seq(Stream)
    BY DEF Sealed, IInv, Shape
  <2> QED
    BY <2>1, TraceAssumption
<1>5. IsList(trace)
  BY <1>4 DEF IsList
<1>6. DOMAIN trace = 1..Len(trace)
  BY <1>4
<1>7. RefCells /\ SumsTyped
  BY RefsAreCells, SumsAreTyped DEF Sealed
<1>8. ASSUME NEW i \in 1..Len(trace)
      PROVE  /\ IsList(trace[i].events) /\ Len(ranks[i]) = Len(trace[i].events)
             /\ trace[i].events # <<>>
  <2>1. Len(ranks[i]) = Len(trace[i].events)
    BY <1>6 DEF Sealed, AllRead, StreamDone
  <2>2. trace[i] \in Stream
    BY <1>4
  <2>3. trace[i].events \in Seq(Event)
    BY <2>2 DEF Stream
  <2>4. trace \in Traces
    BY <1>4
  <2> QED
    BY <2>1, <2>3, <2>4, StreamAssumption DEF IsList
<1>9. \A n \in 1..Len(table) : Typed(table[n]) /\ Aligned(table[n])
  BY <1>1, <1>3 DEF Sealed, Facts, ColumnsTyped, ColumnsAligned
<1> QED
  BY <1>1, <1>2, <1>3, <1>4, <1>5, <1>6, <1>7, <1>8, <1>9

\* What the columns of a template say of one of its instances.
LEMMA SealedCell ==
  ASSUME Sealed, NEW n \in 1..Len(table), NEW x \in 0..(InstanceCount(table[n]) - 1)
  PROVE  /\ Cell(table[n], x) \in Data
         /\ Cell(table[n], x).kind = table[n].kind
         /\ Cell(table[n], x).event.dur = NumGet(table[n].dur, x)
         /\ NormalizeName(Cell(table[n], x).event.name) = table[n].name_pattern
         /\ table[n].kind = "gpu" => Cell(table[n], x).where = StreamOf(table[n], x)
         /\ \E i \in 1..Len(trace) : \E k \in 1..Len(ranks[i]) :
              ranks[i][k].template + 1 = n /\ Cell(table[n], x) = Datum(i, k)
<1>1. /\ Table = table /\ RefCells /\ DOMAIN trace = 1..Len(trace)
      /\ n \in DOMAIN Table /\ n \in Int
  BY SealedShape, ListFacts
<1>2. PICK i \in DOMAIN trace : \E k \in 1..Len(ranks[i]) :
        /\ ranks[i][k] = [template |-> n - 1, instance |-> x]
        /\ Cell(table[n], x) = Datum(i, k)
  BY <1>1, CellsAreData DEF Sealed, InstanceCount
<1>3. PICK k \in 1..Len(ranks[i]) :
        /\ ranks[i][k] = [template |-> n - 1, instance |-> x]
        /\ Cell(table[n], x) = Datum(i, k)
  BY <1>2
<1>4. ranks[i][k].template + 1 = n
  <2> DEFINE r == [template |-> n - 1, instance |-> x]
  <2>1. r.template + 1 = n
    BY <1>1
  <2> HIDE DEF r
  <2> QED
    BY <1>3, <2>1 DEF r
<1>5. Cell(table[n], x) \in Data
  BY <1>1, <1>3 DEF RefCells
<1>6. NormalizeName(Cell(table[n], x).event.name) = table[n].name_pattern
  <2>1. table[n].name_pattern = NormalizeName(trace[i].events[k].name)
    BY <1>1, <1>4 DEF Sealed, Facts, Named
  <2>2. Cell(table[n], x).event = trace[i].events[k]
    BY <1>3 DEF Datum
  <2> QED
    BY <2>1, <2>2
<1>7. Cell(table[n], x).kind = table[n].kind
      /\ Cell(table[n], x).event.dur = NumGet(table[n].dur, x)
  BY DEF Cell, BuildEvent
<1>8. ASSUME table[n].kind = "gpu"
      PROVE  Cell(table[n], x).where = StreamOf(table[n], x)
  <2>1. Cell(table[n], x).where = <<NumGet(table[n].pid, x), RunGet(table[n].stream_tid, x)>>
    BY <1>8 DEF Cell
  <2>2. Cell(table[n], x).where = <<trace[i].at.pid, trace[i].at.tid>>
    <3>1. IsGpu(i)
      BY <1>3, <1>7, <1>8 DEF Datum, KindOf
    <3> QED
      BY <1>3, <3>1 DEF Datum
  <2>3. trace[i].at.pid \in Int /\ trace[i].at.tid \in Tids
    BY <1>1, StreamFacts DEF Sealed, IInv, Coordinate
  <2>4. NumGet(table[n].pid, x) # None /\ RunGet(table[n].stream_tid, x) # None
    BY <2>1, <2>2, <2>3, NoneAssumption, CoordinateAssumption
  <2> QED
    BY <2>1, <2>4 DEF StreamOf, OrElse
<1> QED
  BY <1>1, <1>3, <1>4, <1>5, <1>6, <1>7, <1>8

\* What no entry, or one, adds to a key.
LEMMA ShortTallies ==
  ASSUME NEW K, NEW k
  PROVE  /\ SumOver(<<>>, AmountFor(k, K)) = 0
         /\ \A e \in EntryOf(K) :
              SumOver(<<e>>, AmountFor(k, K)) = IF e.key = k THEN e.amount ELSE 0
<1> DEFINE w == AmountFor(k, K)
<1>1. \A e \in EntryOf(K) : w[e] = (IF e.key = k THEN e.amount ELSE 0) /\ w[e] \in Int
  BY DEF AmountFor, EntryOf
<1>2. IsList(<<>>) /\ Weighs(w, <<>>)
  BY EmptyList DEF Weighs
<1> HIDE DEF w
<1>3. SumOver(<<>>, w) = 0 /\ \A x : w[x] \in Int => SumOver(<<x>>, w) = w[x]
  BY <1>2, SumOverLaws
<1> QED
  BY <1>1, <1>3 DEF w

\* The sum of a duration column is that of the instances; instances that weigh
\* nothing add up to nothing.
LEMMA CellSums ==
  ASSUME Sealed, NEW n \in 1..Len(table), NEW w \in [Data -> Int]
  PROVE  LET cells == 0..(InstanceCount(table[n]) - 1)
             sum   == TemplateSums(table, w)[n]
         IN  /\ sum \in Int
             /\ (\A x \in cells : w[Cell(table[n], x)] = 0) => sum = 0
             /\ (\A x \in cells : w[Cell(table[n], x)] = DurOf(Cell(table[n], x).event))
                  => Congruent(NumSum(table[n].dur), sum)
<1> DEFINE c == InstanceCount(table[n])
           g == CellsOf(table, n, w)
           dur == table[n].dur
<1>1. /\ n \in DOMAIN table /\ Typed(table[n]) /\ Aligned(table[n])
      /\ SumsTyped /\ Table = table /\ n \in 1..MaxEvents
  BY SealedShape
<1>2. CountIn(table, n) = c /\ TemplateSums(table, w)[n] = SumTo(g, c)
  BY <1>1 DEF CountIn, InstanceCount, TemplateSums
<1>3. c \in Nat /\ Integers(g, c)
  <2>1. CountIn(table, n) \in Nat /\ Integers(g, CountIn(table, n))
    BY <1>1 DEF SumsTyped
  <2> HIDE DEF c, g
  <2> QED
    BY <1>2, <2>1
<1>4. \A x \in 1..c : x - 1 \in 0..(c - 1) /\ g[x] = w[Cell(table[n], x - 1)]
  BY <1>2, <1>3 DEF CellsOf
<1>5. dur \in NumColumn /\ NumLen(dur) \in {0, c}
  BY <1>1 DEF Typed, Aligned
<1>6. \A x \in 0..(c - 1) : Cell(table[n], x).event.dur = NumGet(dur, x)
  BY SealedCell
<1> HIDE DEF c, g, dur
<1>7. SumTo(g, c) \in Int
  BY <1>3, SumLaws
<1>8. ASSUME \A x \in 0..(c - 1) : w[Cell(table[n], x)] = 0
      PROVE  SumTo(g, c) = 0
  <2>1. \A x \in 1..c : g[x] = 0
    BY <1>4, <1>8
  <2>2. 0 \in Int /\ c * 0 = 0
    BY <1>3
  <2>3. SumTo(g, c) = c * 0
    BY <1>3, <2>1, <2>2, SumConstant
  <2> QED
    BY <2>2, <2>3
<1>9. ASSUME \A x \in 0..(c - 1) : w[Cell(table[n], x)] = DurOf(Cell(table[n], x).event)
      PROVE  Congruent(NumSum(dur), SumTo(g, c))
  <2> DEFINE f == [x \in 1..NumLen(dur) |-> NumGet(dur, x - 1)]
  <2>1. \A x \in 1..NumLen(dur) : f[x] = NumGet(dur, x - 1)
    OBVIOUS
  <2> HIDE DEF f
  <2>2. Integers(f, NumLen(dur)) /\ Congruent(NumSum(dur), SumTo(f, NumLen(dur)))
    BY <1>5, <2>1, NumSumIsSum
  <2>3. CASE NumLen(dur) = c
    <3>1. \A x \in 1..c : f[x] = g[x]
      <4> SUFFICES ASSUME NEW x \in 1..c
                   PROVE  f[x] = g[x]
        OBVIOUS
      <4>1. f[x] \in Int /\ f[x] = NumGet(dur, x - 1)
        BY <2>1, <2>2, <2>3 DEF Integers
      <4>2. g[x] = DurOf(Cell(table[n], x - 1).event)
        BY <1>4, <1>9
      <4>3. Cell(table[n], x - 1).event.dur = f[x]
        BY <1>4, <1>6, <4>1
      <4> QED
        BY <4>1, <4>2, <4>3, NoneAssumption DEF DurOf
    <3>2. SumTo(f, c) = SumTo(g, c)
      BY <1>3, <2>2, <2>3, <3>1, SumSame
    <3> QED
      BY <2>2, <2>3, <3>2
  <2>4. CASE NumLen(dur) = 0
    <3>1. \A x \in 0..(c - 1) : NumGet(dur, x) = None
      BY <1>3, <1>5, <2>4 DEF NumColumn, NumLen, NumGet, At
    <3>2. \A x \in 0..(c - 1) : w[Cell(table[n], x)] = 0
      BY <1>6, <1>9, <3>1 DEF DurOf
    <3>3. SumTo(g, c) = 0
      BY <1>8, <3>2
    <3>4. SumTo(f, 0) = 0
      BY SumLaws DEF Integers
    <3> QED
      BY <2>2, <2>4, <3>3, <3>4
  <2> QED
    BY <1>5, <2>3, <2>4
<1> QED
  BY <1>2, <1>7, <1>8, <1>9 DEF c, dur

\* Amounts that are, up to whole turns, those of the templates and those of the
\* streams add up to the same.
LEMMA AmountsAgree ==
  ASSUME Sealed, NEW w \in [Data -> Int], NEW f, NEW g,
         Integers(f, Len(table)), Integers(g, Len(trace)),
         \A n \in 1..Len(table) : Congruent(f[n], TemplateSums(table, w)[n]),
         \A i \in 1..Len(trace) : Congruent(g[i], StreamSums(w)[i])
  PROVE  Congruent(SumTo(f, Len(table)), SumTo(g, Len(trace)))
<1> DEFINE a == TemplateSums(table, w)
           b == StreamSums(w)
           m == Len(table)
           n == Len(trace)
<1>1. /\ SumsTyped /\ Table = table /\ m \in 0..MaxEvents /\ MaxEvents \in Nat /\ n \in Nat
      /\ DOMAIN table = 1..m
  BY SealedShape, ListFacts
<1>2. Integers(a, MaxEvents) /\ Integers(b, n) /\ SumTo(a, MaxEvents) = SumTo(b, n)
  BY <1>1 DEF SumsTyped, Sealed, MeasuresAgree
<1>3. \A x \in 1..MaxEvents : x > m => a[x] = 0
  <2>1. \A h : SumTo(h, 0) = 0
    BY SumLaws DEF Integers
  <2>2. \A x \in 1..MaxEvents : x > m => CountIn(table, x) = 0
    BY <1>1 DEF CountIn
  <2> QED
    BY <2>1, <2>2 DEF TemplateSums
<1>4. /\ \A x \in 1..m : Congruent(f[x], a[x])
      /\ \A i \in 1..n : Congruent(g[i], b[i])
      /\ Integers(f, m) /\ Integers(g, n)
  OBVIOUS
<1> HIDE DEF a, b, m, n
<1>5. SumTo(a, MaxEvents) = SumTo(a, m)
  BY <1>1, <1>2, <1>3, SumRests
<1>6. Integers(a, m) /\ m \in Nat
  BY <1>1, <1>2 DEF Integers
<1>7. Congruent(SumTo(f, m), SumTo(a, m))
  BY <1>4, <1>6, CongruentSumTo
<1>8. Congruent(SumTo(g, n), SumTo(b, n))
  BY <1>1, <1>2, <1>4, CongruentSumTo
<1> QED
  BY <1>2, <1>5, <1>7, <1>8 DEF Congruent, m, n

\* What an event adds to the hotspot k, and to the busy time of the stream k.
NameWeight(k) ==
  [d \in Data |->
     IF d.kind = "cpu" /\ NormalizeName(d.event.name) = k THEN DurOf(d.event) ELSE 0]
BusyWeight(k) ==
  [d \in Data |-> IF d.kind = "gpu" /\ d.where = k THEN DurOf(d.event) ELSE 0]

\* Both are integers.
LEMMA WeightsTyped ==
  /\ \A e \in Event : DurOf(e) \in Int
  /\ \A k : NameWeight(k) \in [Data -> Int] /\ BusyWeight(k) \in [Data -> Int]
<1>1. \A e \in Event : DurOf(e) \in Int
  BY DEF Event, DurOf
<1>2. \A d \in Data : DurOf(d.event) \in Int
  BY <1>1 DEF Data
<1> QED
  BY <1>1, <1>2 DEF NameWeight, BusyWeight

\* The events of a stream, as data.
LEMMA SealedDatum ==
  ASSUME Sealed, NEW i \in 1..Len(trace), NEW k \in 1..Len(trace[i].events)
  PROVE  /\ Datum(i, k) \in Data /\ Datum(i, k).event = trace[i].events[k]
         /\ Datum(i, k).kind = KindOf(i)
         /\ IsGpu(i) => Datum(i, k).where = <<trace[i].at.pid, trace[i].at.tid>>
         /\ trace[i].events[k] \in Event
         /\ ranks[i][k].template + 1 \in 1..Len(table)
         /\ table[ranks[i][k].template + 1].kind = KindOf(i)
         /\ table[ranks[i][k].template + 1].name_pattern
              = NormalizeName(trace[i].events[k].name)
         /\ ranks[i][k].instance
              \in 0..(InstanceCount(table[ranks[i][k].template + 1]) - 1)
         /\ Cell(table[ranks[i][k].template + 1], ranks[i][k].instance) = Datum(i, k)
<1>1. /\ Table = table /\ RefCells /\ i \in DOMAIN trace
      /\ k \in 1..Len(ranks[i]) /\ DOMAIN table = 1..Len(table)
  BY SealedShape, ListFacts
<1>2. /\ Datum(i, k) \in Data /\ ranks[i][k].template + 1 \in DOMAIN table
      /\ Cell(table[ranks[i][k].template + 1], ranks[i][k].instance) = Datum(i, k)
  BY <1>1 DEF RefCells
<1>3. /\ Datum(i, k).event = trace[i].events[k] /\ Datum(i, k).kind = KindOf(i)
      /\ IsGpu(i) => Datum(i, k).where = <<trace[i].at.pid, trace[i].at.tid>>
  BY DEF Datum
<1>4. trace[i].events[k] \in Event
  BY <1>2, <1>3 DEF Data
<1>5. table[ranks[i][k].template + 1].name_pattern = NormalizeName(trace[i].events[k].name)
  BY <1>1 DEF Sealed, Facts, Named
<1>6. ranks[i][k].instance \in 0..(InstanceCount(table[ranks[i][k].template + 1]) - 1)
  BY <1>1, RefBounds DEF Sealed, InstanceCount
<1>7. table[ranks[i][k].template + 1].kind = KindOf(i)
  BY <1>2, <1>3 DEF Cell
<1> QED
  BY <1>1, <1>2, <1>3, <1>4, <1>5, <1>6, <1>7

\* What the events of one stream add to a sum, when a list of entries has an entry
\* for each of them.
LEMMA StreamAmount ==
  ASSUME Sealed, NEW i \in 1..Len(trace), NEW w \in [Data -> Int]
  PROVE  /\ StreamSums(w)[i] \in Int
         /\ (\A k \in 1..Len(trace[i].events) : w[Datum(i, k)] = 0) => StreamSums(w)[i] = 0
         /\ \A g : (\A k \in 1..Len(trace[i].events) : g[k] = w[Datum(i, k)])
              => /\ Integers(g, Len(trace[i].events))
                 /\ SumTo(g, Len(trace[i].events)) = StreamSums(w)[i]
<1> DEFINE c == Len(trace[i].events)
           f == DataOf(i, w)
<1>1. SumsTyped /\ Len(ranks[i]) = c
  BY SealedShape
<1>2. Integers(f, Len(ranks[i])) /\ Len(ranks[i]) \in Nat
  BY <1>1 DEF SumsTyped
<1>3. StreamSums(w)[i] = SumTo(f, c) /\ \A k \in 1..c : f[k] = w[Datum(i, k)]
  BY <1>1 DEF StreamSums, DataOf
<1> HIDE DEF c, f
<1>4. Integers(f, c) /\ c \in Nat
  BY <1>1, <1>2
<1>5. SumTo(f, c) \in Int
  BY <1>4, SumLaws
<1>6. ASSUME \A k \in 1..c : w[Datum(i, k)] = 0
      PROVE  SumTo(f, c) = 0
  <2>1. (\A k \in 1..c : f[k] = 0) /\ 0 \in Int /\ c * 0 = 0
    BY <1>3, <1>4, <1>6
  <2>2. SumTo(f, c) = c * 0
    BY <1>4, <2>1, SumConstant
  <2> QED
    BY <2>1, <2>2
<1>7. ASSUME NEW g, \A k \in 1..c : g[k] = w[Datum(i, k)]
      PROVE  Integers(g, c) /\ SumTo(g, c) = SumTo(f, c)
  <2>1. \A k \in 1..c : f[k] = g[k]
    BY <1>3, <1>7
  <2>2. SumTo(f, c) = SumTo(g, c)
    BY <1>4, <2>1, SumSame
  <2> QED
    BY <1>4, <2>1, <2>2 DEF Integers
<1> QED
  BY <1>3, <1>5, <1>6, <1>7 DEF c

\* The entries of a stream for the hotspots are those of its events.
LEMMA NameAmounts ==
  ASSUME Sealed, NEW i \in 1..Len(trace)
  PROVE  LET s == NameEntries(trace[i])
         IN  /\ IsList(s) /\ \A x \in 1..Len(s) : s[x] \in EntryOf(Name)
             /\ \A k : SumOver(s, AmountFor(k, Name)) = StreamSums(NameWeight(k))[i]
             /\ \A k : (\E x \in 1..Len(s) : k = s[x].key) <=>
                         /\ ~IsGpu(i)
                         /\ \E x \in 1..Len(trace[i].events) :
                              k = NormalizeName(trace[i].events[x].name)
<1> DEFINE s == NameEntries(trace[i])
           c == Len(trace[i].events)
<1>1. IsList(trace[i].events) /\ DOMAIN trace[i].events = 1..c /\ c \in Nat
  BY SealedShape, ListFacts
<1>2. CASE IsGpu(i)
  <2>1. s = <<>>
    BY <1>2 DEF IsGpu, NameEntries
  <2>2. IsList(<<>>) /\ Len(<<>>) = 0
    BY EmptyList
  <2>3. ASSUME NEW k
        PROVE  SumOver(s, AmountFor(k, Name)) = StreamSums(NameWeight(k))[i]
    <3>1. \A x \in 1..c : NameWeight(k)[Datum(i, x)] = 0
      BY <1>2, SealedDatum DEF NameWeight, KindOf
    <3>2. StreamSums(NameWeight(k))[i] = 0
      BY <3>1, StreamAmount, WeightsTyped
    <3>3. SumOver(<<>>, AmountFor(k, Name)) = 0
      BY ShortTallies
    <3> QED
      BY <2>1, <3>2, <3>3
  <2> QED
    BY <1>2, <2>1, <2>2, <2>3
<1>3. CASE ~IsGpu(i)
  <2>1. s = [x \in 1..c |->
               Entry(NormalizeName(trace[i].events[x].name), DurOf(trace[i].events[x]))]
    BY <1>1, <1>3 DEF IsGpu, NameEntries
  <2>2. \A x \in 1..c : /\ s[x].key = NormalizeName(trace[i].events[x].name)
                        /\ s[x].amount = DurOf(trace[i].events[x])
                        /\ s[x] \in EntryOf(Name)
    <3> SUFFICES ASSUME NEW x \in 1..c
                 PROVE  /\ s[x].key = NormalizeName(trace[i].events[x].name)
                        /\ s[x].amount = DurOf(trace[i].events[x])
                        /\ s[x] \in EntryOf(Name)
      OBVIOUS
    <3>1. trace[i].events[x] \in Event
      BY SealedDatum
    <3>2. trace[i].events[x].name \in Name /\ DurOf(trace[i].events[x]) \in Int
      BY <3>1, WeightsTyped DEF Event
    <3>3. NormalizeName(trace[i].events[x].name) \in Name
      BY <3>2, NameRoundTrip
    <3> QED
      BY <2>1, <3>2, <3>3 DEF Entry, EntryOf
  <2>3. IsList(s) /\ Len(s) = c
    <3> HIDE DEF s, c
    <3>1. s = [x \in 1..c |-> s[x]]
      BY <2>1
    <3> QED
      BY <1>1, <3>1, ListOfFunction
  <2> HIDE DEF s
  <2>4. ASSUME NEW k
        PROVE  SumOver(s, AmountFor(k, Name)) = StreamSums(NameWeight(k))[i]
    <3> DEFINE g == Weights(s, AmountFor(k, Name))
    <3>1. \A x \in 1..c : g[x] = IF s[x].key = k THEN s[x].amount ELSE 0
      BY <2>2, <2>3 DEF Weights, AmountFor
    <3>2. \A x \in 1..c : NameWeight(k)[Datum(i, x)] =
            IF NormalizeName(trace[i].events[x].name) = k
            THEN DurOf(trace[i].events[x]) ELSE 0
      BY <1>3, SealedDatum DEF NameWeight, KindOf
    <3>3. \A x \in 1..c : g[x] = NameWeight(k)[Datum(i, x)]
      BY <2>2, <3>1, <3>2
    <3>4. SumOver(s, AmountFor(k, Name)) = SumTo(g, c)
      BY <2>3 DEF SumOver
    <3> HIDE DEF g
    <3>5. SumTo(g, c) = StreamSums(NameWeight(k))[i]
      BY <3>3, StreamAmount, WeightsTyped
    <3> QED
      BY <3>4, <3>5
  <2> QED
    BY <1>3, <2>2, <2>3, <2>4 DEF s
<1> QED
  BY <1>2, <1>3

\* The entry of a template for the hotspots is that of its instances.
LEMMA PatternAmounts ==
  ASSUME Sealed, NEW n \in 1..Len(table)
  PROVE  LET s == PatternEntries(table[n])
         IN  /\ IsList(s) /\ \A x \in 1..Len(s) : s[x] \in EntryOf(Name)
             /\ \A k : Congruent(SumOver(s, AmountFor(k, Name)),
                                 TemplateSums(table, NameWeight(k))[n])
             /\ \A k : (\E x \in 1..Len(s) : k = s[x].key) <=>
                         table[n].kind = "cpu" /\ k = table[n].name_pattern
<1> DEFINE t == table[n]
           s == PatternEntries(t)
           cells == 0..(InstanceCount(t) - 1)
<1>1. /\ Typed(t) /\ Table = table /\ n \in DOMAIN table
      /\ DOMAIN trace = 1..Len(trace)
  BY SealedShape, ListFacts
<1>2. \A k : \A x \in cells :
        NameWeight(k)[Cell(t, x)] =
          IF t.kind = "cpu" /\ t.name_pattern = k THEN DurOf(Cell(t, x).event) ELSE 0
  BY SealedCell DEF NameWeight
<1>3. ASSUME NEW k
      PROVE  LET sum == TemplateSums(table, NameWeight(k))[n]
             IN  /\ ~(t.kind = "cpu" /\ t.name_pattern = k) => sum = 0
                 /\ t.kind = "cpu" /\ t.name_pattern = k => Congruent(NumSum(t.dur), sum)
  BY <1>2, CellSums, WeightsTyped
<1>4. NumSum(t.dur) \in Int
  <2> DEFINE f == [x \in 1..NumLen(t.dur) |-> NumGet(t.dur, x - 1)]
  <2>1. \A x \in 1..NumLen(t.dur) : f[x] = NumGet(t.dur, x - 1)
    OBVIOUS
  <2> HIDE DEF f
  <2>2. t.dur \in NumColumn
    BY <1>1 DEF Typed
  <2> QED
    BY <2>1, <2>2, NumSumIsSum
<1>5. t.name_pattern \in Name
  <2>1. PICK i \in DOMAIN trace : \E k \in 1..Len(ranks[i]) : ranks[i][k].template = n - 1
    BY <1>1 DEF Sealed, Facts, Used
  <2>2. PICK k \in 1..Len(ranks[i]) : ranks[i][k].template = n - 1
    BY <2>1
  <2>3. k \in 1..Len(trace[i].events) /\ i \in 1..Len(trace) /\ ranks[i][k].template + 1 = n
    BY <1>1, <2>2, SealedShape
  <2>4. trace[i].events[k] \in Event /\ t.name_pattern = NormalizeName(trace[i].events[k].name)
    BY <2>3, SealedDatum
  <2> QED
    BY <2>4, NameRoundTrip DEF Event
<1>6. CASE t.kind # "cpu"
  <2>1. s = <<>> /\ IsList(s) /\ Len(s) = 0
    BY <1>6, EmptyList DEF PatternEntries
  <2> HIDE DEF s, t
  <2>2. \A k : SumOver(s, AmountFor(k, Name)) = 0
    BY <2>1, ShortTallies
  <2>3. \A k : TemplateSums(table, NameWeight(k))[n] = 0
    BY <1>3, <1>6
  <2> QED
    BY <1>6, <2>1, <2>2, <2>3 DEF Congruent, s, t
<1>7. CASE t.kind = "cpu"
  <2>1. PICK e : e = Entry(t.name_pattern, NumSum(t.dur))
    OBVIOUS
  <2>2. e \in EntryOf(Name) /\ e.key = t.name_pattern /\ e.amount = NumSum(t.dur)
    BY <1>4, <1>5, <2>1 DEF Entry, EntryOf
  <2>3. s = <<e>> /\ IsList(s) /\ Len(s) = 1 /\ s[1] = e
    BY <1>7, <2>1, ShortLists DEF PatternEntries
  <2> HIDE DEF s, t
  <2>4. \A k : SumOver(s, AmountFor(k, Name)) = IF e.key = k THEN e.amount ELSE 0
    BY <2>2, <2>3, ShortTallies
  <2>5. \A k : Congruent(SumOver(s, AmountFor(k, Name)),
                         TemplateSums(table, NameWeight(k))[n])
    <3> SUFFICES ASSUME NEW k
                 PROVE  Congruent(SumOver(s, AmountFor(k, Name)),
                                  TemplateSums(table, NameWeight(k))[n])
      OBVIOUS
    <3>1. CASE e.key = k
      BY <1>3, <1>7, <2>2, <2>4, <3>1
    <3>2. CASE e.key # k
      BY <1>3, <2>2, <2>4, <3>2 DEF Congruent
    <3> QED
      BY <3>1, <3>2
  <2> QED
    BY <1>7, <2>2, <2>3, <2>5 DEF s, t
<1> QED
  BY <1>6, <1>7

\* The hotspots.
LEMMA HotspotsAgree ==
  ASSUME Sealed
  PROVE  HotspotInSitu(table) = HotspotRaw(trace)
<1> DEFINE L == [n \in DOMAIN table |-> PatternEntries(table[n])]
           M == [i \in DOMAIN trace |-> NameEntries(trace[i])]
           m == Len(table)
           n == Len(trace)
<1>1. /\ DOMAIN table = 1..m /\ DOMAIN trace = 1..n /\ m \in Nat /\ n \in Nat
  BY SealedShape, ListFacts
<1>2. /\ L = [x \in 1..m |-> L[x]] /\ M = [x \in 1..n |-> M[x]]
      /\ \A x \in 1..m : L[x] = PatternEntries(table[x])
      /\ \A x \in 1..n : M[x] = NameEntries(trace[x])
  BY <1>1
<1>3. HotspotInSitu(table) = Tally(FlattenSeq(L)) /\ HotspotRaw(trace) = Tally(FlattenSeq(M))
  BY DEF HotspotInSitu, HotspotRaw
<1>4. /\ \A x \in 1..m : n = Len(trace) /\ x \in 1..Len(table)
      /\ \A x \in 1..n : x \in 1..Len(trace)
  OBVIOUS
<1> HIDE DEF L, M, m, n
<1>5. Len(L) = m /\ Len(M) = n /\ IsList(L) /\ IsList(M)
  BY <1>1, <1>2, ListOfFunction
<1>6. IsEntryLists(L, Name) /\ IsEntryLists(M, Name)
  BY <1>2, <1>4, <1>5, PatternAmounts, NameAmounts, ZenonT(40) DEF IsEntryLists, IsListOfLists
<1>7. KeysOf(L) = KeysOf(M)
  <2>1. ASSUME NEW k
        PROVE  /\ k \in KeysOf(L) <=>
                    \E x \in 1..m : table[x].kind = "cpu" /\ k = table[x].name_pattern
               /\ k \in KeysOf(M) <=>
                    \E i \in 1..n : ~IsGpu(i) /\ \E x \in 1..Len(trace[i].events) :
                      k = NormalizeName(trace[i].events[x].name)
    <3>1. k \in KeysOf(L) <=> \E x \in 1..m : \E y \in 1..Len(L[x]) : k = L[x][y].key
      BY <1>5 DEF KeysOf
    <3>2. k \in KeysOf(M) <=> \E x \in 1..n : \E y \in 1..Len(M[x]) : k = M[x][y].key
      BY <1>5 DEF KeysOf
    <3>3. \A x \in 1..m : (\E y \in 1..Len(L[x]) : k = L[x][y].key) <=>
                            table[x].kind = "cpu" /\ k = table[x].name_pattern
      <4> SUFFICES ASSUME NEW x \in 1..m
                   PROVE  (\E y \in 1..Len(L[x]) : k = L[x][y].key) <=>
                            table[x].kind = "cpu" /\ k = table[x].name_pattern
        OBVIOUS
      <4>1. L[x] = PatternEntries(table[x]) /\ x \in 1..Len(table)
        BY <1>2, <1>4
      <4>2. \A z : (\E y \in 1..Len(PatternEntries(table[x])) :
                      z = PatternEntries(table[x])[y].key) <=>
                     table[x].kind = "cpu" /\ z = table[x].name_pattern
        BY <4>1, PatternAmounts
      <4> QED
        BY <4>1, <4>2
    <3>4. \A x \in 1..n : (\E y \in 1..Len(M[x]) : k = M[x][y].key) <=>
                            ~IsGpu(x) /\ \E y \in 1..Len(trace[x].events) :
                                           k = NormalizeName(trace[x].events[y].name)
      <4> SUFFICES ASSUME NEW x \in 1..n
                   PROVE  (\E y \in 1..Len(M[x]) : k = M[x][y].key) <=>
                            ~IsGpu(x) /\ \E y \in 1..Len(trace[x].events) :
                                           k = NormalizeName(trace[x].events[y].name)
        OBVIOUS
      <4>1. M[x] = NameEntries(trace[x]) /\ x \in 1..Len(trace)
        BY <1>2, <1>4
      <4>2. \A z : (\E y \in 1..Len(NameEntries(trace[x])) :
                      z = NameEntries(trace[x])[y].key) <=>
                     ~IsGpu(x) /\ \E y \in 1..Len(trace[x].events) :
                                    z = NormalizeName(trace[x].events[y].name)
        BY <4>1, NameAmounts
      <4> QED
        BY <4>1, <4>2
    <3> QED
      BY <3>1, <3>2, <3>3, <3>4
  <2>2. ASSUME NEW x \in 1..m, table[x].kind = "cpu"
        PROVE  \E i \in 1..n : ~IsGpu(i) /\ \E y \in 1..Len(trace[i].events) :
                 table[x].name_pattern = NormalizeName(trace[i].events[y].name)
    <3>1. x \in DOMAIN Table /\ x \in Int
      BY <1>1, SealedShape
    <3>2. PICK i \in DOMAIN trace : \E k \in 1..Len(ranks[i]) : ranks[i][k].template = x - 1
      BY <3>1 DEF Sealed, Facts, Used
    <3>3. PICK k \in 1..Len(ranks[i]) : ranks[i][k].template = x - 1
      BY <3>2
    <3>4. i \in 1..Len(trace) /\ k \in 1..Len(trace[i].events) /\ ranks[i][k].template + 1 = x
      BY <1>1, <3>1, <3>3, SealedShape DEF n
    <3>5. table[x].kind = KindOf(i)
          /\ table[x].name_pattern = NormalizeName(trace[i].events[k].name)
      BY <3>4, SealedDatum
    <3> QED
      BY <2>2, <3>4, <3>5 DEF KindOf, n
  <2>3. ASSUME NEW i \in 1..n, ~IsGpu(i), NEW y \in 1..Len(trace[i].events)
        PROVE  \E x \in 1..m : table[x].kind = "cpu"
                 /\ NormalizeName(trace[i].events[y].name) = table[x].name_pattern
    <3>1. i \in 1..Len(trace)
      BY <1>4
    <3>2. /\ ranks[i][y].template + 1 \in 1..Len(table)
          /\ table[ranks[i][y].template + 1].kind = KindOf(i)
          /\ table[ranks[i][y].template + 1].name_pattern
               = NormalizeName(trace[i].events[y].name)
      BY <3>1, SealedDatum
    <3>3. KindOf(i) = "cpu"
      BY <2>3 DEF KindOf
    <3> QED
      BY <3>2, <3>3 DEF m
  <2> QED
    BY <2>1, <2>2, <2>3
<1>8. ASSUME NEW k
      PROVE  Congruent(SumTo(Amounts(L, k, Name), Len(L)), SumTo(Amounts(M, k, Name), Len(M)))
  <2> DEFINE f == Amounts(L, k, Name)
             g == Amounts(M, k, Name)
             w == NameWeight(k)
  <2>1. Integers(f, Len(table)) /\ Integers(g, Len(trace))
    BY <1>5, <1>6, TallyOfLists DEF m, n
  <2>2. ASSUME NEW x \in 1..Len(table)
        PROVE  Congruent(f[x], TemplateSums(table, w)[x])
    <3>1. f[x] = SumOver(PatternEntries(table[x]), AmountFor(k, Name))
      BY <1>2, <1>5 DEF Amounts, m
    <3> QED
      BY <3>1, PatternAmounts
  <2>3. ASSUME NEW x \in 1..Len(trace)
        PROVE  Congruent(g[x], StreamSums(w)[x])
    <3>1. g[x] = SumOver(NameEntries(trace[x]), AmountFor(k, Name))
      BY <1>2, <1>5 DEF Amounts, n
    <3>2. SumOver(NameEntries(trace[x]), AmountFor(k, Name)) = StreamSums(w)[x]
      BY NameAmounts
    <3> QED
      BY <3>1, <3>2 DEF Congruent
  <2>4. w \in [Data -> Int]
    BY WeightsTyped
  <2> HIDE DEF f, g, w
  <2>5. Congruent(SumTo(f, Len(table)), SumTo(g, Len(trace)))
    BY <2>1, <2>2, <2>3, <2>4, AmountsAgree
  <2> QED
    BY <1>5, <2>5 DEF f, g, m, n
<1> QED
  BY <1>3, <1>6, <1>7, <1>8, TalliesAgree

\* The names of the GPU streams.
StreamNames == Int \X Tids

\* The stream of a GPU stream's events, and of the instances of a GPU template.
LEMMA StreamsNamed ==
  ASSUME Sealed
  PROVE  /\ \A i \in 1..Len(trace) : <<trace[i].at.pid, trace[i].at.tid>> \in StreamNames
         /\ \A n \in 1..Len(table) : \A x \in 0..(InstanceCount(table[n]) - 1) :
              table[n].kind = "gpu" =>
                /\ StreamOf(table[n], x) \in StreamNames
                /\ \E i \in 1..Len(trace) :
                     /\ IsGpu(i)
                     /\ StreamOf(table[n], x) = <<trace[i].at.pid, trace[i].at.tid>>
<1>1. ASSUME NEW i \in 1..Len(trace)
      PROVE  <<trace[i].at.pid, trace[i].at.tid>> \in StreamNames
  <2>1. Shape /\ i \in DOMAIN trace
    BY SealedShape DEF Sealed, IInv
  <2>2. trace[i].at \in Coordinate
    BY <2>1, StreamFacts
  <2> QED
    BY <2>2 DEF Coordinate, StreamNames
<1>2. ASSUME NEW n \in 1..Len(table), NEW x \in 0..(InstanceCount(table[n]) - 1),
             table[n].kind = "gpu"
      PROVE  \E i \in 1..Len(trace) :
               IsGpu(i) /\ StreamOf(table[n], x) = <<trace[i].at.pid, trace[i].at.tid>>
  <2>1. /\ Cell(table[n], x).kind = "gpu"
        /\ Cell(table[n], x).where = StreamOf(table[n], x)
    BY <1>2, SealedCell
  <2>2. PICK i \in 1..Len(trace) : \E k \in 1..Len(ranks[i]) : Cell(table[n], x) = Datum(i, k)
    BY SealedCell
  <2>3. PICK k \in 1..Len(ranks[i]) : Cell(table[n], x) = Datum(i, k)
    BY <2>2
  <2>4. KindOf(i) = "gpu"
    BY <2>1, <2>3 DEF Datum
  <2>5. IsGpu(i)
    BY <2>4 DEF KindOf
  <2>6. StreamOf(table[n], x) = <<trace[i].at.pid, trace[i].at.tid>>
    BY <2>1, <2>3, <2>5 DEF Datum
  <2> QED
    BY <2>5, <2>6
<1> QED
  BY <1>1, <1>2

\* The entry of a stream for the load balance is that of its events.
LEMMA BusyAmounts ==
  ASSUME Sealed, NEW i \in 1..Len(trace)
  PROVE  LET s == BusyEntries(trace[i])
         IN  /\ IsList(s) /\ \A x \in 1..Len(s) : s[x] \in EntryOf(StreamNames)
             /\ \A k : Congruent(SumOver(s, AmountFor(k, StreamNames)),
                                 StreamSums(BusyWeight(k))[i])
             /\ \A k : (\E x \in 1..Len(s) : k = s[x].key) <=>
                         IsGpu(i) /\ k = <<trace[i].at.pid, trace[i].at.tid>>
<1> DEFINE s == BusyEntries(trace[i])
           c == Len(trace[i].events)
           name == <<trace[i].at.pid, trace[i].at.tid>>
           durs == [k \in DOMAIN trace[i].events |-> DurOf(trace[i].events[k])]
<1>1. /\ IsList(trace[i].events) /\ DOMAIN trace[i].events = 1..c /\ c \in Nat
      /\ name \in StreamNames
  BY SealedShape, ListFacts, StreamsNamed
<1>2. CASE ~IsGpu(i)
  <2>1. s = <<>>
    BY <1>2 DEF IsGpu, BusyEntries
  <2>2. IsList(<<>>) /\ Len(<<>>) = 0
    BY EmptyList
  <2>3. ASSUME NEW k
        PROVE  SumOver(s, AmountFor(k, StreamNames)) = StreamSums(BusyWeight(k))[i]
    <3>1. \A x \in 1..c : BusyWeight(k)[Datum(i, x)] = 0
      BY <1>2, SealedDatum DEF BusyWeight, KindOf
    <3>2. StreamSums(BusyWeight(k))[i] = 0
      BY <3>1, StreamAmount, WeightsTyped
    <3>3. SumOver(<<>>, AmountFor(k, StreamNames)) = 0
      BY ShortTallies
    <3> QED
      BY <2>1, <3>2, <3>3
  <2> QED
    BY <1>2, <2>1, <2>2, <2>3 DEF Congruent
<1>3. CASE IsGpu(i)
  <2>1. /\ \A x \in 1..c : durs[x] = DurOf(trace[i].events[x])
        /\ durs = [x \in 1..c |-> durs[x]]
    BY <1>1
  <2>2. Integers(durs, c)
    BY <2>1, SealedDatum, WeightsTyped DEF Integers
  <2>3. s = <<Entry(name, SumOf(durs))>>
    BY <1>3 DEF IsGpu, BusyEntries
  <2>4. c \in Nat /\ name \in StreamNames
    BY <1>1
  <2>5. \A k : \A x \in 1..c : BusyWeight(k)[Datum(i, x)] =
          IF name = k THEN DurOf(trace[i].events[x]) ELSE 0
    BY <1>3, SealedDatum DEF BusyWeight, KindOf
  <2>6. \A k : /\ StreamSums(BusyWeight(k))[i] \in Int
               /\ name # k => StreamSums(BusyWeight(k))[i] = 0
               /\ name = k => SumTo(durs, c) = StreamSums(BusyWeight(k))[i]
    <3> SUFFICES ASSUME NEW k
                 PROVE  /\ StreamSums(BusyWeight(k))[i] \in Int
                        /\ name # k => StreamSums(BusyWeight(k))[i] = 0
                        /\ name = k => SumTo(durs, c) = StreamSums(BusyWeight(k))[i]
      OBVIOUS
    <3>1. BusyWeight(k) \in [Data -> Int]
      BY WeightsTyped
    <3> HIDE DEF durs, name
    <3>2. name = k => \A x \in 1..c : durs[x] = BusyWeight(k)[Datum(i, x)]
      BY <2>1, <2>5
    <3>3. name # k => \A x \in 1..c : BusyWeight(k)[Datum(i, x)] = 0
      BY <2>5
    <3> QED
      BY <3>1, <3>2, <3>3, StreamAmount
  <2> HIDE DEF durs, c, name, s
  <2>7. IsList(durs) /\ Len(durs) = c
    BY <2>1, <2>4, ListOfFunction
  <2>8. SumOf(durs) = WrapI64(SumTo(durs, c))
    BY <2>2, <2>7, SumOfIsSum
  <2>9. SumTo(durs, c) \in Int
    BY <2>2, <2>4, SumLaws
  <2>10. SumOf(durs) \in Int /\ Congruent(SumOf(durs), SumTo(durs, c))
    <3> DEFINE a == SumTo(durs, c)
    <3>1. a \in Int /\ 0 \in Int /\ SumOf(durs) = WrapI64(a)
      BY <2>8, <2>9
    <3> HIDE DEF a
    <3>2. WrapI64(a) \in Int /\ WrapI64(WrapI64(a)) = WrapI64(a)
      BY <3>1, WrapLaws
    <3> QED
      BY <3>1, <3>2 DEF Congruent, a
  <2>11. PICK e : e = Entry(name, SumOf(durs))
    OBVIOUS
  <2>12. e \in EntryOf(StreamNames) /\ e.key = name /\ e.amount = SumOf(durs)
    BY <2>4, <2>10, <2>11 DEF Entry, EntryOf
  <2>13. s = <<e>> /\ IsList(s) /\ Len(s) = 1 /\ s[1] = e
    BY <2>3, <2>11, ShortLists
  <2>14. \A k : SumOver(s, AmountFor(k, StreamNames)) = IF e.key = k THEN e.amount ELSE 0
    BY <2>12, <2>13, ShortTallies
  <2>15. \A k : Congruent(SumOver(s, AmountFor(k, StreamNames)),
                          StreamSums(BusyWeight(k))[i])
    <3> SUFFICES ASSUME NEW k
                 PROVE  Congruent(SumOver(s, AmountFor(k, StreamNames)),
                                  StreamSums(BusyWeight(k))[i])
      OBVIOUS
    <3>1. CASE name = k
      BY <2>6, <2>10, <2>12, <2>14, <3>1
    <3>2. CASE name # k
      BY <2>6, <2>12, <2>14, <3>2 DEF Congruent
    <3> QED
      BY <3>1, <3>2
  <2>16. /\ IsList(s) /\ \A x \in 1..Len(s) : s[x] \in EntryOf(StreamNames)
         /\ \A k : (\E x \in 1..Len(s) : k = s[x].key) <=> IsGpu(i) /\ k = name
    BY <1>3, <2>12, <2>13
  <2> USE DEF s, name
  <2> QED
    BY ONLY <2>15, <2>16
<1> QED
  BY <1>2, <1>3

\* The entries of a template for the load balance are those of its instances.
LEMMA KernelAmounts ==
  ASSUME Sealed, NEW n \in 1..Len(table)
  PROVE  LET s == KernelEntries(table[n])
         IN  /\ IsList(s) /\ \A x \in 1..Len(s) : s[x] \in EntryOf(StreamNames)
             /\ \A k : Congruent(SumOver(s, AmountFor(k, StreamNames)),
                                 TemplateSums(table, BusyWeight(k))[n])
             /\ \A k : (\E x \in 1..Len(s) : k = s[x].key) <=>
                         /\ table[n].kind = "gpu"
                         /\ \E x \in 0..(InstanceCount(table[n]) - 1) :
                              k = StreamOf(table[n], x)
<1> DEFINE t == table[n]
           c == InstanceCount(t)
           s == KernelEntries(t)
           cells == 0..(c - 1)
<1>1. /\ Typed(t) /\ Aligned(t) /\ Table = table /\ n \in DOMAIN table
  BY SealedShape
<1>2. t.kind \in Kinds /\ t.dur \in NumColumn /\ t.ts \in NumColumn
  BY <1>1 DEF Typed
<1>3. c \in Nat
  BY <1>2 DEF NumColumn, NumLen, InstanceCount
<1>4. \A k : \A x \in cells :
        BusyWeight(k)[Cell(t, x)] =
          IF t.kind = "gpu" /\ StreamOf(t, x) = k THEN DurOf(Cell(t, x).event) ELSE 0
  BY SealedCell DEF BusyWeight
<1>5. \A x \in cells : t.kind = "gpu" => StreamOf(t, x) \in StreamNames
  BY StreamsNamed
<1>6. ASSUME NEW k
      PROVE  LET sum == TemplateSums(table, BusyWeight(k))[n]
             IN  /\ sum \in Int
                 /\ (\A x \in cells : BusyWeight(k)[Cell(t, x)] = 0) => sum = 0
                 /\ (\A x \in cells : BusyWeight(k)[Cell(t, x)] = DurOf(Cell(t, x).event))
                      => Congruent(NumSum(t.dur), sum)
  BY CellSums, WeightsTyped
<1>7. NumSum(t.dur) \in Int
  <2> DEFINE f == [x \in 1..NumLen(t.dur) |-> NumGet(t.dur, x - 1)]
  <2>1. \A x \in 1..NumLen(t.dur) : f[x] = NumGet(t.dur, x - 1)
    OBVIOUS
  <2> HIDE DEF f
  <2> QED
    BY <1>2, <2>1, NumSumIsSum
<1>8. CASE t.kind = "cpu" \/ c = 0
  <2>1. s = <<>> /\ IsList(s) /\ Len(s) = 0
    BY <1>8, EmptyList DEF KernelEntries
  <2>2. \A k : \A x \in cells : BusyWeight(k)[Cell(t, x)] = 0
    BY <1>4, <1>8
  <2>3. \A k : SumOver(s, AmountFor(k, StreamNames)) = 0
    BY <2>1, ShortTallies
  <2>4. \A k : TemplateSums(table, BusyWeight(k))[n] = 0
    BY <1>6, <2>2
  <2>5. t.kind = "gpu" => cells = {}
    BY <1>8
  <2> QED
    BY <2>1, <2>3, <2>4, <2>5 DEF Congruent
<1>9. CASE t.kind = "gpu" /\ c # 0 /\ OneStream(t)
  <2>1. 0 \in cells
    BY <1>3, <1>9
  <2>2. \A x \in cells : StreamOf(t, x) = StreamOf(t, 0)
    <3>1. NumLen(t.pid) = c /\ RunLen(t.stream_tid) = c
      BY <1>1, <1>9 DEF Aligned
    <3>2. t.pid.len = c /\ t.stream_tid.len = c
      BY <1>9, <3>1 DEF OneStream, NumLen, RunLen
    <3>3. \A x \in cells : x < c /\ 0 < c
      BY <1>3
    <3>4. \A x \in cells : /\ NumGet(t.pid, x) = t.pid.value
                           /\ RunGet(t.stream_tid, x) = t.stream_tid.value
      BY <1>9, <3>2, <3>3 DEF OneStream, NumGet, RunGet
    <3>5. NumGet(t.pid, 0) = t.pid.value /\ RunGet(t.stream_tid, 0) = t.stream_tid.value
      BY <2>1, <3>4
    <3> QED
      BY <3>4, <3>5 DEF StreamOf
  <2>3. PICK e : e = Entry(StreamOf(t, 0), NumSum(t.dur))
    OBVIOUS
  <2>4. e \in EntryOf(StreamNames) /\ e.key = StreamOf(t, 0) /\ e.amount = NumSum(t.dur)
    BY <1>5, <1>7, <1>9, <2>1, <2>3 DEF Entry, EntryOf
  <2>5. s = <<e>> /\ IsList(s) /\ Len(s) = 1 /\ s[1] = e
    BY <1>9, <2>3, ShortLists DEF KernelEntries
  <2> HIDE DEF s
  <2>6. \A k : SumOver(s, AmountFor(k, StreamNames)) = IF e.key = k THEN e.amount ELSE 0
    BY <2>4, <2>5, ShortTallies
  <2>7. \A k : Congruent(SumOver(s, AmountFor(k, StreamNames)),
                         TemplateSums(table, BusyWeight(k))[n])
    <3> SUFFICES ASSUME NEW k
                 PROVE  Congruent(SumOver(s, AmountFor(k, StreamNames)),
                                  TemplateSums(table, BusyWeight(k))[n])
      OBVIOUS
    <3>1. CASE e.key = k
      <4>1. \A x \in cells : BusyWeight(k)[Cell(t, x)] = DurOf(Cell(t, x).event)
        BY <1>4, <1>9, <2>2, <2>4, <3>1
      <4>2. Congruent(NumSum(t.dur), TemplateSums(table, BusyWeight(k))[n])
        BY <1>6, <4>1
      <4> QED
        BY <2>4, <2>6, <3>1, <4>2
    <3>2. CASE e.key # k
      <4>1. \A x \in cells : BusyWeight(k)[Cell(t, x)] = 0
        BY <1>4, <2>2, <2>4, <3>2
      <4>2. TemplateSums(table, BusyWeight(k))[n] = 0
        BY <1>6, <4>1
      <4> QED
        BY <2>6, <3>2, <4>2 DEF Congruent
    <3> QED
      BY <3>1, <3>2
  <2> QED
    BY <1>9, <2>1, <2>2, <2>4, <2>5, <2>7 DEF s
<1>10. CASE t.kind = "gpu" /\ c # 0 /\ ~OneStream(t)
  <2>1. s = [x \in 1..c |-> InstanceEntry(t, x - 1)]
    BY <1>10 DEF KernelEntries
  <2>2. \A x \in 1..c : x - 1 \in cells
    BY <1>3
  <2>3. \A x \in cells : OrElse(NumGet(t.dur, x), 0) = DurOf(Cell(t, x).event)
                         /\ DurOf(Cell(t, x).event) \in Int
    <3>1. \A x \in cells : /\ Cell(t, x).event.dur = NumGet(t.dur, x)
                           /\ Cell(t, x).event \in Event
      BY SealedCell DEF Data
    <3> QED
      BY <3>1, WeightsTyped DEF OrElse, DurOf
  <2>4. \A x \in 1..c : /\ s[x].key = StreamOf(t, x - 1)
                        /\ s[x].amount = DurOf(Cell(t, x - 1).event)
                        /\ s[x] \in EntryOf(StreamNames)
    BY <1>5, <1>10, <2>1, <2>2, <2>3 DEF InstanceEntry, Entry, EntryOf
  <2>5. IsList(s) /\ Len(s) = c
    <3> HIDE DEF s, c
    <3>1. s = [x \in 1..c |-> s[x]]
      BY <2>1
    <3> QED
      BY <1>3, <3>1, ListOfFunction
  <2> HIDE DEF s
  <2>6. ASSUME NEW k
        PROVE  SumOver(s, AmountFor(k, StreamNames)) = TemplateSums(table, BusyWeight(k))[n]
    <3> DEFINE f == CellsOf(table, n, BusyWeight(k))
               g == Weights(s, AmountFor(k, StreamNames))
    <3>1. CountIn(table, n) = c
      BY <1>1 DEF CountIn, InstanceCount
    <3>2. \A x \in 1..c : f[x] = BusyWeight(k)[Cell(t, x - 1)]
      BY <3>1 DEF CellsOf
    <3>3. \A x \in 1..c : g[x] = IF s[x].key = k THEN s[x].amount ELSE 0
      BY <2>4, <2>5 DEF Weights, AmountFor
    <3>4. \A x \in 1..c : f[x] = g[x]
      BY <1>4, <1>10, <2>2, <2>4, <3>2, <3>3
    <3>5. Integers(f, c)
      <4>1. SumsTyped /\ n \in 1..MaxEvents
        BY SealedShape
      <4>2. Integers(f, CountIn(table, n))
        BY <1>1, <4>1, WeightsTyped DEF SumsTyped
      <4> HIDE DEF f, c
      <4> QED
        BY <3>1, <4>2
    <3>6. /\ TemplateSums(table, BusyWeight(k))[n] = SumTo(f, c)
          /\ SumOver(s, AmountFor(k, StreamNames)) = SumTo(g, c)
      <4>1. n \in 1..MaxEvents
        BY SealedShape
      <4> QED
        BY <2>5, <3>1, <4>1 DEF TemplateSums, SumOver
    <3> HIDE DEF f, g, c
    <3>7. SumTo(f, c) = SumTo(g, c)
      BY <1>3, <3>4, <3>5, SumSame
    <3> QED
      BY <3>6, <3>7
  <2>7. \A k : (\E x \in 1..c : k = s[x].key) <=> \E x \in cells : k = StreamOf(t, x)
    <3> SUFFICES ASSUME NEW k
                 PROVE  (\E x \in 1..c : k = s[x].key) <=> \E x \in cells : k = StreamOf(t, x)
      OBVIOUS
    <3>1. \A x \in cells : x + 1 \in 1..c /\ (x + 1) - 1 = x
      BY <1>3
    <3>2. \A x \in cells : s[x + 1].key = StreamOf(t, x)
      BY <2>4, <3>1
    <3> QED
      BY <2>2, <2>4, <3>1, <3>2
  <2> QED
    BY <1>10, <2>4, <2>5, <2>6, <2>7 DEF Congruent, s
<1> QED
  BY <1>2, <1>8, <1>9, <1>10 DEF Kinds

\* The busy times of the streams.
LEMMA BalancesAgree ==
  ASSUME Sealed
  PROVE  BalanceInSitu(table) = BalanceRaw(trace)
<1> DEFINE L == [n \in DOMAIN table |-> KernelEntries(table[n])]
           M == [i \in DOMAIN trace |-> BusyEntries(trace[i])]
           m == Len(table)
           n == Len(trace)
<1>1. /\ DOMAIN table = 1..m /\ DOMAIN trace = 1..n /\ m \in Nat /\ n \in Nat
  BY SealedShape, ListFacts
<1>2. /\ L = [x \in 1..m |-> L[x]] /\ M = [x \in 1..n |-> M[x]]
      /\ \A x \in 1..m : L[x] = KernelEntries(table[x])
      /\ \A x \in 1..n : M[x] = BusyEntries(trace[x])
  BY <1>1
<1>3. BalanceInSitu(table) = Tally(FlattenSeq(L)) /\ BalanceRaw(trace) = Tally(FlattenSeq(M))
  BY DEF BalanceInSitu, BalanceRaw
<1>4. /\ \A x \in 1..m : x \in 1..Len(table)
      /\ \A x \in 1..n : x \in 1..Len(trace)
  OBVIOUS
<1> HIDE DEF L, M, m, n
<1>5. Len(L) = m /\ Len(M) = n /\ IsList(L) /\ IsList(M)
  BY <1>1, <1>2, ListOfFunction
<1>6. IsEntryLists(L, StreamNames) /\ IsEntryLists(M, StreamNames)
  BY <1>2, <1>4, <1>5, KernelAmounts, BusyAmounts, ZenonT(40) DEF IsEntryLists, IsListOfLists
<1>7. KeysOf(L) = KeysOf(M)
  <2>1. ASSUME NEW k
        PROVE  k \in KeysOf(L) <=>
                 \E x \in 1..m : /\ table[x].kind = "gpu"
                                 /\ \E y \in 0..(InstanceCount(table[x]) - 1) :
                                      k = StreamOf(table[x], y)
    <3>1. k \in KeysOf(L) <=> \E x \in 1..m : \E y \in 1..Len(L[x]) : k = L[x][y].key
      BY <1>5 DEF KeysOf
    <3>2. ASSUME NEW x \in 1..m
          PROVE  (\E y \in 1..Len(L[x]) : k = L[x][y].key) <=>
                   /\ table[x].kind = "gpu"
                   /\ \E y \in 0..(InstanceCount(table[x]) - 1) : k = StreamOf(table[x], y)
      <4>1. L[x] = KernelEntries(table[x]) /\ x \in 1..Len(table)
        BY <1>2, <1>4
      <4>2. \A z : (\E y \in 1..Len(KernelEntries(table[x])) :
                      z = KernelEntries(table[x])[y].key) <=>
                     /\ table[x].kind = "gpu"
                     /\ \E y \in 0..(InstanceCount(table[x]) - 1) : z = StreamOf(table[x], y)
        BY <4>1, KernelAmounts
      <4> QED
        BY <4>1, <4>2
    <3> QED
      BY <3>1, <3>2
  <2>2. ASSUME NEW k
        PROVE  k \in KeysOf(M) <=>
                 \E i \in 1..n : IsGpu(i) /\ k = <<trace[i].at.pid, trace[i].at.tid>>
    <3>1. k \in KeysOf(M) <=> \E x \in 1..n : \E y \in 1..Len(M[x]) : k = M[x][y].key
      BY <1>5 DEF KeysOf
    <3>2. ASSUME NEW x \in 1..n
          PROVE  (\E y \in 1..Len(M[x]) : k = M[x][y].key) <=>
                   IsGpu(x) /\ k = <<trace[x].at.pid, trace[x].at.tid>>
      <4>1. M[x] = BusyEntries(trace[x]) /\ x \in 1..Len(trace)
        BY <1>2, <1>4
      <4>2. \A z : (\E y \in 1..Len(BusyEntries(trace[x])) :
                      z = BusyEntries(trace[x])[y].key) <=>
                     IsGpu(x) /\ z = <<trace[x].at.pid, trace[x].at.tid>>
        BY <4>1, BusyAmounts
      <4> QED
        BY <4>1, <4>2
    <3> QED
      BY <3>1, <3>2
  <2>3. ASSUME NEW x \in 1..m, table[x].kind = "gpu",
               NEW y \in 0..(InstanceCount(table[x]) - 1)
        PROVE  \E i \in 1..n :
                 IsGpu(i) /\ StreamOf(table[x], y) = <<trace[i].at.pid, trace[i].at.tid>>
    BY <2>3, StreamsNamed DEF m, n
  <2>4. ASSUME NEW i \in 1..n, IsGpu(i)
        PROVE  \E x \in 1..m : /\ table[x].kind = "gpu"
                               /\ \E y \in 0..(InstanceCount(table[x]) - 1) :
                                    <<trace[i].at.pid, trace[i].at.tid>>
                                      = StreamOf(table[x], y)
    <3>1. i \in 1..Len(trace) /\ 1 \in 1..Len(trace[i].events)
      <4>1. IsList(trace[i].events) /\ trace[i].events # <<>> /\ i \in 1..Len(trace)
        BY <1>4, SealedShape
      <4>2. Len(trace[i].events) \in Nat /\ Len(trace[i].events) # 0
        BY <4>1, ListFacts
      <4> QED
        BY <4>1, <4>2
    <3>2. PICK x : x = ranks[i][1].template + 1
      OBVIOUS
    <3>3. PICK y : y = ranks[i][1].instance
      OBVIOUS
    <3>4. /\ x \in 1..Len(table) /\ table[x].kind = KindOf(i)
          /\ y \in 0..(InstanceCount(table[x]) - 1)
          /\ Cell(table[x], y) = Datum(i, 1)
          /\ IsGpu(i) => Datum(i, 1).where = <<trace[i].at.pid, trace[i].at.tid>>
      BY <3>1, <3>2, <3>3, SealedDatum
    <3>5. table[x].kind = "gpu"
      BY <2>4, <3>4 DEF KindOf
    <3>6. Cell(table[x], y).where = StreamOf(table[x], y)
      BY <3>4, <3>5, SealedCell
    <3> QED
      BY <2>4, <3>4, <3>5, <3>6 DEF m
  <2>5. ASSUME NEW k \in KeysOf(L)
        PROVE  k \in KeysOf(M)
    <3>1. PICK x \in 1..m : /\ table[x].kind = "gpu"
                            /\ \E y \in 0..(InstanceCount(table[x]) - 1) :
                                 k = StreamOf(table[x], y)
      BY <2>1
    <3>2. PICK y \in 0..(InstanceCount(table[x]) - 1) : k = StreamOf(table[x], y)
      BY <3>1
    <3>3. \E i \in 1..n : IsGpu(i) /\ k = <<trace[i].at.pid, trace[i].at.tid>>
      BY <2>3, <3>1, <3>2
    <3> QED
      BY <2>2, <3>3
  <2>6. ASSUME NEW k \in KeysOf(M)
        PROVE  k \in KeysOf(L)
    <3>1. PICK i \in 1..n : IsGpu(i) /\ k = <<trace[i].at.pid, trace[i].at.tid>>
      BY <2>2
    <3>2. \E x \in 1..m : /\ table[x].kind = "gpu"
                          /\ \E y \in 0..(InstanceCount(table[x]) - 1) :
                               k = StreamOf(table[x], y)
      BY <2>4, <3>1
    <3> QED
      BY <2>1, <3>2
  <2> QED
    BY <2>5, <2>6
<1>8. ASSUME NEW k
      PROVE  Congruent(SumTo(Amounts(L, k, StreamNames), Len(L)),
                       SumTo(Amounts(M, k, StreamNames), Len(M)))
  <2> DEFINE f == Amounts(L, k, StreamNames)
             g == Amounts(M, k, StreamNames)
             w == BusyWeight(k)
  <2>1. Integers(f, Len(table)) /\ Integers(g, Len(trace))
    BY <1>5, <1>6, TallyOfLists DEF m, n
  <2>2. ASSUME NEW x \in 1..Len(table)
        PROVE  Congruent(f[x], TemplateSums(table, w)[x])
    <3>1. f[x] = SumOver(KernelEntries(table[x]), AmountFor(k, StreamNames))
      BY <1>2, <1>5 DEF Amounts, m
    <3> QED
      BY <3>1, KernelAmounts
  <2>3. ASSUME NEW x \in 1..Len(trace)
        PROVE  Congruent(g[x], StreamSums(w)[x])
    <3>1. g[x] = SumOver(BusyEntries(trace[x]), AmountFor(k, StreamNames))
      BY <1>2, <1>5 DEF Amounts, n
    <3> QED
      BY <3>1, BusyAmounts
  <2>4. w \in [Data -> Int]
    BY WeightsTyped
  <2> HIDE DEF f, g, w
  <2>5. Congruent(SumTo(f, Len(table)), SumTo(g, Len(trace)))
    BY <2>1, <2>2, <2>3, <2>4, AmountsAgree
  <2> QED
    BY <1>5, <2>5 DEF f, g, m, n
<1> QED
  BY <1>3, <1>6, <1>7, <1>8, TalliesAgree

\* The hotspots and the busy times read off the columns are those of the trace:
\* the sums over all instances are the sums over all events, whatever is summed,
\* and the columns give each instance the name, the stream and the duration of its
\* event.
THEOREM AnalysesAreExact == Spec => []AnalysesAgree
<1>1. /\ ArchiveInv /\ Claimed /\ Facts /\ ColumnsAligned /\ MeasuresAgree
      => AnalysesAgree
  <2> SUFFICES ASSUME ArchiveInv, Claimed, Facts, ColumnsAligned, MeasuresAgree,
                      phase = "done"
               PROVE  /\ HotspotInSitu(table) = HotspotRaw(trace)
                      /\ BalanceInSitu(table) = BalanceRaw(trace)
    BY DEF AnalysesAgree
  <2>1. Sealed
    BY DEF ArchiveInv, Sealed
  <2> QED
    BY <2>1, HotspotsAgree, BalancesAgree
<1> QED
  BY <1>1, ArchiveInvariant, ClaimedAlways, FactsAlways, ColumnsStayAligned,
     MeasuresAlwaysAgree, PTL

-----------------------------------------------------------------------------
(* How often the elements of a set occur in a list.                         *)

Marks(s, E) == [p \in 1..Len(s) |-> IF s[p] \in E THEN 1 ELSE 0]
CountOver(s, E) == SumTo(Marks(s, E), Len(s))

\* A weight that marks the elements counts them.
LEMMA CountIsSum ==
  ASSUME NEW s, IsList(s), NEW E, NEW w,
         \A p \in 1..Len(s) : w[s[p]] = IF s[p] \in E THEN 1 ELSE 0
  PROVE  Weighs(w, s) /\ CountOver(s, E) = SumOver(s, w)
<1> DEFINE f == Marks(s, E)
           g == Weights(s, w)
           n == Len(s)
<1>1. n \in Nat
  BY ListFacts
<1>2. Integers(f, n) /\ \A p \in 1..n : f[p] = g[p]
  BY DEF Marks, Weights, Integers
<1>3. Weighs(w, s)
  BY DEF Weighs
<1> HIDE DEF f, g, n
<1>4. SumTo(f, n) = SumTo(g, n)
  BY <1>1, <1>2, SumSame
<1> QED
  BY <1>3, <1>4 DEF CountOver, SumOver, f, g, n

\* Counting nothing, and two lists one after the other.
LEMMA CountLaws ==
  ASSUME NEW s, NEW t, IsList(s), IsList(t), NEW E
  PROVE  /\ CountOver(s, E) \in Int /\ CountOver(<<>>, E) = 0
         /\ CountOver(s \o t, E) = CountOver(s, E) + CountOver(t, E)
<1> DEFINE U == {s[p] : p \in 1..Len(s)} \cup {t[p] : p \in 1..Len(t)}
           w == [x \in U |-> IF x \in E THEN 1 ELSE 0]
           c == s \o t
<1>1. /\ \A p \in 1..Len(s) : w[s[p]] = IF s[p] \in E THEN 1 ELSE 0
      /\ \A p \in 1..Len(t) : w[t[p]] = IF t[p] \in E THEN 1 ELSE 0
  OBVIOUS
<1> HIDE DEF w, U
<1>2. /\ IsList(c) /\ Len(c) = Len(s) + Len(t) /\ Len(s) \in Nat /\ Len(t) \in Nat
      /\ \A p \in 1..Len(s) : c[p] = s[p]
      /\ \A p \in 1..Len(t) : c[Len(s) + p] = t[p]
  <2>1. /\ IsList(c) /\ Len(c) = Len(s) + Len(t)
        /\ \A p \in 1..Len(s) : c[p] = s[p]
        /\ \A p \in 1..Len(t) : c[Len(s) + p] = t[p]
    BY ConcatLists
  <2>2. Len(s) \in Nat /\ Len(t) \in Nat
    BY ListFacts
  <2> QED
    BY <2>1, <2>2
<1> HIDE DEF c
<1>3. \A p \in 1..Len(c) : w[c[p]] = IF c[p] \in E THEN 1 ELSE 0
  <2> SUFFICES ASSUME NEW p \in 1..Len(c)
               PROVE  w[c[p]] = IF c[p] \in E THEN 1 ELSE 0
    OBVIOUS
  <2>1. CASE p \in 1..Len(s)
    BY <1>1, <1>2, <2>1
  <2>2. CASE p \notin 1..Len(s)
    <3>1. p - Len(s) \in 1..Len(t) /\ Len(s) + (p - Len(s)) = p
      BY <1>2, <2>2
    <3> QED
      BY <1>1, <1>2, <3>1, SMTT(30)
  <2> QED
    BY <2>1, <2>2
<1>4. /\ Weighs(w, s) /\ CountOver(s, E) = SumOver(s, w)
      /\ Weighs(w, t) /\ CountOver(t, E) = SumOver(t, w)
      /\ CountOver(c, E) = SumOver(c, w)
  BY <1>1, <1>2, <1>3, CountIsSum
<1>5. SumOver(s, w) \in Int /\ SumOver(c, w) = SumOver(s, w) + SumOver(t, w)
  BY <1>4, SumOverLaws DEF c
<1>6. CountOver(<<>>, E) = 0
  BY EmptyList, SumLaws DEF CountOver, Integers
<1> QED
  BY <1>4, <1>5, <1>6 DEF c

\* Counting a list of lists.
LEMMA CountFlatten ==
  ASSUME NEW L, IsListOfLists(L), NEW E, NEW f,
         \A i \in 1..Len(L) : f[i] = CountOver(L[i], E)
  PROVE  Integers(f, Len(L)) /\ CountOver(FlattenSeq(L), E) = SumTo(f, Len(L))
<1> DEFINE all == FlattenSeq(L)
           U == UNION {{L[i][k] : k \in 1..Len(L[i])} : i \in 1..Len(L)}
           w == [x \in U |-> IF x \in E THEN 1 ELSE 0]
<1>1. /\ IsList(all)
      /\ \A p \in 1..Len(all) : \E i \in 1..Len(L) : \E k \in 1..Len(L[i]) : all[p] = L[i][k]
  BY FlattenElements
<1>2. \A i \in 1..Len(L) : \A k \in 1..Len(L[i]) :
        w[L[i][k]] = IF L[i][k] \in E THEN 1 ELSE 0
  OBVIOUS
<1> HIDE DEF all, U, w
<1>3. \A p \in 1..Len(all) : w[all[p]] = IF all[p] \in E THEN 1 ELSE 0
  <2> SUFFICES ASSUME NEW p \in 1..Len(all)
               PROVE  w[all[p]] = IF all[p] \in E THEN 1 ELSE 0
    OBVIOUS
  <2>1. PICK i \in 1..Len(L) : \E k \in 1..Len(L[i]) : all[p] = L[i][k]
    BY <1>1
  <2>2. PICK k \in 1..Len(L[i]) : all[p] = L[i][k]
    BY <2>1
  <2>3. w[L[i][k]] = IF L[i][k] \in E THEN 1 ELSE 0
    BY <1>2
  <2> QED
    BY <2>2, <2>3
<1>4. \A i \in 1..Len(L) : Weighs(w, L[i]) /\ f[i] = SumOver(L[i], w)
  <2> SUFFICES ASSUME NEW i \in 1..Len(L)
               PROVE  Weighs(w, L[i]) /\ f[i] = SumOver(L[i], w)
    OBVIOUS
  <2>1. PICK s : s = L[i]
    OBVIOUS
  <2>2. IsList(s) /\ \A k \in 1..Len(s) : w[s[k]] = IF s[k] \in E THEN 1 ELSE 0
    BY <1>2, <2>1 DEF IsListOfLists
  <2>3. Weighs(w, s) /\ CountOver(s, E) = SumOver(s, w)
    BY <2>2, CountIsSum
  <2> QED
    BY <2>1, <2>3
<1>5. CountOver(all, E) = SumOver(all, w)
  BY <1>1, <1>3, CountIsSum
<1>6. Integers(f, Len(L)) /\ SumOver(FlattenSeq(L), w) = SumTo(f, Len(L))
  BY <1>4, SumOverFlatten
<1> QED
  BY <1>5, <1>6 DEF all

\* Counting what is all counted gives the length, and counting one element the
\* number of its places.
LEMMA CountPlaces ==
  ASSUME NEW s, IsList(s)
  PROVE  /\ \A E : (\A p \in 1..Len(s) : s[p] \in E) => CountOver(s, E) = Len(s)
         /\ \A e : Times(s, e) = CountOver(s, {e})
<1>1. Len(s) \in Nat /\ DOMAIN s = 1..Len(s)
  BY ListFacts
<1>2. ASSUME NEW E, \A p \in 1..Len(s) : s[p] \in E
      PROVE  CountOver(s, E) = Len(s)
  <2> DEFINE f == Marks(s, E)
             n == Len(s)
  <2>1. \A p \in 1..n : f[p] = 1
    BY <1>2 DEF Marks
  <2>2. n \in Nat /\ 1 \in Int
    BY <1>1
  <2> HIDE DEF f, n
  <2>3. SumTo(f, n) = n * 1
    BY <2>1, <2>2, SumConstant
  <2>4. n * 1 = n
    BY <2>2
  <2> QED
    BY <2>3, <2>4 DEF f, n, CountOver
<1>3. ASSUME NEW e
      PROVE  Times(s, e) = CountOver(s, {e})
  <2> DEFINE n == Len(s)
             f == Marks(s, {e})
             places(m) == {p \in 1..m : s[p] = e}
             P(m) == IsFiniteSet(places(m)) /\ Cardinality(places(m)) = SumTo(f, m)
             S == {m \in 0..n : P(m)}
  <2>1. n \in Nat /\ \A p \in 1..n : f[p] = IF s[p] = e THEN 1 ELSE 0
    BY <1>1 DEF Marks
  <2> HIDE DEF f
  <2>2. \A m \in 0..n : Integers(f, m) /\ m \in Nat
    BY <2>1 DEF Integers
  <2>3. 0 \in S
    <3>1. places(0) = {} /\ 0 \in 0..n
      BY <2>1
    <3>2. SumTo(f, 0) = 0
      BY <2>2, <3>1, SumLaws
    <3> QED
      BY <3>1, <3>2, FS_EmptySet
  <2>4. ASSUME NEW m \in 0..n, m \in S, m < n
        PROVE  m + 1 \in S
    <3>1. m + 1 \in 0..n /\ m + 1 \in 1..n /\ m + 1 # 0 /\ (m + 1) - 1 = m
      BY <2>1, <2>4
    <3> DEFINE a == m + 1
               here == places(m)
    <3>2. a \in Nat /\ Integers(f, a) /\ a # 0
      BY <2>2, <3>1
    <3>3. P(m) /\ a \notin here
      BY <2>4
    <3>4. places(a) = IF s[a] = e THEN here \cup {a} ELSE here
      BY <3>1
    <3>5. a - 1 = m /\ a \in 0..n /\ f[a] = IF s[a] = e THEN 1 ELSE 0
      BY <2>1, <3>1
    <3>6. IsFiniteSet(here) /\ Cardinality(here) = SumTo(f, m)
      BY <3>3
    <3> HIDE DEF a, here, places
    <3>7. SumTo(f, a) = SumTo(f, a - 1) + f[a]
      BY <3>2, SumLaws
    <3>8. /\ IsFiniteSet(here \cup {a})
          /\ Cardinality(here \cup {a}) = Cardinality(here) + 1
      BY <3>3, <3>6, FS_AddElement
    <3>9. SumTo(f, m) \in Int
      BY <2>2, SumLaws
    <3>10. P(a)
      <4>1. CASE s[a] = e
        BY <3>4, <3>5, <3>6, <3>7, <3>8, <4>1
      <4>2. CASE s[a] # e
        BY <3>4, <3>5, <3>6, <3>7, <3>9, <4>2
      <4> QED
        BY <4>1, <4>2
    <3> QED
      BY <3>5, <3>10 DEF a
  <2> HIDE DEF S
  <2>5. 0..n \subseteq S
    BY <2>1, <2>3, <2>4, BoundedInduction
  <2>6. n \in S
    BY <2>1, <2>5
  <2> USE DEF S
  <2>7. Cardinality(places(n)) = SumTo(f, n)
    BY <2>6
  <2> QED
    BY <1>1, <2>7 DEF Times, CountOver, f
<1> QED
  BY <1>2, <1>3

-----------------------------------------------------------------------------
(* The lists of nodes and of events that decompress() goes through.         *)

\* A list that has the elements of one and then those of another.
LEMMA ConcatIs ==
  ASSUME NEW A, NEW B, NEW C, IsList(A), IsList(B), IsList(C),
         Len(C) = Len(A) + Len(B),
         \A p \in 1..Len(A) : C[p] = A[p],
         \A p \in 1..Len(B) : C[Len(A) + p] = B[p]
  PROVE  C = A \o B
<1>1. Len(A) \in Nat /\ Len(B) \in Nat
  BY ListFacts
<1>2. PICK d : d = A \o B
  OBVIOUS
<1>3. /\ IsList(d) /\ Len(d) = Len(A) + Len(B)
      /\ \A p \in 1..Len(A) : d[p] = A[p]
      /\ \A p \in 1..Len(B) : d[Len(A) + p] = B[p]
  BY <1>2, ConcatLists
<1>4. ASSUME NEW p \in 1..Len(C)
      PROVE  C[p] = d[p]
  <2>1. CASE p \in 1..Len(A)
    BY <1>3, <2>1
  <2>2. CASE p \notin 1..Len(A)
    <3>1. p - Len(A) \in 1..Len(B) /\ Len(A) + (p - Len(A)) = p
      BY <1>1, <2>2
    <3> QED
      BY <1>3, <3>1
  <2> QED
    BY <2>1, <2>2
<1> QED
  BY <1>2, <1>3, <1>4, ListsEqual

\* Flattening what is made of nothing, and of one element.
LEMMA FlattenShort ==
  /\ \A A : A = [p \in DOMAIN <<>> |-> A[p]] => FlattenSeq(A) = <<>>
  /\ \A x, y, A : A = [p \in DOMAIN <<x>> |-> A[p]] /\ A[1] = y /\ IsList(y)
       => FlattenSeq(A) = y
<1>1. ASSUME NEW A, A = [p \in DOMAIN <<>> |-> A[p]]
      PROVE  FlattenSeq(A) = <<>>
  <2>1. 0 \in Nat /\ DOMAIN <<>> = 1..0
    OBVIOUS
  <2>2. IsList(A) /\ Len(A) = 0
    BY <1>1, <2>1, ListOfFunction
  <2>3. A = <<>> /\ DOMAIN A = {}
    BY <1>1, <2>1, <2>2, ListFacts
  <2> QED
    BY <2>2, <2>3, FlattenLaws
<1>2. ASSUME NEW x, NEW y, NEW A, A = [p \in DOMAIN <<x>> |-> A[p]], A[1] = y, IsList(y)
      PROVE  FlattenSeq(A) = y
  <2>1. DOMAIN <<x>> = 1..1 /\ 1 \in Nat
    OBVIOUS
  <2>2. A = [p \in 1..1 |-> A[p]]
    BY <1>2, <2>1
  <2>3. IsList(A) /\ Len(A) = 1
    BY <2>1, <2>2, ListOfFunction
  <2>4. IsList(<<y>>) /\ Len(<<y>>) = 1 /\ <<y>>[1] = y
    BY ShortLists
  <2>5. PICK b : b = <<y>>
    OBVIOUS
  <2>6. A = b
    BY <1>2, <2>3, <2>4, <2>5, ListsEqual
  <2> QED
    BY <1>2, <2>5, <2>6, FlattenSingles
<1> QED
  BY <1>1, <1>2

\* The events of a list of references.
LEMMA EmitLists ==
  ASSUME NEW tbl, NEW kind, NEW at
  PROVE  /\ EmitAll(tbl, kind, at, <<>>) = <<>>
         /\ \A refs : IsList(refs) => IsList(EmitAll(tbl, kind, at, refs))
<1>1. EmitAll(tbl, kind, at, <<>>) = <<>>
  <2>1. PICK A : A = [p \in DOMAIN <<>> |-> Emit(tbl, kind, at, <<>>[p])]
    OBVIOUS
  <2>2. A = [p \in DOMAIN <<>> |-> A[p]]
    BY <2>1
  <2> QED
    BY <2>1, <2>2, FlattenShort DEF EmitAll
<1>2. ASSUME NEW refs, IsList(refs)
      PROVE  IsList(EmitAll(tbl, kind, at, refs))
  <2>1. PICK A : A = [p \in DOMAIN refs |-> Emit(tbl, kind, at, refs[p])]
    OBVIOUS
  <2>2. /\ A = [p \in 1..Len(refs) |-> A[p]] /\ Len(refs) \in Nat
        /\ \A p \in 1..Len(refs) : A[p] = Emit(tbl, kind, at, refs[p])
    BY <1>2, <2>1, ListFacts
  <2>3. \A ref : IsList(Emit(tbl, kind, at, ref))
    BY ShortLists DEF Emit
  <2>4. IsListOfLists(A)
    BY <2>2, <2>3, ListOfFunction DEF IsListOfLists
  <2> QED
    BY <2>1, <2>4, FlattenElements DEF EmitAll
<1> QED
  BY <1>1, <1>2

\* A node that was read has lists for its children, references and events.
LEMMA NodeLists ==
  ASSUME NEW x, WellFormed(x), NEW tbl, NEW at
  PROVE  /\ IsList(Children(x)) /\ IsList(CpuRefs(x)) /\ IsList(GpuRefs(x))
         /\ IsList(OwnEvents(tbl, x, at))
<1>1. ASSUME NEW ts, NEW is, IsList(ts), IsList(is)
      PROVE  IsList(Paired(ts, is))
  <2>1. Len(ts) \in Nat /\ Len(is) \in Nat
    BY <1>1, ListFacts
  <2>2. PICK n : n = IF Len(ts) < Len(is) THEN Len(ts) ELSE Len(is)
    OBVIOUS
  <2>3. n \in Nat
    BY <2>1, <2>2
  <2>4. PICK f : f = Paired(ts, is)
    OBVIOUS
  <2>5. f = [p \in 1..n |-> f[p]]
    BY <2>2, <2>4 DEF Paired
  <2> QED
    BY <2>3, <2>4, <2>5, ListOfFunction
<1>2. \A r : IsList(<<r>>)
  BY ShortLists
<1>3. IsList(Children(x))
  <2>1. CASE x.k = "same_cpu"
    <3>1. IsList(x.children) /\ IsListOfLists(x.slots)
      BY <2>1, ListFacts DEF WellFormed, IsListOfLists
    <3>2. IsList(FlattenSeq(x.slots))
      BY <3>1, FlattenElements
    <3> QED
      BY <2>1, <3>1, <3>2, ConcatLists DEF Children
  <2>2. CASE x.k = "cpu"
    BY <2>2, ConcatLists DEF WellFormed, Children
  <2>3. CASE x.k = "root"
    BY <2>3 DEF WellFormed, Children
  <2>4. CASE x.k \notin {"same_cpu", "cpu", "root"}
    BY <2>4, EmptyList DEF Children
  <2> QED
    BY <2>1, <2>2, <2>3, <2>4
<1>4. IsList(CpuRefs(x))
  <2>1. CASE x.k = "same_cpu"
    <3>1. IsList(x.instances)
      BY <2>1 DEF WellFormed
    <3>2. Len(x.instances) \in Nat /\ DOMAIN x.instances = 1..Len(x.instances)
      BY <3>1, ListFacts
    <3>3. PICK f : f = SameCpuRefs(x)
      OBVIOUS
    <3>4. f = [p \in 1..Len(x.instances) |-> f[p]]
      BY <3>2, <3>3 DEF SameCpuRefs
    <3>5. IsList(f)
      BY <3>2, <3>4, ListOfFunction
    <3> QED
      BY <2>1, <3>3, <3>5 DEF CpuRefs
  <2>2. CASE x.k = "cpu_batch"
    BY <1>1, <2>2 DEF WellFormed, CpuRefs
  <2>3. CASE x.k = "cpu"
    BY <1>2, <2>3 DEF CpuRefs
  <2>4. CASE x.k \notin {"same_cpu", "cpu_batch", "cpu"}
    BY <2>4, EmptyList DEF CpuRefs
  <2> QED
    BY <2>1, <2>2, <2>3, <2>4
<1>5. IsList(GpuRefs(x))
  <2>1. CASE x.k = "gpu"
    BY <1>1, <2>1 DEF WellFormed, GpuRefs
  <2>2. CASE x.k = "kernel_launch"
    BY <1>2, <2>2 DEF GpuRefs
  <2>3. CASE x.k = "kernels_launch"
    BY <1>1, <2>3 DEF WellFormed, GpuRefs
  <2>4. CASE x.k \notin {"gpu", "kernel_launch", "kernels_launch"}
    BY <2>4, EmptyList DEF GpuRefs
  <2> QED
    BY <2>1, <2>2, <2>3, <2>4
<1>6. IsList(OwnEvents(tbl, x, at))
  <2>1. IsList(EmitAll(tbl, "cpu", at, CpuRefs(x))) /\ IsList(EmitAll(tbl, "gpu", at, GpuRefs(x)))
    BY <1>4, <1>5, EmitLists
  <2> QED
    BY <2>1, ConcatLists DEF OwnEvents
<1> QED
  BY <1>3, <1>4, <1>5, <1>6
\* A list of nodes that were read.
Nodes(list) == IsList(list) /\ \A p \in 1..Len(list) : WellFormed(list[p])

\* Two lists of nodes, one after the other, and their parts.
LEMMA NodesConcat ==
  ASSUME NEW s, NEW t, IsList(s), IsList(t)
  PROVE  Nodes(s \o t) <=> Nodes(s) /\ Nodes(t)
<1>1. PICK c : c = s \o t
  OBVIOUS
<1>2. /\ IsList(c) /\ Len(c) = Len(s) + Len(t)
      /\ \A p \in 1..Len(s) : c[p] = s[p]
      /\ \A p \in 1..Len(t) : c[Len(s) + p] = t[p]
  BY <1>1, ConcatLists
<1>3. Len(s) \in Nat /\ Len(t) \in Nat
  BY ListFacts
<1>4. ASSUME Nodes(c)
      PROVE  Nodes(s) /\ Nodes(t)
  <2>1. \A p \in 1..Len(s) : p \in 1..Len(c)
    BY <1>2, <1>3
  <2>2. \A p \in 1..Len(t) : Len(s) + p \in 1..Len(c)
    BY <1>2, <1>3
  <2>3. \A p \in 1..Len(c) : WellFormed(c[p])
    BY <1>4 DEF Nodes
  <2>4. \A p \in 1..Len(s) : WellFormed(s[p])
    BY <1>2, <2>1, <2>3
  <2>5. \A p \in 1..Len(t) : WellFormed(t[p])
    BY <1>2, <2>2, <2>3
  <2> QED
    BY <2>4, <2>5 DEF Nodes
<1>5. ASSUME Nodes(s), Nodes(t)
      PROVE  Nodes(c)
  <2>1. (\A p \in 1..Len(s) : WellFormed(s[p])) /\ \A p \in 1..Len(t) : WellFormed(t[p])
    BY <1>5 DEF Nodes
  <2>2. ASSUME NEW p \in 1..Len(c)
        PROVE  WellFormed(c[p])
    <3>1. CASE p \in 1..Len(s)
      BY <1>2, <2>1, <3>1
    <3>2. CASE p \notin 1..Len(s)
      <4>1. p - Len(s) \in 1..Len(t) /\ Len(s) + (p - Len(s)) = p
        BY <1>2, <1>3, <3>2
      <4> QED
        BY <1>2, <2>1, <4>1
    <3> QED
      BY <3>1, <3>2
  <2> QED
    BY <1>2, <2>2 DEF Nodes
<1> QED
  BY <1>1, <1>4, <1>5

\* The level below, of no node, of one, and of two lists.
LEMMA BelowLaws ==
  /\ Below(<<>>) = <<>>
  /\ \A x : WellFormed(x) => Below(<<x>>) = Children(x) /\ IsList(Children(x))
  /\ \A s, t : Nodes(s) /\ Nodes(t) =>
       Below(s \o t) = Below(s) \o Below(t) /\ IsList(Below(s)) /\ IsList(Below(t))
<1>1. Below(<<>>) = <<>>
  <2>1. PICK A : A = [p \in DOMAIN <<>> |-> Children(<<>>[p])]
    OBVIOUS
  <2>2. A = [p \in DOMAIN <<>> |-> A[p]]
    BY <2>1
  <2> QED
    BY <2>1, <2>2, FlattenShort DEF Below
<1>2. ASSUME NEW x, WellFormed(x)
      PROVE  Below(<<x>>) = Children(x) /\ IsList(Children(x))
  <2>1. PICK A : A = [p \in DOMAIN <<x>> |-> Children(<<x>>[p])]
    OBVIOUS
  <2>2. PICK y : y = Children(x)
    OBVIOUS
  <2>3. A = [p \in DOMAIN <<x>> |-> A[p]] /\ A[1] = y
    BY <2>1, <2>2
  <2>4. IsList(y)
    BY <1>2, <2>2, NodeLists
  <2> QED
    BY <2>1, <2>2, <2>3, <2>4, FlattenShort DEF Below
<1>3. ASSUME NEW s, NEW t, Nodes(s), Nodes(t)
      PROVE  Below(s \o t) = Below(s) \o Below(t) /\ IsList(Below(s)) /\ IsList(Below(t))
  <2>1. PICK c : c = s \o t
    OBVIOUS
  <2>2. PICK A : A = [p \in DOMAIN s |-> Children(s[p])]
    OBVIOUS
  <2>3. PICK B : B = [p \in DOMAIN t |-> Children(t[p])]
    OBVIOUS
  <2>4. PICK C : C = [p \in DOMAIN c |-> Children(c[p])]
    OBVIOUS
  <2>5. /\ IsList(s) /\ IsList(t)
        /\ \A p \in 1..Len(s) : WellFormed(s[p])
        /\ \A p \in 1..Len(t) : WellFormed(t[p])
    BY <1>3 DEF Nodes
  <2>6. /\ IsList(c) /\ Len(c) = Len(s) + Len(t)
        /\ \A p \in 1..Len(s) : c[p] = s[p]
        /\ \A p \in 1..Len(t) : c[Len(s) + p] = t[p]
    BY <2>1, <2>5, ConcatLists
  <2>7. /\ DOMAIN s = 1..Len(s) /\ DOMAIN t = 1..Len(t) /\ DOMAIN c = 1..Len(c)
        /\ Len(s) \in Nat /\ Len(t) \in Nat
    BY <2>5, <2>6, ListFacts
  <2>8. \A x : WellFormed(x) => IsList(Children(x))
    BY NodeLists
  <2>9. \A p \in 1..Len(s) : IsList(A[p]) /\ C[p] = A[p]
    <3> SUFFICES ASSUME NEW p \in 1..Len(s)
                 PROVE  IsList(A[p]) /\ C[p] = A[p]
      OBVIOUS
    <3>1. p \in DOMAIN c
      BY <2>6, <2>7
    <3> QED
      BY <2>2, <2>4, <2>5, <2>6, <2>7, <2>8, <3>1
  <2>10. \A p \in 1..Len(t) : IsList(B[p]) /\ C[Len(s) + p] = B[p]
    <3> SUFFICES ASSUME NEW p \in 1..Len(t)
                 PROVE  IsList(B[p]) /\ C[Len(s) + p] = B[p]
      OBVIOUS
    <3>1. Len(s) + p \in DOMAIN c
      BY <2>6, <2>7
    <3> QED
      BY <2>3, <2>4, <2>5, <2>6, <2>7, <2>8, <3>1
  <2>11. /\ A = [p \in 1..Len(s) |-> A[p]] /\ B = [p \in 1..Len(t) |-> B[p]]
         /\ C = [p \in 1..Len(c) |-> C[p]] /\ Len(c) \in Nat
    BY <2>2, <2>3, <2>4, <2>6, <2>7
  <2>12. IsList(A) /\ Len(A) = Len(s)
    BY ONLY <2>7, <2>11, ListOfFunction
  <2>13. IsList(B) /\ Len(B) = Len(t)
    BY ONLY <2>7, <2>11, ListOfFunction
  <2>14. IsList(C) /\ Len(C) = Len(c)
    BY ONLY <2>11, ListOfFunction
  <2>15. C = A \o B
    <3>1. IsList(A) /\ IsList(B) /\ IsList(C) /\ Len(C) = Len(A) + Len(B)
      BY ONLY <2>6, <2>12, <2>13, <2>14
    <3>2. \A p \in 1..Len(A) : C[p] = A[p]
      BY ONLY <2>9, <2>12
    <3>3. \A p \in 1..Len(B) : C[Len(A) + p] = B[p]
      BY ONLY <2>10, <2>12, <2>13
    <3> QED
      BY ONLY <3>1, <3>2, <3>3, ConcatIs
  <2>16. IsListOfLists(A) /\ IsListOfLists(B)
    BY <2>9, <2>10, <2>12, <2>13 DEF IsListOfLists
  <2>17. FlattenSeq(A \o B) = FlattenSeq(A) \o FlattenSeq(B)
    BY <2>16, FlattenConcat
  <2>18. IsList(FlattenSeq(A)) /\ IsList(FlattenSeq(B))
    BY <2>16, FlattenElements
  <2> QED
    BY <2>1, <2>2, <2>3, <2>4, <2>15, <2>17, <2>18 DEF Below
<1> QED
  BY <1>1, <1>2, <1>3

\* The events of no node, of one, and of two lists of nodes.
LEMMA EventsLaws ==
  ASSUME NEW tbl, NEW at
  PROVE  /\ EventsOf(tbl, <<>>, at) = <<>>
         /\ \A x : WellFormed(x) =>
              EventsOf(tbl, <<x>>, at) = OwnEvents(tbl, x, at) /\ IsList(OwnEvents(tbl, x, at))
         /\ \A s, t : Nodes(s) /\ Nodes(t) =>
              /\ EventsOf(tbl, s \o t, at) = EventsOf(tbl, s, at) \o EventsOf(tbl, t, at)
              /\ IsList(EventsOf(tbl, s, at)) /\ IsList(EventsOf(tbl, t, at))
<1>1. EventsOf(tbl, <<>>, at) = <<>>
  <2>1. PICK A : A = [p \in DOMAIN <<>> |-> OwnEvents(tbl, <<>>[p], at)]
    OBVIOUS
  <2>2. A = [p \in DOMAIN <<>> |-> A[p]]
    BY <2>1
  <2> QED
    BY <2>1, <2>2, FlattenShort DEF EventsOf
<1>2. ASSUME NEW x, WellFormed(x)
      PROVE  EventsOf(tbl, <<x>>, at) = OwnEvents(tbl, x, at) /\ IsList(OwnEvents(tbl, x, at))
  <2>1. PICK A : A = [p \in DOMAIN <<x>> |-> OwnEvents(tbl, <<x>>[p], at)]
    OBVIOUS
  <2>2. PICK y : y = OwnEvents(tbl, x, at)
    OBVIOUS
  <2>3. A = [p \in DOMAIN <<x>> |-> A[p]] /\ A[1] = y
    BY <2>1, <2>2
  <2>4. IsList(y)
    BY <1>2, <2>2, NodeLists
  <2> QED
    BY <2>1, <2>2, <2>3, <2>4, FlattenShort DEF EventsOf
<1>3. ASSUME NEW s, NEW t, Nodes(s), Nodes(t)
      PROVE  /\ EventsOf(tbl, s \o t, at) = EventsOf(tbl, s, at) \o EventsOf(tbl, t, at)
             /\ IsList(EventsOf(tbl, s, at)) /\ IsList(EventsOf(tbl, t, at))
  <2>1. PICK c : c = s \o t
    OBVIOUS
  <2>2. PICK A : A = [p \in DOMAIN s |-> OwnEvents(tbl, s[p], at)]
    OBVIOUS
  <2>3. PICK B : B = [p \in DOMAIN t |-> OwnEvents(tbl, t[p], at)]
    OBVIOUS
  <2>4. PICK C : C = [p \in DOMAIN c |-> OwnEvents(tbl, c[p], at)]
    OBVIOUS
  <2>5. /\ IsList(s) /\ IsList(t)
        /\ \A p \in 1..Len(s) : WellFormed(s[p])
        /\ \A p \in 1..Len(t) : WellFormed(t[p])
    BY <1>3 DEF Nodes
  <2>6. /\ IsList(c) /\ Len(c) = Len(s) + Len(t)
        /\ \A p \in 1..Len(s) : c[p] = s[p]
        /\ \A p \in 1..Len(t) : c[Len(s) + p] = t[p]
    BY <2>1, <2>5, ConcatLists
  <2>7. /\ DOMAIN s = 1..Len(s) /\ DOMAIN t = 1..Len(t) /\ DOMAIN c = 1..Len(c)
        /\ Len(s) \in Nat /\ Len(t) \in Nat
    BY <2>5, <2>6, ListFacts
  <2>8. \A x : WellFormed(x) => IsList(OwnEvents(tbl, x, at))
    BY NodeLists
  <2>9. \A p \in 1..Len(s) : IsList(A[p]) /\ C[p] = A[p]
    <3> SUFFICES ASSUME NEW p \in 1..Len(s)
                 PROVE  IsList(A[p]) /\ C[p] = A[p]
      OBVIOUS
    <3>1. p \in DOMAIN c
      BY <2>6, <2>7
    <3> QED
      BY <2>2, <2>4, <2>5, <2>6, <2>7, <2>8, <3>1
  <2>10. \A p \in 1..Len(t) : IsList(B[p]) /\ C[Len(s) + p] = B[p]
    <3> SUFFICES ASSUME NEW p \in 1..Len(t)
                 PROVE  IsList(B[p]) /\ C[Len(s) + p] = B[p]
      OBVIOUS
    <3>1. Len(s) + p \in DOMAIN c
      BY <2>6, <2>7
    <3> QED
      BY <2>3, <2>4, <2>5, <2>6, <2>7, <2>8, <3>1
  <2>11. /\ A = [p \in 1..Len(s) |-> A[p]] /\ B = [p \in 1..Len(t) |-> B[p]]
         /\ C = [p \in 1..Len(c) |-> C[p]] /\ Len(c) \in Nat
    BY <2>2, <2>3, <2>4, <2>6, <2>7
  <2>12. IsList(A) /\ Len(A) = Len(s)
    BY ONLY <2>7, <2>11, ListOfFunction
  <2>13. IsList(B) /\ Len(B) = Len(t)
    BY ONLY <2>7, <2>11, ListOfFunction
  <2>14. IsList(C) /\ Len(C) = Len(c)
    BY ONLY <2>11, ListOfFunction
  <2>15. C = A \o B
    <3>1. IsList(A) /\ IsList(B) /\ IsList(C) /\ Len(C) = Len(A) + Len(B)
      BY ONLY <2>6, <2>12, <2>13, <2>14
    <3>2. \A p \in 1..Len(A) : C[p] = A[p]
      BY ONLY <2>9, <2>12
    <3>3. \A p \in 1..Len(B) : C[Len(A) + p] = B[p]
      BY ONLY <2>10, <2>12, <2>13
    <3> QED
      BY ONLY <3>1, <3>2, <3>3, ConcatIs
  <2>16. IsListOfLists(A) /\ IsListOfLists(B)
    BY <2>9, <2>10, <2>12, <2>13 DEF IsListOfLists
  <2>17. FlattenSeq(A \o B) = FlattenSeq(A) \o FlattenSeq(B)
    BY <2>16, FlattenConcat
  <2>18. IsList(FlattenSeq(A)) /\ IsList(FlattenSeq(B))
    BY <2>16, FlattenElements
  <2> QED
    BY <2>1, <2>2, <2>3, <2>4, <2>15, <2>17, <2>18 DEF EventsOf
<1> QED
  BY <1>1, <1>2, <1>3

\* f lists the levels of the trees in list, down to the n-th.
Descends(f, list, n) == f = [e \in 0..n |-> IF e = 0 THEN list ELSE Below(f[e - 1])]

\* The list itself is level 0, and each level is below the one before.
LEMMA LevelLaws ==
  ASSUME NEW list
  PROVE  /\ Level(list, 0) = list
         /\ \A d \in 0..OldDepth : d < OldDepth => Level(list, d + 1) = Below(Level(list, d))
<1> DEFINE S == {m \in 0..OldDepth : \E f : Descends(f, list, m)}
<1>1. OldDepth \in Nat /\ OldDepth # 0
  BY OldNodeAssumption
<1>2. 0 \in S
  <2> DEFINE f == [e \in 0..0 |-> list]
  <2>1. Descends(f, list, 0)
    BY DEF Descends
  <2> QED
    BY <1>1, <2>1
<1>3. ASSUME NEW m \in 0..OldDepth, m \in S, m < OldDepth
      PROVE  m + 1 \in S
  <2>1. PICK f : Descends(f, list, m)
    BY <1>3
  <2> DEFINE value(e) == IF e = 0 THEN list ELSE Below(f[e - 1])
             g == [e \in 0..(m + 1) |-> value(e)]
  <2>2. \A e \in 0..m : f[e] = value(e)
    BY <2>1 DEF Descends
  <2>3. ASSUME NEW e \in 0..(m + 1)
        PROVE  g[e] = IF e = 0 THEN list ELSE Below(g[e - 1])
    <3>1. CASE e = 0
      BY <3>1
    <3>2. CASE e # 0
      <4>1. e - 1 \in 0..m /\ e - 1 \in 0..(m + 1)
        BY <3>2
      <4>2. g[e - 1] = f[e - 1]
        BY <2>2, <4>1
      <4> QED
        BY <3>2, <4>2
    <3> QED
      BY <3>1, <3>2
  <2>4. g = [e \in 0..(m + 1) |-> g[e]]
    OBVIOUS
  <2> HIDE DEF g
  <2>5. Descends(g, list, m + 1)
    BY <2>3, <2>4 DEF Descends
  <2>6. m + 1 \in 0..OldDepth
    BY <1>1, <1>3
  <2> QED
    BY <2>5, <2>6
<1> HIDE DEF S
<1>4. 0..OldDepth \subseteq S
  BY <1>1, <1>2, <1>3, BoundedInduction
<1>5. OldDepth \in S
  BY <1>1, <1>4
<1>6. \E f : Descends(f, list, OldDepth)
  BY <1>5 DEF S
<1> DEFINE down == CHOOSE f : Descends(f, list, OldDepth)
<1>7. Descends(down, list, OldDepth)
  BY <1>6
<1>8. \A d \in 0..OldDepth : Level(list, d) = down[d]
  BY DEF Level, Descends
<1> HIDE DEF down
<1>9. \A d \in 0..OldDepth : down[d] = IF d = 0 THEN list ELSE Below(down[d - 1])
  BY <1>7 DEF Descends
<1>10. Level(list, 0) = list
  BY <1>1, <1>8, <1>9
<1>11. ASSUME NEW d \in 0..OldDepth, d < OldDepth
       PROVE  Level(list, d + 1) = Below(Level(list, d))
  <2>1. d + 1 \in 0..OldDepth /\ d + 1 # 0 /\ (d + 1) - 1 = d
    BY <1>1, <1>11
  <2> QED
    BY <1>8, <1>9, <2>1
<1> QED
  BY <1>10, <1>11
\* Every level of these trees holds nodes that were read, and none is too deep.
Sound(list) ==
  /\ \A d \in 0..(OldDepth - 1) : Nodes(Level(list, d))
  /\ Level(list, OldDepth) = <<>>

\* The numbers of the levels.
LEMMA Depths ==
  /\ OldDepth \in Nat /\ OldDepth # 0 /\ 0 \in 0..(OldDepth - 1) /\ OldDepth \in 0..OldDepth
  /\ \A d \in 0..OldDepth : d < OldDepth => d \in 0..(OldDepth - 1) /\ d + 1 \in 0..OldDepth
  /\ \A d \in 0..OldDepth : d = OldDepth \/ d \in 0..(OldDepth - 1)
  /\ \A d \in 0..(OldDepth - 1) : d \in 0..OldDepth /\ d < OldDepth /\ d \in Nat
BY OldNodeAssumption

\* No node is no tree, and a level of sound trees is a list of nodes.
LEMMA SoundFacts ==
  /\ Nodes(<<>>) /\ Sound(<<>>) /\ \A d \in 0..OldDepth : Level(<<>>, d) = <<>>
  /\ \A list : Sound(list) =>
       Nodes(list) /\ IsList(list) /\ \A d \in 0..OldDepth : Nodes(Level(list, d))
<1>1. Nodes(<<>>)
  BY EmptyList DEF Nodes
<1>2. \A d \in 0..OldDepth : Level(<<>>, d) = <<>>
  <2> DEFINE S == {d \in 0..OldDepth : Level(<<>>, d) = <<>>}
  <2>1. 0 \in S
    BY LevelLaws, OldNodeAssumption
  <2>2. ASSUME NEW d \in 0..OldDepth, d \in S, d < OldDepth
        PROVE  d + 1 \in S
    <3>1. Level(<<>>, d + 1) = Below(Level(<<>>, d)) /\ d + 1 \in 0..OldDepth
      BY <2>2, LevelLaws, Depths
    <3> QED
      BY <2>2, <3>1, BelowLaws
  <2> HIDE DEF S
  <2>3. 0..OldDepth \subseteq S
    BY <2>1, <2>2, Depths, BoundedInduction
  <2> QED
    BY <2>3 DEF S
<1>3. Sound(<<>>)
  BY <1>1, <1>2, Depths DEF Sound
<1>4. ASSUME NEW list, Sound(list)
      PROVE  Nodes(list) /\ IsList(list) /\ \A d \in 0..OldDepth : Nodes(Level(list, d))
  <2>1. \A d \in 0..OldDepth : Nodes(Level(list, d))
    BY <1>1, <1>4, Depths DEF Sound
  <2>2. Nodes(list)
    <3>1. 0 \in 0..OldDepth /\ Level(list, 0) = list
      BY Depths, LevelLaws
    <3> QED
      BY <2>1, <3>1
  <2> QED
    BY <2>1, <2>2 DEF Nodes
<1> QED
  BY <1>1, <1>2, <1>3, <1>4

\* The levels of two lists of trees, one after the other.
LEMMA LevelConcat ==
  ASSUME NEW s, NEW t, IsList(s), IsList(t), (Sound(s) /\ Sound(t)) \/ Sound(s \o t)
  PROVE  /\ Sound(s) /\ Sound(t) /\ Sound(s \o t)
         /\ \A d \in 0..OldDepth : Level(s \o t, d) = Level(s, d) \o Level(t, d)
<1>1. PICK c : c = s \o t
  OBVIOUS
<1> DEFINE P(d) == /\ IsList(Level(s, d)) /\ IsList(Level(t, d))
                   /\ Level(c, d) = Level(s, d) \o Level(t, d)
           S == {d \in 0..OldDepth : P(d)}
<1>2. ASSUME NEW d \in 0..(OldDepth - 1), P(d)
      PROVE  Nodes(Level(s, d)) /\ Nodes(Level(t, d)) /\ Nodes(Level(c, d))
  <2>1. PICK a : a = Level(s, d)
    OBVIOUS
  <2>2. PICK b : b = Level(t, d)
    OBVIOUS
  <2>3. IsList(a) /\ IsList(b) /\ Level(c, d) = a \o b
    BY <1>2, <2>1, <2>2
  <2>4. Nodes(a \o b) <=> Nodes(a) /\ Nodes(b)
    BY <2>3, NodesConcat
  <2>5. (Nodes(a) /\ Nodes(b)) \/ Nodes(a \o b)
    BY <1>1, <2>1, <2>2, <2>3 DEF Sound
  <2> QED
    BY <2>1, <2>2, <2>3, <2>4, <2>5
<1>3. 0 \in S
  <2>1. Level(s, 0) = s /\ Level(t, 0) = t /\ Level(c, 0) = c
    BY LevelLaws
  <2> QED
    BY <1>1, <2>1, Depths
<1>4. ASSUME NEW d \in 0..OldDepth, d \in S, d < OldDepth
      PROVE  d + 1 \in S
  <2>1. d \in 0..(OldDepth - 1) /\ d + 1 \in 0..OldDepth
    BY <1>4, Depths
  <2>2. Nodes(Level(s, d)) /\ Nodes(Level(t, d)) /\ Level(c, d) = Level(s, d) \o Level(t, d)
    BY <1>2, <1>4, <2>1
  <2>3. PICK a : a = Level(s, d)
    OBVIOUS
  <2>4. PICK b : b = Level(t, d)
    OBVIOUS
  <2>5. Below(a \o b) = Below(a) \o Below(b) /\ IsList(Below(a)) /\ IsList(Below(b))
    BY <2>2, <2>3, <2>4, BelowLaws
  <2>6. \A list : Level(list, d + 1) = Below(Level(list, d))
    BY ONLY <1>4, LevelLaws
  <2>7. /\ Level(s, d + 1) = Below(a) /\ Level(t, d + 1) = Below(b)
        /\ Level(c, d + 1) = Below(a \o b)
    BY <2>2, <2>3, <2>4, <2>6
  <2> QED
    BY <2>1, <2>5, <2>7
<1> HIDE DEF S, P
<1>5. 0..OldDepth \subseteq S
  BY <1>3, <1>4, Depths, BoundedInduction
<1>6. \A d \in 0..OldDepth : P(d)
  BY <1>5 DEF S
<1> USE DEF P
<1>7. \A d \in 0..(OldDepth - 1) :
        Nodes(Level(s, d)) /\ Nodes(Level(t, d)) /\ Nodes(Level(c, d))
  BY <1>2, <1>6, Depths
<1>8. Level(s, OldDepth) = <<>> /\ Level(t, OldDepth) = <<>> /\ Level(c, OldDepth) = <<>>
  <2>1. PICK a : a = Level(s, OldDepth)
    OBVIOUS
  <2>2. PICK b : b = Level(t, OldDepth)
    OBVIOUS
  <2>3. IsList(a) /\ IsList(b) /\ Level(c, OldDepth) = a \o b
    BY <1>6, <2>1, <2>2, Depths
  <2>4. Len(a \o b) = Len(a) + Len(b) /\ IsList(a \o b)
    BY <2>3, ConcatLists
  <2>5. Len(a) \in Nat /\ Len(b) \in Nat
    BY <2>3, ListFacts
  <2>6. (a = <<>> /\ b = <<>>) \/ a \o b = <<>>
    BY <1>1, <2>1, <2>2, <2>3 DEF Sound
  <2>7. Len(a) = 0 /\ Len(b) = 0
    <3>1. CASE a = <<>> /\ b = <<>>
      BY <3>1, EmptyList
    <3>2. CASE a \o b = <<>>
      <4>1. Len(a \o b) = 0
        BY <3>2, EmptyList
      <4> QED
        BY <2>4, <2>5, <4>1
    <3> QED
      BY <2>6, <3>1, <3>2
  <2>8. a = <<>> /\ b = <<>>
    BY <2>3, <2>7, ListFacts
  <2>9. Len(a \o b) = 0
    BY <2>4, <2>7
  <2>10. a \o b = <<>>
    BY <2>4, <2>9, ListFacts
  <2> QED
    BY <2>1, <2>2, <2>3, <2>8, <2>10
<1>9. Sound(s) /\ Sound(t) /\ Sound(c)
  BY <1>7, <1>8 DEF Sound
<1> QED
  BY <1>1, <1>6, <1>9

\* The levels under one node.
LEMMA LevelsUnder ==
  ASSUME NEW x, Sound(<<x>>)
  PROVE  /\ WellFormed(x) /\ Sound(Children(x)) /\ IsList(Children(x))
         /\ \A d \in 0..(OldDepth - 1) : Level(Children(x), d) = Level(<<x>>, d + 1)
<1>1. PICK s : s = <<x>>
  OBVIOUS
<1>2. Sound(s) /\ Nodes(s) /\ s[1] = x /\ 1 \in 1..Len(s)
  BY <1>1, SoundFacts, ShortLists
<1>3. WellFormed(x)
  BY <1>2 DEF Nodes
<1>4. PICK y : y = Children(x)
  OBVIOUS
<1>5. Below(s) = y /\ IsList(y)
  BY <1>1, <1>3, <1>4, BelowLaws
<1> DEFINE P(d) == d < OldDepth => Level(y, d) = Level(s, d + 1)
           S == {d \in 0..OldDepth : P(d)}
<1>6. 0 \in S
  <2>1. Level(y, 0) = y /\ Level(s, 0) = s /\ Level(s, 0 + 1) = Below(Level(s, 0))
    BY LevelLaws, Depths
  <2> QED
    BY <1>5, <2>1, Depths
<1>7. ASSUME NEW d \in 0..OldDepth, d \in S, d < OldDepth
      PROVE  d + 1 \in S
  <2>1. d + 1 \in 0..OldDepth /\ Level(y, d) = Level(s, d + 1)
    BY <1>7, Depths
  <2>2. Level(y, d + 1) = Below(Level(y, d))
    BY <1>7, LevelLaws
  <2>3. PICK e : e = d + 1
    OBVIOUS
  <2>4. e \in 0..OldDepth /\ (e < OldDepth => Level(s, e + 1) = Below(Level(s, e)))
    BY <2>1, <2>3, LevelLaws
  <2> QED
    BY <2>1, <2>2, <2>3, <2>4
<1> HIDE DEF S
<1>8. 0..OldDepth \subseteq S
  BY <1>6, <1>7, Depths, BoundedInduction
<1>9. \A d \in 0..(OldDepth - 1) : Level(y, d) = Level(s, d + 1)
  BY <1>8, Depths DEF S
<1>10. PICK n : n = OldDepth - 1
  OBVIOUS
<1>11. n \in 0..(OldDepth - 1) /\ n \in 0..OldDepth /\ n < OldDepth /\ n + 1 = OldDepth
  BY <1>10, Depths
<1>12. Level(y, OldDepth) = <<>>
  <2>1. Level(y, n + 1) = Below(Level(y, n))
    BY <1>11, LevelLaws
  <2>2. Level(y, n) = <<>>
    BY <1>2, <1>9, <1>11 DEF Sound
  <2> QED
    BY <1>11, <2>1, <2>2, BelowLaws
<1>13. ASSUME NEW d \in 0..(OldDepth - 1)
       PROVE  Nodes(Level(y, d))
  <2>1. d + 1 \in 0..OldDepth
    BY Depths
  <2> QED
    BY <1>2, <1>9, <2>1, SoundFacts
<1> QED
  BY <1>1, <1>3, <1>4, <1>5, <1>9, <1>12, <1>13 DEF Sound
-----------------------------------------------------------------------------
(* How many of the events E the nodes in the trees of a list refer to.      *)

Counts(tbl, list, at, E) ==
  [d \in 1..OldDepth |-> CountOver(EventsOf(tbl, Level(list, d - 1), at), E)]
Total(tbl, list, at, E) == SumTo(Counts(tbl, list, at, E), OldDepth)

\* Two sums at once.
LEMMA SumAdds ==
  ASSUME NEW n \in Nat, NEW f, NEW g, NEW h, Integers(f, n), Integers(g, n),
         \A k \in 1..n : h[k] = f[k] + g[k]
  PROVE  SumTo(h, n) = SumTo(f, n) + SumTo(g, n)
<1> DEFINE S == {m \in 0..n : SumTo(h, m) = SumTo(f, m) + SumTo(g, m)}
<1>1. Integers(h, n)
  BY DEF Integers
<1>2. \A m \in 0..n : Integers(f, m) /\ Integers(g, m) /\ Integers(h, m) /\ m \in Nat
  BY <1>1 DEF Integers
<1>3. 0 \in S
  <2>1. 0 \in 0..n
    OBVIOUS
  <2>2. SumTo(f, 0) = 0
    BY SumLaws
  <2>3. SumTo(g, 0) = 0
    BY SumLaws
  <2>4. SumTo(h, 0) = 0
    BY <1>1, SumLaws
  <2> QED
    BY <2>1, <2>2, <2>3, <2>4
<1>4. ASSUME NEW m \in 0..n, m \in S, m < n
      PROVE  m + 1 \in S
  <2>1. PICK a : a = m + 1
    OBVIOUS
  <2>2. a \in 0..n /\ a \in 1..n /\ a \in Nat /\ a # 0 /\ a - 1 = m
    BY <1>4, <2>1
  <2>3. Integers(f, a) /\ Integers(g, a) /\ Integers(h, a)
    BY <1>2, <2>2
  <2>4. SumTo(f, a) = SumTo(f, a - 1) + f[a]
    BY ONLY <2>2, <2>3, SumLaws
  <2>5. SumTo(g, a) = SumTo(g, a - 1) + g[a]
    BY ONLY <2>2, <2>3, SumLaws
  <2>6. SumTo(h, a) = SumTo(h, a - 1) + h[a]
    BY ONLY <2>2, <2>3, SumLaws
  <2>7. SumTo(f, m) \in Int
    BY <1>2, SumLaws
  <2>8. SumTo(g, m) \in Int
    BY <1>2, SumLaws
  <2>9. f[a] \in Int /\ g[a] \in Int /\ h[a] = f[a] + g[a]
    BY <2>2 DEF Integers
  <2>10. SumTo(h, m) = SumTo(f, m) + SumTo(g, m)
    BY <1>4
  <2>11. SumTo(h, a) = SumTo(f, a) + SumTo(g, a)
    BY ONLY <2>2, <2>4, <2>5, <2>6, <2>7, <2>8, <2>9, <2>10
  <2> QED
    BY <2>1, <2>2, <2>11
<1> HIDE DEF S
<1>5. 0..n \subseteq S
  BY <1>3, <1>4, BoundedInduction
<1>6. n \in S
  BY <1>5
<1> QED
  BY <1>6 DEF S

\* The counts of sound trees are numbers.
LEMMA CountsTyped ==
  ASSUME NEW list, Sound(list), NEW tbl, NEW at, NEW E
  PROVE  /\ Integers(Counts(tbl, list, at, E), OldDepth) /\ Total(tbl, list, at, E) \in Int
         /\ \A d \in 1..OldDepth :
              /\ d - 1 \in 0..(OldDepth - 1)
              /\ Counts(tbl, list, at, E)[d] = CountOver(EventsOf(tbl, Level(list, d - 1), at), E)
<1> DEFINE f == Counts(tbl, list, at, E)
<1>1. \A d \in 1..OldDepth :
        d - 1 \in 0..(OldDepth - 1) /\ f[d] = CountOver(EventsOf(tbl, Level(list, d - 1), at), E)
  BY Depths DEF Counts
<1> HIDE DEF f
<1>2. ASSUME NEW d \in 1..OldDepth
      PROVE  f[d] \in Int
  <2>1. PICK l : l = Level(list, d - 1)
    OBVIOUS
  <2>2. Nodes(l)
    BY <1>1, <2>1, SoundFacts, Depths
  <2>3. IsList(EventsOf(tbl, l, at))
    BY <2>2, EventsLaws
  <2>4. CountOver(EventsOf(tbl, l, at), E) \in Int
    BY <2>3, CountLaws
  <2> QED
    BY <1>1, <2>1, <2>4
<1>3. Integers(f, OldDepth) /\ OldDepth \in Nat
  BY <1>2, Depths DEF Integers
<1>4. SumTo(f, OldDepth) \in Int
  BY <1>3, SumLaws
<1> QED
  BY <1>1, <1>3, <1>4 DEF Total, f

\* Nothing is referred to by no node, and two lists add up.
LEMMA TotalConcat ==
  ASSUME NEW tbl, NEW at, NEW E
  PROVE  /\ Total(tbl, <<>>, at, E) = 0
         /\ \A s, t : Sound(s) /\ Sound(t) =>
              Sound(s \o t) /\ Total(tbl, s \o t, at, E) = Total(tbl, s, at, E) + Total(tbl, t, at, E)
<1>1. Total(tbl, <<>>, at, E) = 0
  <2>1. PICK f : f = Counts(tbl, <<>>, at, E)
    OBVIOUS
  <2>2. CountOver(<<>>, E) = 0
    BY EmptyList, CountLaws
  <2>3. EventsOf(tbl, <<>>, at) = <<>>
    BY EventsLaws
  <2>4. \A d \in 1..OldDepth : f[d] = 0
    <3> SUFFICES ASSUME NEW d \in 1..OldDepth
                 PROVE  f[d] = 0
      OBVIOUS
    <3>1. d - 1 \in 0..OldDepth
      BY Depths
    <3>2. Level(<<>>, d - 1) = <<>>
      BY <3>1, SoundFacts
    <3> QED
      BY <2>1, <2>2, <2>3, <3>2 DEF Counts
  <2>5. SumTo(f, OldDepth) = OldDepth * 0
    BY <2>4, Depths, SumConstant
  <2> QED
    BY <2>1, <2>5, Depths DEF Total
<1>2. ASSUME NEW s, NEW t, Sound(s), Sound(t)
      PROVE  /\ Sound(s \o t)
             /\ Total(tbl, s \o t, at, E) = Total(tbl, s, at, E) + Total(tbl, t, at, E)
  <2>1. PICK c : c = s \o t
    OBVIOUS
  <2>2. IsList(s) /\ IsList(t)
    BY <1>2, SoundFacts
  <2>3. Sound(c) /\ \A d \in 0..OldDepth : Level(c, d) = Level(s, d) \o Level(t, d)
    BY <1>2, <2>1, <2>2, LevelConcat
  <2>4. PICK f : f = Counts(tbl, s, at, E)
    OBVIOUS
  <2>5. PICK g : g = Counts(tbl, t, at, E)
    OBVIOUS
  <2>6. PICK h : h = Counts(tbl, c, at, E)
    OBVIOUS
  <2>7. /\ Integers(f, OldDepth)
        /\ \A d \in 1..OldDepth : d - 1 \in 0..(OldDepth - 1)
                                  /\ f[d] = CountOver(EventsOf(tbl, Level(s, d - 1), at), E)
    BY <1>2, <2>4, CountsTyped
  <2>8. /\ Integers(g, OldDepth)
        /\ \A d \in 1..OldDepth : g[d] = CountOver(EventsOf(tbl, Level(t, d - 1), at), E)
    BY <1>2, <2>5, CountsTyped
  <2>9. \A d \in 1..OldDepth : h[d] = CountOver(EventsOf(tbl, Level(c, d - 1), at), E)
    BY <2>3, <2>6, CountsTyped
  <2>10. \A d \in 1..OldDepth : h[d] = f[d] + g[d]
    <3> SUFFICES ASSUME NEW d \in 1..OldDepth
                 PROVE  h[d] = f[d] + g[d]
      OBVIOUS
    <3>1. PICK a : a = Level(s, d - 1)
      OBVIOUS
    <3>2. PICK b : b = Level(t, d - 1)
      OBVIOUS
    <3>3. d - 1 \in 0..OldDepth
      BY <2>7, Depths
    <3>4. Nodes(a) /\ Nodes(b) /\ Level(c, d - 1) = a \o b
      BY <1>2, <2>3, <3>1, <3>2, <3>3, SoundFacts
    <3>5. PICK x : x = EventsOf(tbl, a, at)
      OBVIOUS
    <3>6. PICK y : y = EventsOf(tbl, b, at)
      OBVIOUS
    <3>7. IsList(x) /\ IsList(y) /\ EventsOf(tbl, a \o b, at) = x \o y
      <4>1. /\ EventsOf(tbl, a \o b, at) = EventsOf(tbl, a, at) \o EventsOf(tbl, b, at)
            /\ IsList(EventsOf(tbl, a, at)) /\ IsList(EventsOf(tbl, b, at))
        BY ONLY <3>4, EventsLaws
      <4> QED
        BY <3>5, <3>6, <4>1
    <3>8. CountOver(x \o y, E) = CountOver(x, E) + CountOver(y, E)
      BY <3>7, CountLaws
    <3> QED
      BY <2>7, <2>8, <2>9, <3>1, <3>2, <3>4, <3>5, <3>6, <3>7, <3>8
  <2>11. SumTo(h, OldDepth) = SumTo(f, OldDepth) + SumTo(g, OldDepth)
    BY <2>7, <2>8, <2>10, Depths, SumAdds
  <2> QED
    BY <2>1, <2>3, <2>4, <2>5, <2>6, <2>11 DEF Total
<1> QED
  BY <1>1, <1>2

\* A tree refers to what its root refers to, and to what the trees below it do.
LEMMA TotalUnder ==
  ASSUME NEW x, Sound(<<x>>), NEW tbl, NEW at, NEW E
  PROVE  Total(tbl, <<x>>, at, E) =
           CountOver(OwnEvents(tbl, x, at), E) + Total(tbl, Children(x), at, E)
<1>1. PICK s : s = <<x>>
  OBVIOUS
<1>2. PICK y : y = Children(x)
  OBVIOUS
<1>3. /\ WellFormed(x) /\ Sound(y) /\ Sound(s)
      /\ \A d \in 0..(OldDepth - 1) : Level(y, d) = Level(s, d + 1)
  BY <1>1, <1>2, LevelsUnder
<1>4. PICK f : f = Counts(tbl, s, at, E)
  OBVIOUS
<1>5. PICK g : g = Counts(tbl, y, at, E)
  OBVIOUS
<1>6. PICK own : own = CountOver(OwnEvents(tbl, x, at), E)
  OBVIOUS
<1>7. /\ Integers(f, OldDepth)
      /\ \A d \in 1..OldDepth : d - 1 \in 0..(OldDepth - 1)
                                /\ f[d] = CountOver(EventsOf(tbl, Level(s, d - 1), at), E)
  BY <1>3, <1>4, CountsTyped
<1>8. /\ Integers(g, OldDepth)
      /\ \A d \in 1..OldDepth : g[d] = CountOver(EventsOf(tbl, Level(y, d - 1), at), E)
  BY <1>3, <1>5, CountsTyped
<1>9. PICK n : n = OldDepth
  OBVIOUS
<1>10. n \in Nat /\ n # 0 /\ 1 + n \in Nat /\ 1 + n # 0 /\ (1 + n) - 1 = n /\ 1 \in Nat
  BY <1>9, Depths
<1>11. PICK h : h = [d \in 1..(1 + n) |-> IF d = 1 + n THEN 0 ELSE f[d]]
  OBVIOUS
<1>12. f[1] = own /\ own \in Int
  <2>1. 1 \in 1..OldDepth /\ 1 - 1 = 0
    BY Depths
  <2>2. Level(s, 0) = s
    BY LevelLaws
  <2>3. EventsOf(tbl, s, at) = OwnEvents(tbl, x, at)
    BY <1>1, <1>3, EventsLaws
  <2>4. f[1] = own
    BY <1>6, <1>7, <2>1, <2>2, <2>3
  <2> QED
    BY <1>7, <2>1, <2>4 DEF Integers
<1>13. \A k \in 1..n : g[k] = h[1 + k]
  <2> SUFFICES ASSUME NEW k \in 1..n
               PROVE  g[k] = h[1 + k]
    OBVIOUS
  <2>1. k - 1 \in 0..(OldDepth - 1) /\ (k - 1) + 1 = k /\ (1 + k) - 1 = k /\ k \in 1..OldDepth
    BY <1>9, Depths
  <2>2. g[k] = CountOver(EventsOf(tbl, Level(s, k), at), E)
    BY <1>3, <1>8, <2>1
  <2>3. CASE k < n
    <3>1. 1 + k \in 1..OldDepth /\ 1 + k # 1 + n /\ 1 + k \in 1..(1 + n)
      BY <1>9, <1>10, <2>3
    <3>2. h[1 + k] = f[1 + k]
      BY <1>11, <3>1
    <3>3. f[1 + k] = CountOver(EventsOf(tbl, Level(s, (1 + k) - 1), at), E)
      BY <1>7, <3>1
    <3> QED
      BY <2>1, <2>2, <3>2, <3>3
  <2>4. CASE ~(k < n)
    <3>1. k = OldDepth /\ 1 + k = 1 + n /\ 1 + k \in 1..(1 + n)
      BY <1>9, <1>10, <2>4
    <3>2. Level(s, k) = <<>>
      BY <1>3, <3>1 DEF Sound
    <3>3. EventsOf(tbl, <<>>, at) = <<>>
      BY EventsLaws
    <3>4. CountOver(<<>>, E) = 0
      BY EmptyList, CountLaws
    <3> QED
      BY <1>11, <2>2, <3>1, <3>2, <3>3, <3>4
  <2> QED
    BY <2>3, <2>4
<1>14. /\ Integers(h, 1 + n) /\ Integers(h, n) /\ h[1 + n] = 0
       /\ \A k \in 1..n : f[k] = h[k]
       /\ \A k \in 1..1 : f[k] = h[k]
  BY <1>7, <1>9, <1>10, <1>11 DEF Integers
<1>15. SumTo(h, 1 + n) = SumTo(f, 1) + SumTo(g, n)
  BY <1>10, <1>13, <1>14, SumSplits
<1>16. SumTo(h, 1 + n) = SumTo(h, n) + 0
  <2>1. PICK m : m = 1 + n
    OBVIOUS
  <2>2. m \in Nat /\ m # 0 /\ m - 1 = n /\ Integers(h, m) /\ h[m] = 0
    BY <1>10, <1>14, <2>1
  <2>3. SumTo(h, m) = SumTo(h, m - 1) + h[m]
    BY <2>2, SumLaws
  <2> QED
    BY <2>1, <2>2, <2>3
<1>17. Integers(f, n)
  BY <1>7, <1>9
<1>18. SumTo(f, n) = SumTo(h, n)
  BY <1>10, <1>14, <1>17, SumSame
<1>19. SumTo(f, 1) = own
  <2>1. Integers(f, 1) /\ 1 \in Nat /\ 1 # 0 /\ 1 - 1 = 0
    BY <1>12 DEF Integers
  <2>2. SumTo(f, 1) = SumTo(f, 1 - 1) + f[1]
    BY <2>1, SumLaws
  <2>3. SumTo(f, 0) = 0
    BY <2>1, SumLaws
  <2> QED
    BY <1>12, <2>1, <2>2, <2>3
<1>20. SumTo(f, n) \in Int
  BY <1>10, <1>17, SumLaws
<1>21. SumTo(f, n) = own + SumTo(g, n)
  BY <1>15, <1>16, <1>18, <1>19, <1>20
<1> QED
  BY <1>1, <1>2, <1>4, <1>5, <1>6, <1>9, <1>21 DEF Total

\* The events of all the nodes of a tree, counted.
LEMMA TotalOfTree ==
  ASSUME NEW x, Sound(<<x>>), NEW tbl, NEW at
  PROVE  /\ IsList(EventsOf(tbl, AllNodes(x), at)) /\ Nodes(AllNodes(x))
         /\ \A E : CountOver(EventsOf(tbl, AllNodes(x), at), E) = Total(tbl, <<x>>, at, E)
<1>1. PICK s : s = <<x>> /\ Sound(s)
  OBVIOUS
<1>2. PICK n : n = OldDepth
  OBVIOUS
<1>3. PICK L : L = [d \in 1..n |-> Level(s, d - 1)]
  OBVIOUS
<1>4. n \in Nat /\ \A d \in 1..n : L[d] = Level(s, d - 1) /\ d - 1 \in 0..OldDepth
  BY <1>2, <1>3, Depths
<1>5. L = [d \in 1..n |-> L[d]]
  BY <1>3
<1>6. IsList(L) /\ Len(L) = n
  BY <1>4, <1>5, ListOfFunction
<1>7. \A d \in 1..n : Nodes(L[d])
  BY <1>1, <1>4, SoundFacts
<1>8. IsListOfLists(L)
  BY <1>6, <1>7 DEF IsListOfLists, Nodes
<1> DEFINE F(m) == FlattenSeq(First(L, m))
           P(m) == /\ Nodes(F(m))
                   /\ \A E : CountOver(EventsOf(tbl, F(m), at), E) =
                               SumTo(Counts(tbl, s, at, E), m)
           S == {m \in 0..n : P(m)}
<1>9. /\ L = First(L, n) /\ F(0) = <<>>
      /\ \A m \in 0..n : m < n => F(m + 1) = F(m) \o L[m + 1]
  BY <1>6, <1>8, FirstLists
<1> HIDE DEF F
<1>10. 0 \in S
  <2>1. Nodes(F(0)) /\ 0 \in 0..n
    BY <1>4, <1>9, SoundFacts
  <2>2. EventsOf(tbl, F(0), at) = <<>>
    BY <1>9, EventsLaws
  <2>3. ASSUME NEW E
        PROVE  CountOver(<<>>, E) = SumTo(Counts(tbl, s, at, E), 0)
    <3>1. Integers(Counts(tbl, s, at, E), OldDepth)
      BY <1>1, CountsTyped
    <3>2. SumTo(Counts(tbl, s, at, E), 0) = 0
      BY <3>1, Depths, SumLaws
    <3>3. CountOver(<<>>, E) = 0
      BY EmptyList, CountLaws
    <3> QED
      BY <3>2, <3>3
  <2> QED
    BY <2>1, <2>2, <2>3
<1>11. ASSUME NEW m \in 0..n, m \in S, m < n
       PROVE  m + 1 \in S
  <2>1. PICK a : a = m + 1
    OBVIOUS
  <2>2. a \in 0..n /\ a \in 1..n /\ a \in Nat /\ a # 0 /\ a - 1 = m
    BY <1>4, <1>11, <2>1
  <2>3. P(m)
    BY <1>11
  <2>4. PICK b : b = F(m)
    OBVIOUS
  <2>5. PICK l : l = L[a]
    OBVIOUS
  <2>6. F(a) = b \o l /\ Nodes(b) /\ Nodes(l)
    BY <1>7, <1>9, <1>11, <2>1, <2>2, <2>3, <2>4, <2>5
  <2>7. Nodes(b \o l)
    <3>1. IsList(b) /\ IsList(l)
      BY <2>6 DEF Nodes
    <3> QED
      BY <2>6, <3>1, NodesConcat
  <2>8. PICK u : u = EventsOf(tbl, b, at)
    OBVIOUS
  <2>9. PICK v : v = EventsOf(tbl, l, at)
    OBVIOUS
  <2>10. EventsOf(tbl, b \o l, at) = u \o v /\ IsList(u) /\ IsList(v)
    <3>1. /\ EventsOf(tbl, b \o l, at) = EventsOf(tbl, b, at) \o EventsOf(tbl, l, at)
          /\ IsList(EventsOf(tbl, b, at)) /\ IsList(EventsOf(tbl, l, at))
      BY ONLY <2>6, EventsLaws
    <3> QED
      BY <2>8, <2>9, <3>1
  <2>11. ASSUME NEW E
         PROVE  CountOver(EventsOf(tbl, F(a), at), E) = SumTo(Counts(tbl, s, at, E), a)
    <3>1. PICK f : f = Counts(tbl, s, at, E)
      OBVIOUS
    <3>2. CountOver(u \o v, E) = CountOver(u, E) + CountOver(v, E)
      BY <2>10, CountLaws
    <3>3. CountOver(u, E) = SumTo(f, m)
      BY <2>3, <2>4, <2>8, <3>1
    <3>4. /\ Integers(f, OldDepth)
          /\ \A d \in 1..OldDepth : f[d] = CountOver(EventsOf(tbl, Level(s, d - 1), at), E)
      BY <1>1, <3>1, CountsTyped
    <3>5. f[a] = CountOver(v, E)
      BY <1>2, <1>4, <2>2, <2>5, <2>9, <3>4
    <3>6. Integers(f, a)
      <4>1. \A k \in 1..a : k \in 1..OldDepth
        BY <1>2, <1>4, <2>2
      <4> QED
        BY <3>4, <4>1 DEF Integers
    <3>7. SumTo(f, a) = SumTo(f, a - 1) + f[a]
      BY <2>2, <3>6, SumLaws
    <3> QED
      BY <2>2, <2>6, <2>10, <3>1, <3>2, <3>3, <3>5, <3>7
  <2>12. P(a)
    BY <2>6, <2>7, <2>11
  <2> QED
    BY <2>1, <2>2, <2>12
<1> HIDE DEF S, P
<1>12. 0..n \subseteq S
  BY <1>4, <1>10, <1>11, BoundedInduction
<1>13. n \in S
  BY <1>4, <1>12
<1> USE DEF P
<1>14. P(n)
  BY <1>13 DEF S
<1>15. AllNodes(x) = F(n)
  BY <1>1, <1>2, <1>3, <1>9 DEF AllNodes, F
<1>16. /\ Nodes(AllNodes(x))
       /\ \A E : CountOver(EventsOf(tbl, AllNodes(x), at), E) = Total(tbl, s, at, E)
  BY <1>2, <1>14, <1>15 DEF Total
<1>17. IsList(EventsOf(tbl, AllNodes(x), at))
  BY <1>16, EventsLaws
<1> QED
  BY <1>1, <1>16, <1>17
-----------------------------------------------------------------------------
(* What decompress() is called on, and its steps.                           *)

\* decompress() leaves the compressor alone, so the system is a compressor.
THEOREM SystemIsCompressor == SystemSpec => Spec
<1>1. SystemInit => Init
  BY DEF SystemInit
<1>2. [SystemNext]_systemVars => [Next]_vars
  <2> SUFFICES ASSUME [SystemNext]_systemVars
               PROVE  [Next]_vars
    OBVIOUS
  <2>1. CASE Next
    BY <2>1
  <2>2. CASE UNCHANGED systemVars
    BY <2>2 DEF systemVars
  <2>3. CASE DecompressStep
    <3>1. ASSUME NEW k, NEW kind, NEW refs, NEW nested, Visit(k, kind, refs, nested)
          PROVE  UNCHANGED vars
      BY <3>1 DEF Visit
    <3>2. CASE ReadArtifact
      BY <3>2 DEF ReadArtifact
    <3>3. CASE NextStream
      BY <3>3 DEF NextStream
    <3>4. CASE DecompressReturns
      BY <3>4 DEF DecompressReturns
    <3>5. CASE \/ VisitRoot \/ VisitCpu \/ VisitCpuBatch \/ VisitSameCpu
               \/ VisitGpu \/ VisitKernelLaunch \/ VisitKernelsLaunch
      BY <3>1, <3>5 DEF VisitRoot, VisitCpu, VisitCpuBatch, VisitSameCpu, VisitGpu,
                        VisitKernelLaunch, VisitKernelsLaunch
    <3> QED
      BY <2>3, <3>2, <3>3, <3>4, <3>5 DEF DecompressStep
  <2> QED
    BY <2>1, <2>2, <2>3 DEF SystemNext
<1> QED
  BY <1>1, <1>2, PTL DEF SystemSpec, Spec

\* compress() has returned, and its tables hold every event.
Done == phase = "done" /\ IInv /\ AllRead

\* The streams of what was published.
LEMMA DoneStreams ==
  ASSUME Done
  PROVE  /\ IsList(trace) /\ Len(trace) \in Nat /\ DOMAIN trace = 1..Len(trace)
         /\ Table = table /\ DOMAIN ranks = DOMAIN trace
         /\ \A i \in 1..Len(trace) :
              /\ trace[i].events \in Seq(Event) /\ ranks[i] \in Seq(Reference)
              /\ Len(ranks[i]) = Len(trace[i].events)
<1>1. Table = table /\ Shape
  BY DEF Done, Table, IInv
<1>2. trace \in Seq(Stream)
  <2>1. trace \in Traces \cup {<<>>} /\ <<>> \in Seq(Stream)
    BY <1>1 DEF Shape
  <2> QED
    BY <2>1, TraceAssumption
<1>3. IsList(trace) /\ Len(trace) \in Nat /\ DOMAIN trace = 1..Len(trace)
  BY <1>2 DEF IsList
<1>4. ASSUME NEW i \in 1..Len(trace)
      PROVE  /\ trace[i].events \in Seq(Event) /\ ranks[i] \in Seq(Reference)
             /\ Len(ranks[i]) = Len(trace[i].events)
  <2>1. i \in DOMAIN trace
    BY <1>3
  <2> QED
    BY <1>1, <2>1, StreamFacts DEF Done, AllRead, StreamDone
<1> QED
  BY <1>1, <1>3, <1>4 DEF Shape

\* A batch holds the references of its stream.
LEMMA BatchRefs ==
  ASSUME Done, NEW i \in 1..Len(trace)
  PROVE  /\ WellFormed(Batch(i)) /\ Children(Batch(i)) = <<>>
         /\ CpuRefs(Batch(i)) = IF IsGpu(i) THEN <<>> ELSE ranks[i]
         /\ GpuRefs(Batch(i)) = IF IsGpu(i) THEN ranks[i] ELSE <<>>
<1>1. PICK r : r = ranks[i]
  OBVIOUS
<1>2. r \in Seq(Reference)
  BY <1>1, DoneStreams
<1>3. Len(r) \in Nat /\ DOMAIN r = 1..Len(r) /\ \A p \in 1..Len(r) : r[p] \in Reference
  BY <1>2
<1>4. PICK ts : ts = [p \in 1..Len(r) |-> r[p].template]
  OBVIOUS
<1>5. PICK is : is = [p \in 1..Len(r) |-> r[p].instance]
  OBVIOUS
<1>6. ts = [p \in 1..Len(r) |-> ts[p]] /\ is = [p \in 1..Len(r) |-> is[p]]
  BY <1>4, <1>5
<1>7. IsList(ts) /\ Len(ts) = Len(r)
  BY <1>3, <1>6, ListOfFunction
<1>8. IsList(is) /\ Len(is) = Len(r)
  BY <1>3, <1>6, ListOfFunction
<1>9. Paired(ts, is) = r
  <2>1. Paired(ts, is) = [p \in 1..Len(r) |-> Ref(ts[p], is[p])]
    BY <1>7, <1>8 DEF Paired
  <2>2. \A p \in 1..Len(r) : Ref(ts[p], is[p]) = r[p]
    BY <1>3, <1>4, <1>5 DEF Ref, Reference
  <2>3. r = [p \in 1..Len(r) |-> r[p]]
    BY <1>2
  <2> QED
    BY <2>1, <2>2, <2>3
<1>10. PICK b : b = Batch(i)
  OBVIOUS
<1>11. b.templates = ts /\ b.instances = is /\ b.k = IF IsGpu(i) THEN "gpu" ELSE "cpu_batch"
  BY <1>1, <1>3, <1>4, <1>5, <1>10 DEF Batch
<1>12. WellFormed(b)
  BY <1>7, <1>8, <1>11 DEF WellFormed
<1>13. Children(b) = <<>>
  BY <1>11 DEF Children
<1>14. CpuRefs(b) = IF IsGpu(i) THEN <<>> ELSE r
  BY <1>9, <1>11 DEF CpuRefs
<1>15. GpuRefs(b) = IF IsGpu(i) THEN r ELSE <<>>
  BY <1>9, <1>11 DEF GpuRefs
<1> QED
  BY <1>1, <1>10, <1>12, <1>13, <1>14, <1>15

\* So the events of a batch are those of the stream, in their order.
LEMMA BatchEvents ==
  ASSUME Done, NEW i \in 1..Len(trace)
  PROVE  OwnEvents(table, Batch(i), trace[i].at) = Placed(i) /\ IsList(Placed(i))
<1>1. PICK r : r = ranks[i]
  OBVIOUS
<1>2. PICK at : at = trace[i].at
  OBVIOUS
<1>3. PICK events : events = trace[i].events
  OBVIOUS
<1>4. PICK s : s = Placed(i)
  OBVIOUS
<1>5. PICK kind : kind = KindOf(i)
  OBVIOUS
<1>6. r \in Seq(Reference) /\ events \in Seq(Event) /\ Len(r) = Len(events) /\ i \in DOMAIN trace
  BY <1>1, <1>3, DoneStreams
<1>7. /\ Len(events) \in Nat /\ DOMAIN events = 1..Len(events) /\ DOMAIN r = 1..Len(events)
      /\ IsList(r)
  BY <1>6 DEF IsList
<1>8. s = [k \in 1..Len(events) |-> [at |-> at, event |-> events[k]]]
  BY <1>2, <1>3, <1>4, <1>7 DEF Placed
<1>9. IsList(s) /\ Len(s) = Len(events)
  <2>1. s = [k \in 1..Len(events) |-> s[k]]
    BY <1>8
  <2> QED
    BY <1>7, <2>1, ListOfFunction
<1>10. PICK L : L = [p \in DOMAIN r |-> Emit(table, kind, at, r[p])]
  OBVIOUS
<1>11. ASSUME NEW p \in 1..Len(events)
       PROVE  Emit(table, kind, at, r[p]) = <<s[p]>>
  <2>1. Decoded(i, p) = [at |-> at, event |-> events[p]]
    BY <1>1, <1>2, <1>3, <1>6, ReadBack DEF Done, Lossless
  <2>2. Refers(Table, i, p) /\ Table = table
    BY <1>1, <1>6, DoneStreams DEF Done, IInv, RefInv
  <2>3. Resolves(table, kind, r[p])
    BY <1>1, <1>5, <2>2 DEF Refers, Resolves
  <2>4. Decoded(i, p) =
          IF kind = "cpu" THEN EmitCpu(table, at, r[p]) ELSE EmitGpu(table, at, r[p])
    BY <1>1, <1>2, <1>5, <2>2 DEF Decoded, KindOf
  <2>5. s[p] = Decoded(i, p)
    BY <1>8, <2>1
  <2> QED
    BY <2>3, <2>4, <2>5 DEF Emit
<1>12. L = [p \in 1..Len(s) |-> <<s[p]>>]
  BY <1>7, <1>9, <1>10, <1>11
<1>13. FlattenSeq(L) = s
  BY <1>9, <1>12, FlattenSingles
<1>14. EmitAll(table, kind, at, r) = s
  BY <1>10, <1>13 DEF EmitAll
<1>15. PICK b : b = Batch(i)
  OBVIOUS
<1>16. /\ CpuRefs(b) = IF kind = "gpu" THEN <<>> ELSE r
       /\ GpuRefs(b) = IF kind = "gpu" THEN r ELSE <<>>
       /\ kind \in {"cpu", "gpu"}
  BY <1>1, <1>5, <1>15, BatchRefs DEF KindOf
<1>17. EmitAll(table, "cpu", at, <<>>) = <<>> /\ EmitAll(table, "gpu", at, <<>>) = <<>>
  BY EmitLists
<1>18. s \o <<>> = s /\ <<>> \o s = s
  BY <1>9, ConcatLaws
<1>19. OwnEvents(table, b, at) = s
  <2>1. CASE kind = "cpu"
    BY <1>14, <1>16, <1>17, <1>18, <2>1 DEF OwnEvents
  <2>2. CASE kind = "gpu"
    BY <1>14, <1>16, <1>17, <1>18, <2>2 DEF OwnEvents
  <2> QED
    BY <1>16, <2>1, <2>2
<1> QED
  BY <1>2, <1>4, <1>9, <1>15, <1>19

\* The events of references that others include are among those of the others.
LEMMA EmitIncludes ==
  ASSUME NEW tbl, NEW kind, NEW at, NEW refs, NEW others, IsList(refs), IsList(others),
         ToSet(refs) \subseteq ToSet(others)
  PROVE  ToSet(EmitAll(tbl, kind, at, refs)) \subseteq ToSet(EmitAll(tbl, kind, at, others))
<1>1. ASSUME NEW r, IsList(r)
      PROVE  /\ IsList(EmitAll(tbl, kind, at, r))
             /\ \A p \in 1..Len(EmitAll(tbl, kind, at, r)) : \E i \in 1..Len(r) :
                  \E k \in 1..Len(Emit(tbl, kind, at, r[i])) :
                    EmitAll(tbl, kind, at, r)[p] = Emit(tbl, kind, at, r[i])[k]
             /\ \A i \in 1..Len(r) : \A k \in 1..Len(Emit(tbl, kind, at, r[i])) :
                  \E p \in 1..Len(EmitAll(tbl, kind, at, r)) :
                    EmitAll(tbl, kind, at, r)[p] = Emit(tbl, kind, at, r[i])[k]
  <2>1. PICK A : A = [p \in DOMAIN r |-> Emit(tbl, kind, at, r[p])]
    OBVIOUS
  <2>2. /\ A = [p \in 1..Len(r) |-> A[p]] /\ Len(r) \in Nat
        /\ \A p \in 1..Len(r) : A[p] = Emit(tbl, kind, at, r[p])
    BY <1>1, <2>1, ListFacts
  <2>3. \A ref : IsList(Emit(tbl, kind, at, ref))
    BY ShortLists DEF Emit
  <2>4. IsListOfLists(A) /\ Len(A) = Len(r)
    BY <2>2, <2>3, ListOfFunction DEF IsListOfLists
  <2>5. EmitAll(tbl, kind, at, r) = FlattenSeq(A)
    BY <2>1 DEF EmitAll
  <2>6. /\ IsList(FlattenSeq(A))
        /\ \A p \in 1..Len(FlattenSeq(A)) : \E i \in 1..Len(A) : \E k \in 1..Len(A[i]) :
             FlattenSeq(A)[p] = A[i][k]
        /\ \A i \in 1..Len(A) : \A k \in 1..Len(A[i]) : \E p \in 1..Len(FlattenSeq(A)) :
             FlattenSeq(A)[p] = A[i][k]
    BY <2>4, FlattenElements
  <2>7. PICK flat : flat = EmitAll(tbl, kind, at, r)
    OBVIOUS
  <2>8. /\ IsList(flat)
        /\ \A p \in 1..Len(flat) : \E i \in 1..Len(A) : \E k \in 1..Len(A[i]) : flat[p] = A[i][k]
        /\ \A i \in 1..Len(A) : \A k \in 1..Len(A[i]) : \E p \in 1..Len(flat) : flat[p] = A[i][k]
    BY <2>5, <2>6, <2>7
  <2>9. \A p \in 1..Len(flat) : \E i \in 1..Len(r) :
          \E k \in 1..Len(Emit(tbl, kind, at, r[i])) : flat[p] = Emit(tbl, kind, at, r[i])[k]
    <3> TAKE p \in 1..Len(flat)
    <3>1. PICK i \in 1..Len(A) : \E k \in 1..Len(A[i]) : flat[p] = A[i][k]
      BY <2>8
    <3>2. i \in 1..Len(r) /\ A[i] = Emit(tbl, kind, at, r[i])
      BY <2>2, <2>4, <3>1
    <3> QED
      BY <3>1, <3>2
  <2>10. \A i \in 1..Len(r) : \A k \in 1..Len(Emit(tbl, kind, at, r[i])) :
           \E p \in 1..Len(flat) : flat[p] = Emit(tbl, kind, at, r[i])[k]
    <3> TAKE i \in 1..Len(r)
    <3>1. i \in 1..Len(A) /\ A[i] = Emit(tbl, kind, at, r[i])
      BY <2>2, <2>4
    <3>2. \A k \in 1..Len(A[i]) : \E p \in 1..Len(flat) : flat[p] = A[i][k]
      BY <2>8, <3>1
    <3> QED
      BY ONLY <3>1, <3>2
  <2> QED
    BY ONLY <2>7, <2>8, <2>9, <2>10
<1>2. PICK a : a = EmitAll(tbl, kind, at, refs)
  OBVIOUS
<1>3. PICK b : b = EmitAll(tbl, kind, at, others)
  OBVIOUS
<1>4. /\ DOMAIN a = 1..Len(a) /\ DOMAIN b = 1..Len(b)
      /\ DOMAIN refs = 1..Len(refs) /\ DOMAIN others = 1..Len(others)
  BY <1>1, <1>2, <1>3, ListFacts
<1>5. ASSUME NEW p \in 1..Len(a)
      PROVE  \E q \in 1..Len(b) : b[q] = a[p]
  <2>1. PICK i \in 1..Len(refs) : \E k \in 1..Len(Emit(tbl, kind, at, refs[i])) :
          a[p] = Emit(tbl, kind, at, refs[i])[k]
    BY <1>1, <1>2, <1>5
  <2>2. PICK j \in 1..Len(others) : others[j] = refs[i]
    BY <1>4 DEF ToSet
  <2>3. \A k \in 1..Len(Emit(tbl, kind, at, others[j])) :
          \E q \in 1..Len(b) : b[q] = Emit(tbl, kind, at, others[j])[k]
    BY <1>1, <1>3
  <2> QED
    BY <2>1, <2>2, <2>3
<1>6. ToSet(a) \subseteq ToSet(b)
  BY <1>4, <1>5 DEF ToSet
<1> QED
  BY <1>2, <1>3, <1>6

\* The launches of an enclosed launch node are events of the stream.
LEMMA EnclosedLaunches ==
  ASSUME NEW x, Sound(<<x>>), NEW at, NEW node \in ToSet(AllNodes(x)), Enclosed(node, AllNodes(x))
  PROVE  ToSet(EmitAll(table, "cpu", at, LaunchRefs(node))) \subseteq
           ToSet(EventsOf(table, AllNodes(x), at))
<1>1. PICK list : list = AllNodes(x)
  OBVIOUS
<1>2. Nodes(list) /\ IsList(list) /\ DOMAIN list = 1..Len(list) /\ Len(list) \in Nat
  BY <1>1, TotalOfTree, ListFacts DEF Nodes
<1>3. PICK p \in 1..Len(list) : ToSet(LaunchRefs(node)) \subseteq ToSet(CpuRefs(list[p]))
  BY <1>1, <1>2 DEF Enclosed
<1>4. PICK y : y = list[p]
  OBVIOUS
<1>5. WellFormed(y) /\ WellFormed(node)
  BY <1>1, <1>2, <1>4 DEF Nodes, ToSet
<1>6. IsList(LaunchRefs(node))
  <2>1. CASE node.k = "kernel_launch"
    BY <2>1, ShortLists DEF LaunchRefs
  <2>2. CASE node.k = "kernels_launch"
    <3>1. IsList(node.cpu_instances)
      BY <1>5, <2>2 DEF WellFormed
    <3>2. Len(node.cpu_instances) \in Nat /\ DOMAIN node.cpu_instances = 1..Len(node.cpu_instances)
      BY <3>1, ListFacts
    <3>3. PICK f : f = LaunchRefs(node)
      OBVIOUS
    <3>4. f = [q \in 1..Len(node.cpu_instances) |-> f[q]]
      BY <2>2, <3>2, <3>3 DEF LaunchRefs
    <3> QED
      BY <3>2, <3>3, <3>4, ListOfFunction
  <2>3. CASE node.k \notin {"kernel_launch", "kernels_launch"}
    BY <2>3, EmptyList DEF LaunchRefs
  <2> QED
    BY <2>1, <2>2, <2>3
<1>7. PICK c : c = EmitAll(table, "cpu", at, CpuRefs(y))
  OBVIOUS
<1>8. PICK g : g = EmitAll(table, "gpu", at, GpuRefs(y))
  OBVIOUS
<1>9. IsList(CpuRefs(y)) /\ IsList(c) /\ IsList(g)
  <2>1. IsList(CpuRefs(y)) /\ IsList(GpuRefs(y))
    BY <1>5, NodeLists
  <2> QED
    BY <1>7, <1>8, <2>1, EmitLists
<1>10. ToSet(EmitAll(table, "cpu", at, LaunchRefs(node))) \subseteq ToSet(c)
  BY <1>3, <1>4, <1>6, <1>7, <1>9, EmitIncludes
<1>11. OwnEvents(table, y, at) = c \o g
  BY <1>7, <1>8 DEF OwnEvents
<1>12. PICK own : own = OwnEvents(table, y, at)
  OBVIOUS
<1>13. ASSUME NEW q \in 1..Len(c)
       PROVE  q \in 1..Len(own) /\ own[q] = c[q]
  <2>1. Len(c) \in Nat /\ Len(g) \in Nat
    BY <1>9, ListFacts
  <2>2. Len(own) = Len(c) + Len(g) /\ own[q] = c[q]
    BY <1>9, <1>11, <1>12, <1>13, ConcatLists
  <2> QED
    BY <1>13, <2>1, <2>2
<1>14. PICK L : L = [q \in DOMAIN list |-> OwnEvents(table, list[q], at)]
  OBVIOUS
<1>15. IsListOfLists(L) /\ Len(L) = Len(list) /\ L[p] = own
  <2>1. L = [q \in 1..Len(list) |-> L[q]] /\ L[p] = own
    BY <1>2, <1>4, <1>12, <1>14
  <2>2. IsList(L) /\ Len(L) = Len(list)
    BY <1>2, <2>1, ListOfFunction
  <2>3. \A q \in 1..Len(list) : IsList(L[q])
    BY <1>2, <1>14, NodeLists DEF Nodes
  <2> QED
    BY <2>1, <2>2, <2>3 DEF IsListOfLists
<1>16. PICK all : all = EventsOf(table, list, at)
  OBVIOUS
<1>17. /\ IsList(all) /\ DOMAIN all = 1..Len(all)
       /\ \A k \in 1..Len(own) : \E q \in 1..Len(all) : all[q] = own[k]
  <2>1. all = FlattenSeq(L)
    BY <1>14, <1>16 DEF EventsOf
  <2>2. /\ IsList(FlattenSeq(L))
        /\ \A j \in 1..Len(L) : \A k \in 1..Len(L[j]) : \E q \in 1..Len(FlattenSeq(L)) :
             FlattenSeq(L)[q] = L[j][k]
    BY <1>15, FlattenElements
  <2>3. /\ IsList(all)
        /\ \A j \in 1..Len(L) : \A k \in 1..Len(L[j]) : \E q \in 1..Len(all) : all[q] = L[j][k]
    BY <2>1, <2>2
  <2>4. p \in 1..Len(L)
    BY <1>15
  <2> QED
    BY <1>15, <2>3, <2>4, ListFacts
<1>18. DOMAIN c = 1..Len(c)
  BY <1>9, ListFacts
<1>19. ToSet(c) \subseteq ToSet(all)
  BY <1>13, <1>17, <1>18 DEF ToSet
<1> QED
  BY <1>1, <1>10, <1>16, <1>19

\* Of sequences with the same events, each has every event of the other.
LEMMA SameEventsIncludes ==
  ASSUME NEW a, NEW b, IsList(a), IsList(b), SameEvents(a, b)
  PROVE  ToSet(b) \subseteq ToSet(a)
<1>1. ASSUME NEW e \in ToSet(b), e \notin ToSet(a)
      PROVE  FALSE
  <2>1. Times(a, e) = Times(b, e)
    BY <1>1 DEF SameEvents
  <2>2. {p \in DOMAIN a : a[p] = e} = {}
    BY <1>1 DEF ToSet
  <2>3. Times(a, e) = 0
    BY <2>2, FS_EmptySet DEF Times
  <2>4. DOMAIN b = 1..Len(b) /\ Len(b) \in Nat
    BY ListFacts
  <2>5. PICK S : S = {p \in DOMAIN b : b[p] = e}
    OBVIOUS
  <2>6. S \subseteq 1..Len(b)
    BY <2>4, <2>5
  <2>7. IsFiniteSet(S)
    <3>1. IsFiniteSet(1..Len(b))
      BY <2>4, FS_Interval
    <3> QED
      BY <2>6, <3>1, FS_Subset
  <2>8. Cardinality(S) = 0
    BY <2>1, <2>3, <2>5 DEF Times
  <2>9. S = {}
    BY <2>7, <2>8, FS_EmptySet
  <2> QED
    BY <1>1, <2>5, <2>9 DEF ToSet
<1> QED
  BY <1>1

\* A node without children is a sound tree.
LEMMA SoundLeaf ==
  ASSUME NEW x, WellFormed(x), Children(x) = <<>>
  PROVE  Sound(<<x>>)
<1>1. PICK s : s = <<x>>
  OBVIOUS
<1>2. IsList(s) /\ Len(s) = 1 /\ s[1] = x
  BY <1>1, ShortLists
<1>3. Nodes(s) /\ Below(s) = <<>>
  BY <1>1, <1>2, BelowLaws DEF Nodes
<1> DEFINE S == {d \in 0..OldDepth : Level(s, d) = IF d = 0 THEN s ELSE <<>>}
<1>4. 0 \in S
  BY LevelLaws, Depths
<1>5. ASSUME NEW d \in 0..OldDepth, d \in S, d < OldDepth
      PROVE  d + 1 \in S
  <2>1. Level(s, d + 1) = Below(Level(s, d)) /\ d + 1 \in 0..OldDepth /\ d + 1 # 0
    BY <1>5, LevelLaws, Depths
  <2> QED
    BY <1>3, <1>5, <2>1, BelowLaws
<1> HIDE DEF S
<1>6. 0..OldDepth \subseteq S
  BY <1>4, <1>5, Depths, BoundedInduction
<1>7. \A d \in 0..OldDepth : Level(s, d) = IF d = 0 THEN s ELSE <<>>
  BY <1>6 DEF S
<1> QED
  BY <1>1, <1>3, <1>7, Depths, SoundFacts DEF Sound

\* The trees of an artifact of version 1 are sound.
LEMMA SoundOldNodes ==
  ASSUME NEW x \in OldNodes
  PROVE  Sound(<<x>>)
<1>1. PICK s : s = <<x>>
  OBVIOUS
<1>2. /\ \A d \in 0..(OldDepth - 1) : \A p \in DOMAIN Level(s, d) : WellFormed(Level(s, d)[p])
      /\ Level(s, OldDepth) = <<>>
  BY <1>1, OldNodeAssumption
<1> DEFINE S == {d \in 0..OldDepth : IsList(Level(s, d))}
<1>3. ASSUME NEW d \in 0..(OldDepth - 1), IsList(Level(s, d))
      PROVE  Nodes(Level(s, d))
  <2>1. PICK l : l = Level(s, d)
    OBVIOUS
  <2>2. IsList(l) /\ \A p \in DOMAIN l : WellFormed(l[p])
    BY <1>2, <1>3, <2>1
  <2>3. DOMAIN l = 1..Len(l)
    BY <2>2, ListFacts
  <2> QED
    BY <2>1, <2>2, <2>3 DEF Nodes
<1>4. 0 \in S
  <2>1. Level(s, 0) = s /\ IsList(s)
    BY <1>1, LevelLaws, ShortLists
  <2> QED
    BY <2>1, Depths
<1>5. ASSUME NEW d \in 0..OldDepth, d \in S, d < OldDepth
      PROVE  d + 1 \in S
  <2>1. d + 1 \in 0..OldDepth /\ d \in 0..(OldDepth - 1)
    BY <1>5, Depths
  <2>2. PICK l : l = Level(s, d)
    OBVIOUS
  <2>3. Nodes(l)
    BY <1>3, <1>5, <2>1, <2>2
  <2>4. Level(s, d + 1) = Below(l)
    BY <1>5, <2>2, LevelLaws
  <2>5. Nodes(<<>>)
    BY SoundFacts
  <2>6. IsList(Below(l))
    BY <2>3, <2>5, BelowLaws
  <2> QED
    BY <2>1, <2>4, <2>6
<1> HIDE DEF S
<1>6. 0..OldDepth \subseteq S
  BY <1>4, <1>5, Depths, BoundedInduction
<1>7. \A d \in 0..(OldDepth - 1) : IsList(Level(s, d))
  BY <1>6, Depths DEF S
<1> QED
  BY <1>1, <1>2, <1>3, <1>7 DEF Sound

\* The first element of a list, and the rest.
LEMMA HeadAndTail ==
  ASSUME NEW s, IsList(s), s # <<>>
  PROVE  /\ IsList(Tail(s)) /\ s = <<Head(s)>> \o Tail(s) /\ Head(s) = s[1] /\ 1 \in 1..Len(s)
         /\ \A x : s = <<x>> => Head(s) = x /\ Tail(s) = <<>>
<1>1. Len(s) \in Nat /\ Len(s) # 0 /\ DOMAIN s = 1..Len(s)
  BY ListFacts
<1>2. PICK S : s \in Seq(S)
  BY DEF IsList
<1>3. PICK t : t = Tail(s)
  OBVIOUS
<1>4. PICK n : n = Len(s) - 1
  OBVIOUS
<1>5. n \in Nat /\ Len(s) = 1 + n
  BY <1>1, <1>4
<1>6. t \in Seq(S) /\ Len(t) = n /\ \A p \in 1..n : t[p] = s[p + 1]
  BY <1>1, <1>2, <1>3, <1>4
<1>7. IsList(t) /\ Len(t) = n
  BY <1>6 DEF IsList
<1>8. PICK h : h = <<s[1]>>
  OBVIOUS
<1>9. IsList(h) /\ Len(h) = 1 /\ h[1] = s[1]
  BY <1>8, ShortLists
<1>10. s = h \o t
  <2>1. Len(s) = Len(h) + Len(t)
    BY <1>5, <1>7, <1>9
  <2>2. \A p \in 1..Len(h) : s[p] = h[p]
    BY <1>9
  <2>3. \A p \in 1..Len(t) : s[Len(h) + p] = t[p]
    BY <1>5, <1>6, <1>7, <1>9
  <2> QED
    BY <1>7, <1>9, <2>1, <2>2, <2>3, ConcatIs
<1>11. Head(s) = s[1] /\ 1 \in 1..Len(s)
  BY <1>1
<1>12. ASSUME NEW x, s = <<x>>
       PROVE  Head(s) = x /\ t = <<>>
  <2>1. Len(s) = 1 /\ s[1] = x
    BY <1>12, ShortLists
  <2>2. Len(t) = 0
    BY <1>5, <1>7, <2>1
  <2> QED
    BY <1>7, <1>11, <2>1, <2>2, ListFacts
<1> QED
  BY <1>3, <1>7, <1>8, <1>10, <1>11, <1>12

\* Whatever the variant, visit emits the events of the node and goes on with its
\* children.
LEMMA VisitStep ==
  ASSUME AtNode, WellFormed(Node), NEW at, at = trace[visiting].at,
         \/ VisitRoot \/ VisitCpu \/ VisitCpuBatch \/ VisitSameCpu
         \/ VisitGpu \/ VisitKernelLaunch \/ VisitKernelsLaunch
  PROVE  /\ rebuilt' = rebuilt \o OwnEvents(table, Node, at)
         /\ todo' = Children(Node) \o Tail(todo)
         /\ UNCHANGED <<vars, nodes, visiting>>
<1>1. PICK x : x = Node
  OBVIOUS
<1>2. EmitAll(table, "cpu", at, <<>>) = <<>> /\ EmitAll(table, "gpu", at, <<>>) = <<>>
  BY EmitLists
<1>3. /\ IsList(EmitAll(table, "cpu", at, CpuRefs(x)))
      /\ IsList(EmitAll(table, "gpu", at, GpuRefs(x)))
  BY <1>1, NodeLists, EmitLists
<1>4. ASSUME NEW k, NEW kind, NEW refs, NEW nested, Visit(k, kind, refs, nested),
             nested = Children(x),
             \/ kind = "cpu" /\ refs = CpuRefs(x) /\ GpuRefs(x) = <<>>
             \/ kind = "gpu" /\ refs = GpuRefs(x) /\ CpuRefs(x) = <<>>
      PROVE  /\ rebuilt' = rebuilt \o OwnEvents(table, x, at)
             /\ todo' = Children(x) \o Tail(todo)
             /\ UNCHANGED <<vars, nodes, visiting>>
  <2>1. /\ rebuilt' = rebuilt \o EmitAll(table, kind, at, refs)
        /\ todo' = Children(x) \o Tail(todo)
        /\ UNCHANGED <<vars, nodes, visiting>>
    BY <1>4 DEF Visit
  <2>2. EmitAll(table, kind, at, refs) = OwnEvents(table, x, at)
    <3>1. CASE kind = "cpu" /\ refs = CpuRefs(x) /\ GpuRefs(x) = <<>>
      <4>1. PICK s : s = EmitAll(table, "cpu", at, CpuRefs(x))
        OBVIOUS
      <4>2. s \o <<>> = s
        BY <1>3, <4>1, ConcatLaws
      <4> QED
        BY <1>2, <3>1, <4>1, <4>2 DEF OwnEvents
    <3>2. CASE kind = "gpu" /\ refs = GpuRefs(x) /\ CpuRefs(x) = <<>>
      <4>1. PICK s : s = EmitAll(table, "gpu", at, GpuRefs(x))
        OBVIOUS
      <4>2. <<>> \o s = s
        BY <1>3, <4>1, ConcatLaws
      <4> QED
        BY <1>2, <3>2, <4>1, <4>2 DEF OwnEvents
    <3> QED
      BY <1>4, <3>1, <3>2
  <2> QED
    BY <2>1, <2>2
<1>5. CASE VisitRoot
  <2>1. x.k = "root" /\ Visit("root", "cpu", <<>>, x.children)
    BY <1>1, <1>5 DEF VisitRoot, Visit
  <2>2. CpuRefs(x) = <<>> /\ GpuRefs(x) = <<>> /\ Children(x) = x.children
    BY <2>1 DEF CpuRefs, GpuRefs, Children
  <2> QED
    BY <1>1, <1>4, <2>1, <2>2
<1>6. CASE VisitCpu
  <2>1. /\ x.k = "cpu"
        /\ Visit("cpu", "cpu", <<Ref(x.template, x.instance)>>, x.children \o x.slots)
    BY <1>1, <1>6 DEF VisitCpu, Visit
  <2>2. /\ CpuRefs(x) = <<Ref(x.template, x.instance)>> /\ GpuRefs(x) = <<>>
        /\ Children(x) = x.children \o x.slots
    BY <2>1 DEF CpuRefs, GpuRefs, Children
  <2> QED
    BY <1>1, <1>4, <2>1, <2>2
<1>7. CASE VisitCpuBatch
  <2>1. /\ x.k = "cpu_batch"
        /\ Visit("cpu_batch", "cpu", Paired(x.templates, x.instances), <<>>)
    BY <1>1, <1>7 DEF VisitCpuBatch, Visit
  <2>2. /\ CpuRefs(x) = Paired(x.templates, x.instances) /\ GpuRefs(x) = <<>>
        /\ Children(x) = <<>>
    BY <2>1 DEF CpuRefs, GpuRefs, Children
  <2> QED
    BY <1>1, <1>4, <2>1, <2>2
<1>8. CASE VisitSameCpu
  <2>1. /\ x.k = "same_cpu"
        /\ Visit("same_cpu", "cpu", SameCpuRefs(x), x.children \o FlattenSeq(x.slots))
    BY <1>1, <1>8 DEF VisitSameCpu, Visit
  <2>2. /\ CpuRefs(x) = SameCpuRefs(x) /\ GpuRefs(x) = <<>>
        /\ Children(x) = x.children \o FlattenSeq(x.slots)
    BY <2>1 DEF CpuRefs, GpuRefs, Children
  <2> QED
    BY <1>1, <1>4, <2>1, <2>2
<1>9. CASE VisitGpu
  <2>1. x.k = "gpu" /\ Visit("gpu", "gpu", Paired(x.templates, x.instances), <<>>)
    BY <1>1, <1>9 DEF VisitGpu, Visit
  <2>2. /\ GpuRefs(x) = Paired(x.templates, x.instances) /\ CpuRefs(x) = <<>>
        /\ Children(x) = <<>>
    BY <2>1 DEF CpuRefs, GpuRefs, Children
  <2> QED
    BY <1>1, <1>4, <2>1, <2>2
<1>10. CASE VisitKernelLaunch
  <2>1. /\ x.k = "kernel_launch"
        /\ Visit("kernel_launch", "gpu", <<Ref(x.gpu_template, x.gpu_instance)>>, <<>>)
    BY <1>1, <1>10 DEF VisitKernelLaunch, Visit
  <2>2. /\ GpuRefs(x) = <<Ref(x.gpu_template, x.gpu_instance)>> /\ CpuRefs(x) = <<>>
        /\ Children(x) = <<>>
    BY <2>1 DEF CpuRefs, GpuRefs, Children
  <2> QED
    BY <1>1, <1>4, <2>1, <2>2
<1>11. CASE VisitKernelsLaunch
  <2>1. /\ x.k = "kernels_launch"
        /\ Visit("kernels_launch", "gpu", Paired(x.gpu_templates, x.gpu_instances), <<>>)
    BY <1>1, <1>11 DEF VisitKernelsLaunch, Visit
  <2>2. /\ GpuRefs(x) = Paired(x.gpu_templates, x.gpu_instances) /\ CpuRefs(x) = <<>>
        /\ Children(x) = <<>>
    BY <2>1 DEF CpuRefs, GpuRefs, Children
  <2> QED
    BY <1>1, <1>4, <2>1, <2>2
<1> QED
  BY <1>1, <1>5, <1>6, <1>7, <1>8, <1>9, <1>10, <1>11
-----------------------------------------------------------------------------
(* What decompress() has rebuilt, while it goes over the streams: with the  *)
(* nodes still to visit, as many of any events as the streams begun hold.   *)

TreeTotals(tbl, tr, ns, E) == [i \in 1..Len(tr) |-> Total(tbl, <<ns[i]>>, tr[i].at, E)]

Reading(tr, ns, v, l, out) ==
  /\ IsList(tr) /\ IsList(ns) /\ Len(ns) = Len(tr)
  /\ \A i \in 1..Len(tr) : Sound(<<ns[i]>>)
  /\ v \in 0..Len(tr)
  /\ Sound(l) /\ IsList(out)
  /\ v = 0 => l = <<>>

Accounted(tbl, tr, ns, v, l, out) ==
  \A E : CountOver(out, E) + Total(tbl, l, tr[v].at, E) = SumTo(TreeTotals(tbl, tr, ns, E), v)

\* The totals of the streams are numbers.
LEMMA TreesTyped ==
  ASSUME NEW tbl, NEW tr, NEW ns, NEW v, NEW l, NEW out, Reading(tr, ns, v, l, out), NEW E
  PROVE  /\ Len(tr) \in Nat /\ v \in Nat
         /\ Integers(TreeTotals(tbl, tr, ns, E), Len(tr))
         /\ \A i \in 1..Len(tr) :
              TreeTotals(tbl, tr, ns, E)[i] = Total(tbl, <<ns[i]>>, tr[i].at, E)
<1> DEFINE f == TreeTotals(tbl, tr, ns, E)
<1>1. \A i \in 1..Len(tr) : f[i] = Total(tbl, <<ns[i]>>, tr[i].at, E)
  BY DEF TreeTotals
<1> HIDE DEF f
<1>2. Len(tr) \in Nat /\ v \in 0..Len(tr)
  BY ListFacts DEF Reading
<1>3. ASSUME NEW i \in 1..Len(tr)
      PROVE  f[i] \in Int
  <2>1. PICK s : s = <<ns[i]>>
    OBVIOUS
  <2>2. PICK at : at = tr[i].at
    OBVIOUS
  <2>3. Sound(s)
    BY <2>1 DEF Reading
  <2>4. Total(tbl, s, at, E) \in Int
    BY <2>3, CountsTyped
  <2> QED
    BY <1>1, <2>1, <2>2, <2>4
<1>4. Integers(f, Len(tr))
  BY <1>3 DEF Integers
<1> QED
  BY <1>1, <1>2, <1>4 DEF f

\* Before the first stream.
LEMMA ReadingStarts ==
  ASSUME NEW tbl, NEW tr, NEW ns, IsList(tr), IsList(ns), Len(ns) = Len(tr),
         \A i \in 1..Len(tr) : Sound(<<ns[i]>>)
  PROVE  /\ Reading(tr, ns, 0, <<>>, <<>>)
         /\ Accounted(tbl, tr, ns, 0, <<>>, <<>>)
<1>1. Reading(tr, ns, 0, <<>>, <<>>)
  <2>1. Len(tr) \in Nat
    BY ListFacts
  <2>2. 0 \in 0..Len(tr)
    BY <2>1
  <2> QED
    BY <2>2, SoundFacts, EmptyList DEF Reading
<1>2. ASSUME NEW E
      PROVE  CountOver(<<>>, E) + Total(tbl, <<>>, tr[0].at, E) =
               SumTo(TreeTotals(tbl, tr, ns, E), 0)
  <2>1. PICK f : f = TreeTotals(tbl, tr, ns, E)
    OBVIOUS
  <2>2. Integers(f, Len(tr)) /\ Len(tr) \in Nat
    BY <1>1, <2>1, TreesTyped
  <2>3. SumTo(f, 0) = 0
    BY <2>2, SumLaws
  <2>4. CountOver(<<>>, E) = 0
    BY EmptyList, CountLaws
  <2>5. \A at : Total(tbl, <<>>, at, E) = 0
    BY TotalConcat
  <2> QED
    BY <2>1, <2>3, <2>4, <2>5
<1> QED
  BY <1>1, <1>2 DEF Accounted

\* On to the next stream.
LEMMA ReadingGoesOn ==
  ASSUME NEW tbl, NEW tr, NEW ns, NEW v, NEW out, Reading(tr, ns, v, <<>>, out),
         Accounted(tbl, tr, ns, v, <<>>, out), v < Len(ns)
  PROVE  /\ Reading(tr, ns, v + 1, <<ns[v + 1]>>, out)
         /\ Accounted(tbl, tr, ns, v + 1, <<ns[v + 1]>>, out)
<1>1. PICK a : a = v + 1
  OBVIOUS
<1>2. PICK l : l = <<ns[a]>>
  OBVIOUS
<1>3. Len(tr) \in Nat /\ v \in 0..Len(tr) /\ Len(ns) = Len(tr)
  BY ListFacts DEF Reading
<1>4. a \in 1..Len(tr) /\ a \in 0..Len(tr) /\ a # 0 /\ a \in Nat /\ a - 1 = v
  BY <1>1, <1>3
<1>5. Reading(tr, ns, a, l, out)
  BY <1>2, <1>4 DEF Reading
<1>6. ASSUME NEW E
      PROVE  CountOver(out, E) + Total(tbl, l, tr[a].at, E) = SumTo(TreeTotals(tbl, tr, ns, E), a)
  <2>1. PICK f : f = TreeTotals(tbl, tr, ns, E)
    OBVIOUS
  <2>2. Integers(f, Len(tr)) /\ f[a] = Total(tbl, l, tr[a].at, E)
    <3>1. /\ Integers(TreeTotals(tbl, tr, ns, E), Len(tr))
          /\ \A i \in 1..Len(tr) :
               TreeTotals(tbl, tr, ns, E)[i] = Total(tbl, <<ns[i]>>, tr[i].at, E)
      BY ONLY <1>5, TreesTyped
    <3> QED
      BY <1>2, <1>4, <2>1, <3>1
  <2>3. CountOver(out, E) + Total(tbl, <<>>, tr[v].at, E) = SumTo(f, v)
    BY <2>1 DEF Accounted
  <2>4. Total(tbl, <<>>, tr[v].at, E) = 0
    BY TotalConcat
  <2>5. CountOver(out, E) \in Int
    BY CountLaws DEF Reading
  <2>6. Integers(f, a)
    <3>1. \A k \in 1..a : k \in 1..Len(tr)
      BY <1>3, <1>4
    <3> QED
      BY <2>2, <3>1 DEF Integers
  <2>7. SumTo(f, a) = SumTo(f, a - 1) + f[a]
    BY <1>4, <2>6, SumLaws
  <2> QED
    BY <1>4, <2>1, <2>2, <2>3, <2>4, <2>5, <2>7
<1> QED
  BY <1>1, <1>2, <1>5, <1>6 DEF Accounted

\* One more node is visited.
LEMMA ReadingVisits ==
  ASSUME NEW tbl, NEW tr, NEW ns, NEW v, NEW l, NEW out, Reading(tr, ns, v, l, out),
         Accounted(tbl, tr, ns, v, l, out), l # <<>>, NEW x, x = Head(l), NEW at, at = tr[v].at
  PROVE  /\ WellFormed(x)
         /\ Reading(tr, ns, v, Children(x) \o Tail(l), out \o OwnEvents(tbl, x, at))
         /\ Accounted(tbl, tr, ns, v, Children(x) \o Tail(l), out \o OwnEvents(tbl, x, at))
<1>1. PICK t : t = Tail(l)
  OBVIOUS
<1>2. PICK s : s = <<x>>
  OBVIOUS
<1>3. PICK y : y = Children(x)
  OBVIOUS
<1>4. PICK own : own = OwnEvents(tbl, x, at)
  OBVIOUS
<1>5. Sound(l) /\ IsList(out) /\ IsList(l)
  BY SoundFacts DEF Reading
<1>6. IsList(t) /\ l = s \o t /\ IsList(s)
  BY <1>1, <1>2, <1>5, HeadAndTail, ShortLists
<1>7. Sound(s) /\ Sound(t)
  BY <1>5, <1>6, LevelConcat
<1>8. WellFormed(x) /\ Sound(y)
  BY <1>2, <1>3, <1>7, LevelsUnder
<1>9. IsList(own)
  BY <1>4, <1>8, NodeLists
<1>10. Sound(y \o t)
  BY <1>7, <1>8, TotalConcat
<1>11. IsList(out \o own)
  BY <1>5, <1>9, ConcatLists
<1>12. v # 0
  BY DEF Reading
<1>13. Reading(tr, ns, v, y \o t, out \o own)
  BY <1>10, <1>11, <1>12 DEF Reading
<1>14. ASSUME NEW E
       PROVE  CountOver(out \o own, E) + Total(tbl, y \o t, tr[v].at, E) =
                SumTo(TreeTotals(tbl, tr, ns, E), v)
  <2>1. CountOver(out \o own, E) = CountOver(out, E) + CountOver(own, E)
    BY <1>5, <1>9, CountLaws
  <2>2. Total(tbl, s \o t, at, E) = Total(tbl, s, at, E) + Total(tbl, t, at, E)
    BY <1>7, TotalConcat, ZenonT(40)
  <2>3. Total(tbl, y \o t, at, E) = Total(tbl, y, at, E) + Total(tbl, t, at, E)
    BY <1>7, <1>8, TotalConcat, ZenonT(40)
  <2>4. Total(tbl, s, at, E) = CountOver(own, E) + Total(tbl, y, at, E)
    BY <1>2, <1>3, <1>4, <1>7, TotalUnder
  <2>5. CountOver(out, E) + Total(tbl, l, at, E) = SumTo(TreeTotals(tbl, tr, ns, E), v)
    BY DEF Accounted
  <2>6. CountOver(out, E) \in Int
    BY <1>5, CountLaws
  <2>7. CountOver(own, E) \in Int
    BY <1>9, CountLaws
  <2>8. Total(tbl, y, at, E) \in Int
    BY <1>8, CountsTyped
  <2>9. Total(tbl, t, at, E) \in Int
    BY <1>7, CountsTyped
  <2> QED
    BY <1>6, <2>1, <2>2, <2>3, <2>4, <2>5, <2>6, <2>7, <2>8, <2>9
<1>15. Accounted(tbl, tr, ns, v, y \o t, out \o own)
  BY <1>14 DEF Accounted
<1> QED
  BY <1>1, <1>3, <1>4, <1>8, <1>13, <1>15

\* Between two streams, the events of the streams begun are rebuilt.
LEMMA ReadingAccounts ==
  ASSUME NEW tbl, NEW tr, NEW ns, NEW v, NEW out, Reading(tr, ns, v, <<>>, out),
         Accounted(tbl, tr, ns, v, <<>>, out)
  PROVE  SameEvents(out, FlattenSeq([i \in 1..v |-> EventsOf(tbl, AllNodes(ns[i]), tr[i].at)]))
<1>1. PICK L : L = [i \in 1..v |-> EventsOf(tbl, AllNodes(ns[i]), tr[i].at)]
  OBVIOUS
<1>2. PICK all : all = FlattenSeq(L)
  OBVIOUS
<1>3. Len(tr) \in Nat /\ v \in 0..Len(tr) /\ v \in Nat /\ IsList(out)
  BY ListFacts DEF Reading
<1>4. \A i \in 1..v : i \in 1..Len(tr)
  BY <1>3
<1>5. IsList(L) /\ Len(L) = v
  <2>1. L = [i \in 1..v |-> L[i]]
    BY <1>1
  <2> QED
    BY <1>3, <2>1, ListOfFunction
<1>6. ASSUME NEW i \in 1..v
      PROVE  /\ IsList(L[i])
             /\ \A E : CountOver(L[i], E) = Total(tbl, <<ns[i]>>, tr[i].at, E)
  <2>1. PICK x : x = ns[i]
    OBVIOUS
  <2>2. PICK at : at = tr[i].at
    OBVIOUS
  <2>3. Sound(<<x>>)
    BY <1>4, <2>1 DEF Reading
  <2>4. /\ IsList(EventsOf(tbl, AllNodes(x), at))
        /\ \A E : CountOver(EventsOf(tbl, AllNodes(x), at), E) = Total(tbl, <<x>>, at, E)
    BY <2>3, TotalOfTree
  <2> QED
    BY <1>1, <2>1, <2>2, <2>4
<1>7. IsListOfLists(L)
  BY <1>5, <1>6 DEF IsListOfLists
<1>8. IsList(all)
  BY <1>2, <1>7, FlattenElements
<1>9. ASSUME NEW E
      PROVE  CountOver(out, E) = CountOver(all, E)
  <2>1. PICK f : f = TreeTotals(tbl, tr, ns, E)
    OBVIOUS
  <2>2. \A i \in 1..Len(tr) : f[i] = Total(tbl, <<ns[i]>>, tr[i].at, E)
    BY <2>1 DEF TreeTotals
  <2>3. \A i \in 1..Len(L) : f[i] = CountOver(L[i], E)
    BY <1>4, <1>5, <1>6, <2>2
  <2>4. CountOver(FlattenSeq(L), E) = SumTo(f, Len(L))
    BY <1>7, <2>3, CountFlatten
  <2>5. CountOver(out, E) + Total(tbl, <<>>, tr[v].at, E) = SumTo(f, v)
    BY <2>1 DEF Accounted
  <2>6. Total(tbl, <<>>, tr[v].at, E) = 0
    BY TotalConcat
  <2>7. CountOver(out, E) \in Int
    BY <1>3, CountLaws
  <2> QED
    BY <1>2, <1>5, <2>4, <2>5, <2>6, <2>7
<1>10. PICK E : E = {out[p] : p \in 1..Len(out)} \cup {all[p] : p \in 1..Len(all)}
  OBVIOUS
<1>11. CountOver(out, E) = Len(out)
  <2>1. \A p \in 1..Len(out) : out[p] \in E
    BY <1>10
  <2> QED
    BY <1>3, <2>1, CountPlaces
<1>12. CountOver(all, E) = Len(all)
  <2>1. \A p \in 1..Len(all) : all[p] \in E
    BY <1>10
  <2> QED
    BY <1>8, <2>1, CountPlaces
<1>13. Len(out) = Len(all)
  BY <1>9, <1>11, <1>12
<1>14. ASSUME NEW e
       PROVE  Times(out, e) = Times(all, e)
  <2>1. Times(out, e) = CountOver(out, {e})
    BY <1>3, CountPlaces
  <2>2. Times(all, e) = CountOver(all, {e})
    BY <1>8, CountPlaces
  <2> QED
    BY <1>9, <2>1, <2>2
<1> QED
  BY <1>1, <1>2, <1>13, <1>14 DEF SameEvents
\* The events of each stream of a trace, at the stream.
PlacedIn(tr) ==
  [i \in 1..Len(tr) |->
     [k \in DOMAIN tr[i].events |-> [at |-> tr[i].at, event |-> tr[i].events[k]]]]

\* What is rebuilt from an artifact compress() made: the streams before the one
\* whose batch is still to visit.
InOrder(tr, ns, v, l, out) ==
  \/ l = <<>> /\ out = FlattenSeq(First(PlacedIn(tr), v))
  \/ v # 0 /\ l = <<ns[v]>> /\ out = FlattenSeq(First(PlacedIn(tr), v - 1))

ReadInv ==
  IF nodes = None THEN Idle
  ELSE /\ Done
       /\ Reading(trace, nodes, visiting, todo, rebuilt)
       /\ Accounted(table, trace, nodes, visiting, todo, rebuilt)
       /\ nodes = Batches => InOrder(trace, nodes, visiting, todo, rebuilt)

\* The first streams, one after the other.
LEMMA PlacedLists ==
  ASSUME Done
  PROVE  /\ \A i \in 1..Len(trace) : PlacedIn(trace)[i] = Placed(i)
         /\ IsListOfLists(PlacedIn(trace)) /\ Len(PlacedIn(trace)) = Len(trace)
         /\ FlattenSeq(First(PlacedIn(trace), 0)) = <<>>
         /\ \A v \in 0..Len(trace) : v < Len(trace) =>
              FlattenSeq(First(PlacedIn(trace), v + 1)) =
                FlattenSeq(First(PlacedIn(trace), v)) \o Placed(v + 1)
<1>1. PICK L : L = PlacedIn(trace)
  OBVIOUS
<1>2. Len(trace) \in Nat
  BY DoneStreams
<1>3. \A i \in 1..Len(trace) : L[i] = Placed(i)
  BY <1>1 DEF PlacedIn, Placed
<1>4. IsList(L) /\ Len(L) = Len(trace)
  <2>1. L = [i \in 1..Len(trace) |-> L[i]]
    BY <1>1 DEF PlacedIn
  <2> QED
    BY <1>2, <2>1, ListOfFunction
<1>5. IsListOfLists(L)
  BY <1>3, <1>4, BatchEvents DEF IsListOfLists
<1>6. /\ FlattenSeq(First(L, 0)) = <<>>
      /\ \A v \in 0..Len(L) : v < Len(L) =>
           FlattenSeq(First(L, v + 1)) = FlattenSeq(First(L, v)) \o L[v + 1]
  BY <1>5, FirstLists
<1>7. \A v \in 0..Len(trace) : v < Len(trace) => v + 1 \in 1..Len(trace)
  BY <1>2
<1> QED
  BY <1>1, <1>3, <1>4, <1>5, <1>6, <1>7

\* The batches are those of the same streams as long as the compressor stands still.
LEMMA BatchesStay ==
  ASSUME UNCHANGED vars
  PROVE  Batches' = Batches
<1>1. trace' = trace /\ ranks' = ranks
  BY DEF vars
<1>2. ASSUME NEW i
      PROVE  Batch(i)' = Batch(i)
  BY <1>1 DEF Batch, IsGpu
<1> QED
  BY <1>1, <1>2 DEF Batches, Batch, IsGpu

\* The first nodes decompress() is given.
LEMMA ReadsSound ==
  ASSUME Done, NEW ns,
         ns = Batches \/ \E node \in OldNodes : ns = [Batches EXCEPT ![1] = node]
  PROVE  /\ IsList(ns) /\ Len(ns) = Len(trace)
         /\ \A i \in 1..Len(trace) : Sound(<<ns[i]>>)
<1>1. Len(trace) \in Nat /\ DOMAIN trace = 1..Len(trace)
  BY DoneStreams
<1>2. PICK b : b = Batches
  OBVIOUS
<1>3. b = [i \in 1..Len(trace) |-> Batch(i)]
  BY <1>1, <1>2 DEF Batches
<1>4. ns = [i \in 1..Len(trace) |-> ns[i]]
  BY <1>2, <1>3
<1>5. IsList(ns) /\ Len(ns) = Len(trace)
  BY <1>1, <1>4, ListOfFunction
<1>6. ASSUME NEW i \in 1..Len(trace)
      PROVE  Sound(<<ns[i]>>)
  <2>1. ns[i] = Batch(i) \/ ns[i] \in OldNodes
    BY <1>2, <1>3
  <2>2. PICK x : x = ns[i]
    OBVIOUS
  <2>3. WellFormed(Batch(i)) /\ Children(Batch(i)) = <<>>
    BY BatchRefs
  <2>4. CASE x = Batch(i)
    BY <2>2, <2>3, <2>4, SoundLeaf
  <2>5. CASE x \in OldNodes
    BY <2>2, <2>5, SoundOldNodes
  <2> QED
    BY <2>1, <2>2, <2>4, <2>5
<1> QED
  BY <1>5, <1>6

\* Each step of decompress() keeps ReadInv.
LEMMA ReadInvSteps ==
  ASSUME ReadInv, ArchiveInv, ArchiveInv', DecompressStep
  PROVE  ReadInv'
<1> USE DEF ArchiveInv
<1>1. CASE ReadArtifact
  <2>1. Done /\ Idle /\ UNCHANGED vars /\ visiting' = 0 /\ todo' = <<>> /\ rebuilt' = <<>>
    BY <1>1 DEF ReadArtifact, Done, Idle
  <2>2. trace' = trace /\ table' = table /\ Done'
    BY <2>1 DEF vars, Done
  <2>3. PICK ns : ns = nodes'
    OBVIOUS
  <2>4. ns = Batches \/ \E node \in OldNodes : ns = [Batches EXCEPT ![1] = node]
    BY <1>1, <2>3 DEF ReadArtifact
  <2>5. /\ IsList(ns) /\ Len(ns) = Len(trace)
        /\ \A i \in 1..Len(trace) : Sound(<<ns[i]>>)
    BY <2>1, <2>4, ReadsSound
  <2>6. PICK tbl : tbl = table
    OBVIOUS
  <2>7. PICK tr : tr = trace
    OBVIOUS
  <2>8. IsList(tr)
    BY <2>1, <2>7, DoneStreams
  <2>9. Reading(tr, ns, 0, <<>>, <<>>) /\ Accounted(tbl, tr, ns, 0, <<>>, <<>>)
    BY <2>5, <2>7, <2>8, ReadingStarts
  <2>10. InOrder(tr, ns, 0, <<>>, <<>>)
    BY <2>1, <2>7, PlacedLists DEF InOrder
  <2>11. CASE ns = None
    BY <2>1, <2>3, <2>11 DEF ReadInv, Idle
  <2>12. CASE ns # None
    BY <2>1, <2>2, <2>3, <2>6, <2>7, <2>9, <2>10, <2>12 DEF ReadInv
  <2> QED
    BY <2>11, <2>12
<1>2. ASSUME nodes # None, UNCHANGED vars, nodes' = nodes,
             NEW v, NEW l, NEW out, visiting' = v, todo' = l, rebuilt' = out,
             Reading(trace, nodes, v, l, out), Accounted(table, trace, nodes, v, l, out),
             nodes = Batches => InOrder(trace, nodes, v, l, out)
      PROVE  ReadInv'
  <2>1. trace' = trace /\ table' = table /\ Batches' = Batches
    BY <1>2, BatchesStay DEF vars
  <2>2. Done'
    BY <1>2 DEF ReadInv, Done, vars
  <2> QED
    BY <1>2, <2>1, <2>2 DEF ReadInv
<1>3. CASE NextStream
  <2>1. /\ nodes # None /\ todo = <<>> /\ visiting < Len(nodes) /\ UNCHANGED vars
        /\ visiting' = visiting + 1 /\ todo' = <<nodes[visiting + 1]>>
        /\ nodes' = nodes /\ rebuilt' = rebuilt
    BY <1>3 DEF NextStream, BetweenStreams
  <2>2. /\ Reading(trace, nodes, visiting, <<>>, rebuilt)
        /\ Accounted(table, trace, nodes, visiting, <<>>, rebuilt)
        /\ nodes = Batches => InOrder(trace, nodes, visiting, <<>>, rebuilt)
    BY <2>1 DEF ReadInv
  <2>3. PICK v : v = visiting
    OBVIOUS
  <2>4. PICK ns : ns = nodes
    OBVIOUS
  <2>5. PICK out : out = rebuilt
    OBVIOUS
  <2>6. PICK tr : tr = trace
    OBVIOUS
  <2>7. PICK tbl : tbl = table
    OBVIOUS
  <2>8. /\ Reading(tr, ns, v, <<>>, out) /\ Accounted(tbl, tr, ns, v, <<>>, out)
        /\ v < Len(ns)
    BY <2>1, <2>2, <2>3, <2>4, <2>5, <2>6, <2>7
  <2>9. /\ Reading(tr, ns, v + 1, <<ns[v + 1]>>, out)
        /\ Accounted(tbl, tr, ns, v + 1, <<ns[v + 1]>>, out)
    BY ONLY <2>8, ReadingGoesOn
  <2>10. ASSUME ns = Batches
         PROVE  InOrder(tr, ns, v + 1, <<ns[v + 1]>>, out)
    <3>1. InOrder(tr, ns, v, <<>>, out)
      BY <2>2, <2>3, <2>4, <2>5, <2>6, <2>10
    <3>2. v \in Nat
      BY <2>8, ListFacts DEF Reading
    <3>3. <<>> # <<ns[v]>>
      OBVIOUS
    <3>4. (v + 1) - 1 = v /\ v + 1 # 0
      BY <3>2
    <3> QED
      BY <3>1, <3>3, <3>4 DEF InOrder
  <2>11. PICK a : a = v + 1
    OBVIOUS
  <2>12. PICK l : l = <<ns[a]>>
    OBVIOUS
  <2>13. /\ Reading(trace, nodes, a, l, out) /\ Accounted(table, trace, nodes, a, l, out)
         /\ nodes = Batches => InOrder(trace, nodes, a, l, out)
    BY <2>4, <2>6, <2>7, <2>9, <2>10, <2>11, <2>12
  <2>14. visiting' = a /\ todo' = l /\ rebuilt' = out
    BY <2>1, <2>3, <2>4, <2>5, <2>11, <2>12
  <2> QED
    BY <1>2, <2>1, <2>13, <2>14
<1>4. CASE DecompressReturns
  <2>1. nodes' = None /\ visiting' = 0 /\ todo' = <<>> /\ rebuilt' = <<>>
    BY <1>4 DEF DecompressReturns, BetweenStreams
  <2> QED
    BY <2>1 DEF ReadInv, Idle
<1>5. CASE \/ VisitRoot \/ VisitCpu \/ VisitCpuBatch \/ VisitSameCpu
           \/ VisitGpu \/ VisitKernelLaunch \/ VisitKernelsLaunch
  <2>1. AtNode
    BY <1>5 DEF Visit, VisitRoot, VisitCpu, VisitCpuBatch, VisitSameCpu, VisitGpu,
                VisitKernelLaunch, VisitKernelsLaunch
  <2>2. nodes # None /\ todo # <<>>
    BY <2>1 DEF AtNode
  <2>3. /\ Done /\ Reading(trace, nodes, visiting, todo, rebuilt)
        /\ Accounted(table, trace, nodes, visiting, todo, rebuilt)
        /\ nodes = Batches => InOrder(trace, nodes, visiting, todo, rebuilt)
    BY <2>2 DEF ReadInv
  <2>4. PICK v : v = visiting
    OBVIOUS
  <2>5. PICK ns : ns = nodes
    OBVIOUS
  <2>6. PICK out : out = rebuilt
    OBVIOUS
  <2>7. PICK tr : tr = trace
    OBVIOUS
  <2>8. PICK tbl : tbl = table
    OBVIOUS
  <2>9. PICK l : l = todo
    OBVIOUS
  <2>10. PICK x : x = Head(l)
    OBVIOUS
  <2>11. PICK at : at = tr[v].at
    OBVIOUS
  <2>12. Reading(tr, ns, v, l, out) /\ Accounted(tbl, tr, ns, v, l, out) /\ l # <<>>
    BY <2>2, <2>3, <2>4, <2>5, <2>6, <2>7, <2>8, <2>9
  <2>13. /\ WellFormed(x)
         /\ Reading(tr, ns, v, Children(x) \o Tail(l), out \o OwnEvents(tbl, x, at))
         /\ Accounted(tbl, tr, ns, v, Children(x) \o Tail(l), out \o OwnEvents(tbl, x, at))
    BY ONLY <2>10, <2>11, <2>12, ReadingVisits
  <2>14. PICK rest : rest = Children(x) \o Tail(l)
    OBVIOUS
  <2>15. PICK more : more = out \o OwnEvents(tbl, x, at)
    OBVIOUS
  <2>16. x = Node /\ at = trace[visiting].at
    BY <2>4, <2>7, <2>9, <2>10, <2>11 DEF Node
  <2>17. /\ rebuilt' = rebuilt \o OwnEvents(table, Node, at)
         /\ todo' = Children(Node) \o Tail(todo)
         /\ UNCHANGED <<vars, nodes, visiting>>
    <3>1. WellFormed(Node)
      BY <2>13, <2>16
    <3> QED
      BY ONLY <1>5, <2>1, <2>16, <3>1, VisitStep
  <2>18. rebuilt' = more /\ todo' = rest /\ visiting' = v /\ nodes' = nodes /\ UNCHANGED vars
    BY <2>4, <2>6, <2>8, <2>9, <2>14, <2>15, <2>16, <2>17
  <2>19. ASSUME nodes = Batches
         PROVE  InOrder(tr, ns, v, rest, more)
    <3>1. v # 0 /\ l = <<ns[v]>> /\ out = FlattenSeq(First(PlacedIn(tr), v - 1))
      BY <2>2, <2>3, <2>4, <2>5, <2>6, <2>7, <2>9, <2>19 DEF InOrder
    <3>2. v \in 0..Len(tr) /\ Len(tr) \in Nat
      BY <2>12, ListFacts DEF Reading
    <3>3. PICK u : u = v - 1
      OBVIOUS
    <3>4. u \in 0..Len(tr) /\ u < Len(tr) /\ u + 1 = v /\ v \in 1..Len(tr)
      BY <3>1, <3>2, <3>3
    <3>5. x = ns[v] /\ Tail(l) = <<>>
      BY <2>10, <3>1
    <3>6. x = Batch(v)
      <4>1. v \in DOMAIN trace
        BY <2>3, <2>7, <3>4, DoneStreams
      <4> QED
        BY <2>5, <2>19, <3>5, <4>1 DEF Batches
    <3>7. Children(x) = <<>> /\ OwnEvents(tbl, x, at) = Placed(v)
      BY <2>3, <2>4, <2>7, <2>8, <2>16, <3>4, <3>6, BatchRefs, BatchEvents
    <3>8. rest = <<>>
      BY <2>14, <3>5, <3>7
    <3>9. FlattenSeq(First(PlacedIn(tr), u + 1)) =
            FlattenSeq(First(PlacedIn(tr), u)) \o Placed(u + 1)
      BY <2>3, <2>7, <3>4, PlacedLists
    <3>10. more = FlattenSeq(First(PlacedIn(tr), v))
      BY <2>15, <3>1, <3>3, <3>4, <3>7, <3>9
    <3> QED
      BY <3>8, <3>10 DEF InOrder
  <2>20. /\ Reading(trace, nodes, v, rest, more) /\ Accounted(table, trace, nodes, v, rest, more)
         /\ nodes = Batches => InOrder(trace, nodes, v, rest, more)
    BY <2>5, <2>7, <2>8, <2>13, <2>14, <2>15, <2>19
  <2> QED
    BY <1>2, <2>2, <2>18, <2>20
<1> QED
  BY <1>1, <1>3, <1>4, <1>5 DEF DecompressStep

\* Of the streams visited, exactly the events their nodes refer to are rebuilt,
\* each as often, whatever trees an artifact of version 1 holds, the CPU launches of
\* enclosed launch nodes among them; and of an artifact compress() made, the events
\* of the trace, in their order.
THEOREM EventsAreRebuilt == SystemSpec => []EventsRebuilt
<1>1. SystemInit => ReadInv
  BY DEF SystemInit, Idle, ReadInv
<1>2. ReadInv /\ ArchiveInv /\ ArchiveInv' /\ [SystemNext]_systemVars => ReadInv'
  <2> SUFFICES ASSUME ReadInv, ArchiveInv, ArchiveInv', [SystemNext]_systemVars
               PROVE  ReadInv'
    OBVIOUS
  <2>1. CASE Idle /\ Next /\ UNCHANGED nodeVars
    <3>1. Idle'
      BY <2>1 DEF Idle, nodeVars
    <3> QED
      BY <3>1 DEF ReadInv, Idle
  <2>2. CASE DecompressStep
    BY <2>2, ReadInvSteps
  <2>3. CASE UNCHANGED systemVars
    <3>1. /\ UNCHANGED vars /\ nodes' = nodes /\ visiting' = visiting /\ todo' = todo
          /\ rebuilt' = rebuilt
      BY <2>3 DEF systemVars, nodeVars
    <3>2. trace' = trace /\ table' = table /\ phase' = phase /\ Batches' = Batches
      BY <3>1, BatchesStay DEF vars
    <3>3. CASE nodes = None
      BY <3>1, <3>3 DEF ReadInv, Idle
    <3>4. CASE nodes # None
      <4>1. Done'
        BY <3>2, <3>4 DEF ReadInv, Done, ArchiveInv
      <4> QED
        BY <3>1, <3>2, <3>4, <4>1 DEF ReadInv
    <3> QED
      BY <3>3, <3>4
  <2> QED
    BY <2>1, <2>2, <2>3 DEF SystemNext
<1>3. ReadInv => EventsRebuilt
  <2> SUFFICES ASSUME ReadInv, BetweenStreams
               PROVE  /\ SameEvents(rebuilt, FlattenSeq([i \in 1..visiting |-> EventsOfStream(i)]))
                      /\ \A i \in 1..visiting : \A node \in ToSet(AllNodes(nodes[i])) :
                           Enclosed(node, AllNodes(nodes[i])) =>
                             LaunchesIn(rebuilt, node, trace[i].at)
                      /\ nodes = Batches =>
                           rebuilt = FlattenSeq([i \in 1..visiting |-> Placed(i)])
    BY DEF EventsRebuilt
  <2>1. nodes # None /\ todo = <<>>
    BY DEF BetweenStreams
  <2>2. /\ Done /\ Reading(trace, nodes, visiting, <<>>, rebuilt)
        /\ Accounted(table, trace, nodes, visiting, <<>>, rebuilt)
        /\ nodes = Batches => InOrder(trace, nodes, visiting, <<>>, rebuilt)
    BY <2>1 DEF ReadInv
  <2>3. SameEvents(rebuilt,
          FlattenSeq([i \in 1..visiting |-> EventsOf(table, AllNodes(nodes[i]), trace[i].at)]))
    BY ONLY <2>2, ReadingAccounts
  <2>4. SameEvents(rebuilt, FlattenSeq([i \in 1..visiting |-> EventsOfStream(i)]))
    BY <2>3 DEF EventsOfStream
  <2>5. ASSUME nodes = Batches
        PROVE  rebuilt = FlattenSeq([i \in 1..visiting |-> Placed(i)])
    <3>1. rebuilt = FlattenSeq(First(PlacedIn(trace), visiting))
      BY <2>2, <2>5 DEF InOrder
    <3>2. visiting \in 0..Len(trace) /\ Len(trace) \in Nat
      BY <2>2, DoneStreams DEF Reading
    <3>3. \A i \in 1..visiting : i \in 1..Len(trace)
      BY <3>2
    <3>4. First(PlacedIn(trace), visiting) = [i \in 1..visiting |-> Placed(i)]
      BY <2>2, <3>3, PlacedLists DEF First
    <3> QED
      BY <3>1, <3>4
  <2>6. ASSUME NEW i \in 1..visiting, NEW node \in ToSet(AllNodes(nodes[i])),
               Enclosed(node, AllNodes(nodes[i]))
        PROVE  LaunchesIn(rebuilt, node, trace[i].at)
    <3>1. PICK L : L = [j \in 1..visiting |-> EventsOfStream(j)]
      OBVIOUS
    <3>2. PICK x : x = nodes[i]
      OBVIOUS
    <3>3. PICK at : at = trace[i].at
      OBVIOUS
    <3>4. /\ visiting \in Nat /\ IsList(rebuilt)
          /\ \A j \in 1..visiting : Sound(<<nodes[j]>>)
      <4>1. visiting \in 0..Len(trace) /\ Len(trace) \in Nat
        BY <2>2, DoneStreams DEF Reading
      <4>2. \A j \in 1..visiting : j \in 1..Len(trace)
        BY <4>1
      <4> QED
        BY <2>2, <4>1, <4>2 DEF Reading
    <3>5. IsListOfLists(L) /\ Len(L) = visiting
      <4>1. L = [j \in 1..visiting |-> L[j]]
        BY <3>1
      <4>2. IsList(L) /\ Len(L) = visiting
        BY <3>4, <4>1, ListOfFunction
      <4>3. \A j \in 1..visiting : IsList(L[j])
        BY <3>1, <3>4, TotalOfTree DEF EventsOfStream
      <4> QED
        BY <4>2, <4>3 DEF IsListOfLists
    <3>6. L[i] = EventsOf(table, AllNodes(x), at)
      BY <3>1, <3>2, <3>3 DEF EventsOfStream
    <3>7. ToSet(EmitAll(table, "cpu", at, LaunchRefs(node))) \subseteq ToSet(L[i])
      <4>1. Sound(<<x>>) /\ node \in ToSet(AllNodes(x)) /\ Enclosed(node, AllNodes(x))
        BY <2>6, <3>2, <3>4
      <4> QED
        BY ONLY <3>6, <4>1, EnclosedLaunches
    <3>8. PICK all : all = FlattenSeq(L)
      OBVIOUS
    <3>9. IsList(all) /\ ToSet(L[i]) \subseteq ToSet(all)
      <4>1. /\ IsList(all)
            /\ \A k \in 1..Len(L[i]) : \E p \in 1..Len(all) : all[p] = L[i][k]
        BY <3>5, <3>8, FlattenElements
      <4>2. DOMAIN all = 1..Len(all) /\ DOMAIN L[i] = 1..Len(L[i])
        BY <3>5, <4>1, ListFacts DEF IsListOfLists
      <4> QED
        BY <4>1, <4>2 DEF ToSet
    <3>10. ToSet(all) \subseteq ToSet(rebuilt)
      BY <2>4, <3>1, <3>4, <3>8, <3>9, SameEventsIncludes
    <3> QED
      BY <3>3, <3>7, <3>9, <3>10 DEF LaunchesIn
  <2> QED
    BY <2>4, <2>5, <2>6
<1>4. SystemSpec => []ArchiveInv
  BY SystemIsCompressor, ArchiveInvariant, PTL
<1> QED
  BY <1>1, <1>2, <1>3, <1>4, PTL DEF SystemSpec

=============================================================================
