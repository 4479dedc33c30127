# PADOC in TLA+

PADOC compresses Chrome traces of deep-learning profilers. It buckets the events
of a trace into *templates*, stores what differs between the events of one
template in typed *columns*, keeps per stream a flat list of references
(template, instance), and writes the result as one artifact per trace. This
directory holds a model of that program: TLA+ modules, the TLC configurations
that check them on small instances, and TLAPS proofs of the central results for
every instance.

`PROJECT.json` is the index: components, runs, mutants, the map from definitions
to source lines, hazards, findings and theorems.

## 1. The system

| Component | State it keeps | Operations | Talks to | What makes it correct |
|---|---|---|---|---|
| Columns (`event.rs`, `slp.rs`) | the cells of one field of a template, in one of several variants | `push`, `extend_from`, `compact`, `get` | templates | every cell reads back as stored, whatever the variant became |
| Names, signatures (`utils.rs`, `event.rs`) | none | `normalize_name`, `extract_digit_runs`, `restore_digits`, `template_signature` | compressor, decompressor | names are restored exactly; one signature decides which fields are present |
| Template compressor (`compressor/core.rs`, `flat.rs`, `finalize.rs`) | template table, CPU and GPU signature index | `compress`, `intern_*_template`, `finalize_templates` | columns, rayon | each event is one reference, which decodes to it; indexes agree with the table; reuse leaves nothing behind |
| Decompressor (`compressor/decompress.rs`, `node.rs`) | the trace it rebuilds | `decompress`, `visit`, `emit_cpu`, `emit_gpu` | templates, columns | every event once, in order, at the stream it came from; trees of version 1 lose no node |
| In-situ analyses (`analysis/`) | none | `operator_hotspot`, `stream_load_balance` | templates | the result over columns is the result over events |
| Artifact and trace output (`trace.rs`, `main.rs`) | files | `write_to_path`, `write_chrome_json`, `compress_file`, `decompress_file` | file system, other processes | a reader finds nothing or one whole artifact; nothing is overwritten |
| Directory compression (`main.rs`) | staging directory, manifest | `compress_directory` | pool, output, other processes | published whole or not at all, also after a power loss; a failure cleans up; the command ends |
| Worker pool (rayon) | deques, stacks and latches of the threads | `install`, `join`, stealing | directory compression, finalization | waiting workers always find a way out |
| Chrome trace ingest (`trace.rs`, `trace_stream.rs`) | the trace | `from_file` with three JSON readers, `from_dir`, `merge` | compressor | every reader builds the same trace; files of a directory do not disturb each other |
| Chrome JSON output (`trace.rs`) | none | `write_chrome_json`, `chrome_event_value` | ingest | what it writes reads back as the same trace |
| Verification (`verify.rs`) | report | `compare_traces`, `compare_stream`, `collect_streams` | both traces | accepts exactly the traces that are equal as multisets of events |
| SLP encoder (`slp.rs`) | segments | `encode`, `decode`, `get` | library users | decoding gives the column back, also where the arithmetic wraps |
| Command line (`main.rs`) | files | `compress`, `decompress`, `verify`, `compress-dir` | all of the above | the chain compress, verify, decompress closes |
| Artifact header and codec, library facade, synthetic traces | | | | section 7 |

The hard behaviours are few and precise. Inside one trace: representations that
change under live references, boundaries of integer widths, JSON kinds that
compare equal, optional fields, zero padding, and a compressor object that is
reused while its indexes are stale. On the way in and out: three readers of one
format that must agree value kind by value kind, a running minimum with a sentinel,
a subtraction that wraps and a sum that is checked. Between threads: templates
compacted in any order, and a parallel iterator nested in a worker of its own pool.
Between processes: races for an output path, kills, I/O errors and power loss.
Nothing in PADOC retries, times out or exchanges messages.

## 2. The modules

Plain modules model code; `MC...` modules only hold the small instances;
`...Proofs` modules hold lemmas and theorems; the two abstract modules say what a
component promises.

| Module | Models | Kind |
|---|---|---|
| `Columns` | the column types and digit fillers as operators on records, the variant being the field `tag` | operators |
| `ColumnLife` | one column under any legal sequence of `Push`, `ExtendFrom`, `Compact`; `log` is what the caller stored | state machine |
| `Templates` | events, signatures, templates, `AppendToMerge/Kernel`, `CpuTemplate`, `GpuTemplate` | operators |
| `Decompress` | `emit_cpu`, `emit_gpu` and what they build | operators |
| `Compressor` | `TemplateCompressor` over many calls of `compress()` | state machine |
| `EventArchive` | what a compressor promises | abstract |
| `Reconstruct` | the compressor, then `decompress()` over the nodes of an artifact of either version | state machine |
| `Analyses` | both analyses, on events and on columns | operators |
| `OutputFile` | processes of `padoc compress` and `padoc decompress` that race for one path | state machine |
| `WriteOnce` | what writing an artifact promises | abstract |
| `WorkPool` | rayon as far as PADOC uses it (external) | state machine, composed into `CompressDir` |
| `CompressDir` | `padoc compress-dir` on that pool | state machine |
| `PowerLoss` | what a power loss leaves of `padoc compress-dir` | state machine |
| `ChromeJson` | JSON values, the conversions of the three readers, the two full-tree readers | operators |
| `TraceStream` | the streaming reader, one element at a time | state machine |
| `TraceDir` | listing, reading and merging the files of a directory | state machine |
| `Verify` | `compare_traces`, stream by stream | state machine |
| `RoundTrip` | the command line over the files of one user, and `write_chrome_json` | state machine |
| `Slp` | `SlpColumn::encode`, `decode`, `get` | state machine |

The modules compose by `EXTENDS`: `Columns` <- `Templates` <- `Decompress` <-
`Compressor` <- `Reconstruct` and `Analyses`, which `MCCompressor` joins;
`WorkPool` <- `CompressDir`; `ChromeJson` <- `TraceStream` <- `TraceDir`;
`ChromeJson` <- `Verify` <- `RoundTrip`. `Compressor` and `OutputFile` instantiate
their abstract specification with a refinement mapping. The composed machines take
the steps of their part and leave their own variables unchanged (`SystemNext`,
`TraceDir!ReadStream`, `RoundTrip!Comparison`). `VerifySpec` is `compare_traces` by
itself, called on any two traces; `RoundTrip` refines it. Two machines that share no
state also share a run: `MCTraces` runs `TraceDir` or `RoundTrip`, `MCPublication` runs
`CompressDir` or `PowerLoss`, and a behaviour is one of either, so that their steps are
not interleaved. Where two machines meet in one module, one of them has its name in its
definitions (`RoundTripSpec`, `LossInit`).

### Correspondence

*Columns.* A Rust enum variant is a `tag`; `Empty`, `Constant`, `I32`, ... keep
their names. Casts keep their width: `AsU32`, `AsI32` wrap. A JSON value is a
kind with an integer payload, so `0`, `0.0`, `false` and `null` differ by kind
only, which is the distinction `json_value_exact_eq` exists for. A digit run is
`[ascii, zeros, value]`: "040" is one zero before 40. Strings, floats and nested
values are identified by an integer. `RunColumn` stands for both `StringColumn`
and `PhaseColumn`, the same code over two cell types. A row of digits is indexed
by the place of its placeholder in the name pattern, where the code counts
placeholders.

*Compressor.* `templates`, `cpuIndex`, `gpuIndex` are the fields of
`TemplateCompressor`; `ranks` and `table` those of the `CompressedTrace` under
construction. `StartCompress` is the clearing at the head of `compress()`;
`InternEventTemplate` and `InternKernelTemplate` intern one event, with the
known-signature and new-signature branches as disjuncts and the panics as a
phase; `FinalizeTemplate` is one task of the parallel iterator; `Publish` is
`mem::take`. The trace is the sequence of its streams in map order; each stream
carries its coordinates, which the loader guarantees for every event in it.

*Reconstruct.* `ReadArtifact` takes the artifact just published, whose streams are
batches (`flat.rs`), or one of version 1 with a tree over the same table.
A launch node has a CPU launch besides its kernels (`LaunchRefs`, from `node.rs`), which
`visit` does not read. `NextStream` is the loop of `decompress`; the recursion of `visit` is `todo`, the
nodes still to visit in the order the recursion reaches them, with one action per
node variant (`VisitCpu`, `VisitSameCpu`, ...). `rebuilt` is the trace pushed so
far; `Emit` is `emit_cpu` and `emit_gpu`, which skip references that do not resolve.
The property looks at a tree in another way, level by level (`Level`, from
`Node::children`); `OldDepth` bounds how many levels the trees of version 1 have.

*Analyses.* A task makes a list of entries, in the order of its loops, and its result
is the tally of them that it prints (`Add` is `*entry(key).or_insert(0) += amount`).
`HotspotRaw` and `BalanceRaw` walk events, `HotspotInSitu` and `BalanceInSitu` read
columns, with the shortcut for constant columns; totals are `i64` sums that wrap.

*OutputFile.* One action per system call that other processes can observe:
the existence checks, creation of the temporary or the output file, each write,
`sync_all`, `persist_noclobber`, and the last `metadata`. `Fail` is an error
return from any of them (dropping the `NamedTempFile`), `Kill` is a process that
drops nothing, and `LosePower` keeps for each chunk what was in memory or what
was synced, and keeps or loses the directory entry.

*CompressDir* and *WorkPool.* A worker has a stack of frames and a deque, as in
rayon: `Split` sets the right half of a range aside, `Steal` takes the oldest job
of a victim, `RunOwn` takes its own job back, `Waiting` workers steal. A file is
read, interned, its templates are split in two halves by `FinalizeTemplates`
(`par_iter_mut` on the same pool), and its artifact is written. `Collect`,
`WriteManifest`, `Recheck` and `Publish` are the rest of `compress_directory`.

*PowerLoss.* Each worker's `write_to_path` is `WriteTemp`, `SyncAll`, `Persist`; the
main thread writes the manifest and renames. The file system is external: `journal`
lists the changes of directories, of which the first `committed` are on the disk,
and `data` the files whose bytes are. Both grow at any time, and `SyncAll` forces
the bytes of its file. Every state is a moment at which the power may go, and what
`committed` and `data` say is found again.

*ChromeJson, TraceStream, TraceDir.* A JSON value is a record with one field, its
kind; a text is a sequence of tokens. `FullTree` is `parse_chrome_trace_bytes` of
`trace.rs` for the simd-json value and for the serde_json value, which differ in
their conversions; `Absorb` is the parser state's `absorb` in
`trace_stream.rs`. `TraceStream` pulls one top-level entry, and inside
`traceEvents` one element, at a time: `NextElement`, `EndOfArray`, `EndOfText`,
with a wrong type ending the parse. `TraceDir` lists the directory, takes the files
in the order of their names, `todo` being those left, with the reader the name and size
of each select (`ReadTree`, `OpenStream` ... `StreamEnds`), and merges them (`Merge`);
any read may fail.

*Verify, RoundTrip.* `ListStreams`, `CompareStream` per common stream in any
order, `CompareMetadata` with the verdict. `RoundTrip` is a user with a trace,
another trace and, later, a restored one: `Compress`, `VerifyFile` with and without
`--artifact`, `Decompress`, in any order. That compression keeps every event at its
place, an empty argument map being no different from none, is what `Compressor` and its
proofs establish, and taken from there; `Compressed`, `Stored`, `Built` and
`Decompressed` are what happens to ranks, metadata, origins and empty argument maps,
which `decode_args` gives back as none. `ArgsText` writes the argument keys in the order
`SortedKeys`, a constant, each as the text `KeyText` has for it, and every kind of value;
that of an array or an object is one token, for the library prints it. The fields `id`,
`bp` and `s` of an event are left out of the ingest and of the comparison: they are read
and compared as `dur` and `cat` are.

*Slp.* One action per iteration of each loop; sums, differences and products wrap at
an `i64`, the length of a segment at a `u32`.

### Mutated forms

Some definitions stand behind a mutated form of themselves ("Mutant of ..."), the
same action with a plausible bug. They are part of no specification. Each checked
property has one, under which TLC finds that property violated; the pairs are in
`PROJECT.json`.

## 3. The runs

`tlc -config X.cfg M` with the module of the table.

| Run (cfg, module) | Question | Bounds |
|---|---|---|
| `ColumnLife`, `MCColumnLife` | Does every cell of every column type read back (`CellsFaithful`), and does the column stay within its Rust type (`TypeOK`)? | 4 cells, merges of up to 2; i32 is -2..3, i64 digits up to 50, width up to 3, u32 modulo 5 |
| `Compression`, `MCCompressor` | One run over compressor, analyses and decompressor: is a call lossless at every moment (`Lossless`), are references and instances one to one (`EachInstanceOnce`), columns aligned (`ColumnsAligned`), indexes true (`IndexCoherent`)? Does compaction come last (`NoAppendAfterFinalize`), is the compressor an archive (`ImplementsArchive`), do the analyses agree (`AnalysesAgree`), is every event rebuilt (`EventsRebuilt`), does each call return (`CallsReturn`)? | traces of up to 3 streams and up to 4 events; any number of calls; trees of three levels; i64 totals up to 20 |
| `OutputRace`, `MCOutputFile` | Processes and one path: `WrittenOnce`, `CompressorsYield`, `SuccessIsThere`, `TempsRemoved` | 2 compressors, 1 decompressor, 2 chunks, one power loss |
| `CompressDirectory`, `MCPublication` | Threads: published whole or not at all (`PublishedWhole`), clean after a failure (`FailureLeavesNothing`), rivals kept (`RivalKept`), no worker busy when the main thread goes on (`WorkersAreDone`), an end to the nested stealing (`Ends`)? Disk: what is found again after a power loss (`ArtifactsWhole`, `ManifestVouches`)? | 3 workers, 4 files of which one may fail, a rival, a kill; on the disk 4 files |
| `Traces`, `MCTraces` | Directories: do the readers agree (`SameAsFullTree`, `SerdeMirrorsSimd`, `StricterThanFullTree`), and does a directory keep its files apart (`OwnRankIsKept`, `LastOfRankIsWhole`)? Commands: does their chain close (`ChainCloses`, `TimesAreInputTimes`), and is the verdict of `verify` right (`VerdictIsRight`, `EveryEventCounted`)? | one file of up to 2 events, with each of 15 values in each field; directories of up to 3 entries; pairs of traces of up to 3 elements, either reader for each file; 4 argument keys, one with a separator, values of every kind; i64 is -8..7 |
| `LinearPredictor`, `MCSlp` | Is the linear predictor lossless (`Lossless`), random access right (`GetAgrees`), does it end (`Ends`)? | all columns of up to 5 two-bit words |
| `WidePadding`, `OverwriteRace`, `WorkerBound`, `EmptyTrace`, `KernelLaunches`, `EmptyCategory` | expected violations, section 6 | |

Each passing run also checks the type invariants of its machines; that of `PowerLoss` is
proved only.

*Why the bounds suffice.* Column code looks at a cell, at whether all cells agree,
and at a minimum and maximum against a limit: the value sets hold values on and
beyond each side of each limit, and four cells reach every variant, including the
dictionary, whose threshold is half the cells. The integer widths are scaled down
and are parameters of the modules; the proofs are about every width. For traces,
three events give a template an old instance, a new one and a neighbour; the seven
events that differ pairwise in exactly one of the things a signature or a column
could confuse are joined by events with durations on several streams, whose sum
passes the largest total. The trees of version 1 hold every node variant at every
place another variant can hold it, references that do not resolve, and parallel
arrays of unequal length. A race for a path needs a winner, a loser that passed every
check and a loser that did not; two chunks tell part of a file from a whole one. A
worker waits for a stolen half while another deque still has work only with three
workers. The readers convert fields one by one, except that arguments, category
and thread decide together on a lane; the single-file documents vary one field at
a time and that pair together, and the second event is what a running minimum,
the grouping into streams and an error in the middle need. The pairs of traces compared
differ in one field, one argument, one event, one record or their origin. In a directory, two files
can share a rank, a process or neither, and the third tells "the last" from "the
other". With two-bit words every difference and product of two values may wrap, and
five values hold a segment that is closed in the middle.

*Fairness.* `Reconstruct`: weak fairness of `Work`, the steps of a `compress()` call
that has begun, and of the steps of a `decompress()` call that has begun: both are
functions that run, and a pool runs every task. Calling them is not assumed.
`CompressDir`: weak fairness of the main thread and of each worker; an operating
system runs threads that can run, and rayon wakes sleeping workers when jobs
appear. `Slp`: weak fairness of its one loop. Nothing is assumed of rivals, kills,
failures or commands a user may give. The other runs assume no fairness.

*Deadlock* is checked in `ColumnLife` and `Compression`, whose objects can always be
used again. In the other runs the modelled program ends.

## 4. The properties in words

* `CellsFaithful`: promotion, narrowing, dictionaries and merging never change a
  cell, and the length counts them all.
* `Lossless` (`Compressor`): while events are interned, between any two compactions
  and after the table moved, every reference decodes to the event it stands for, in
  every field and at its stream.
* `EachInstanceOnce`: no instance belongs to two events or to none. The analyses,
  which read columns instead of events, rely on it.
* `ColumnsAligned`: a column has a cell for every instance or belongs to an absent
  field, a digitless name, or a constant.
* `IndexCoherent`: the two indexes name exactly the templates of the table, by
  their kind and signature; nothing panics.
* `ImplementsArchive`: the compressor refines `EventArchive`: events become
  readable one by one, stream after stream, in order, and a sealed archive never
  changes.
* `AnalysesAgree`: each analysis gives the same tally over the published columns as
  over the events, totals that wrap included.
* `EventsRebuilt`: decompression emits the events of the trace in order and place,
  and of a version 1 tree the events of exactly the nodes `Node::children` reaches; the
  CPU launch of a launch node among them if the node around it refers to it too.
  `LaunchesRebuilt`, which section 6 refutes, is the documented promise: of every launch
  node.
* `CallsReturn`: `compress()` and `decompress()` return.
* `WrittenOnce`: compressors refine `WriteOnce`: readers see nothing or one whole
  artifact, the first writer wins, and only a power loss takes it away, whole. A file
  a decompressor made counts as another's (`Foreign`), also when the decompressor
  truncates an artifact.
* `CompressorsYield`, `SuccessIsThere`, `TempsRemoved`: races against any other
  writer, honest success (unless a decompressor truncated the file), clean failure.
* `PublishedWhole`, `FailureLeavesNothing`, `RivalKept`, `WorkersAreDone`, `Ends`:
  the promises of `compress-dir`.
* `ArtifactsWhole`, `ManifestVouches`: after a power loss an artifact found under its
  name is whole, and a manifest, even a torn one, stands beside all artifacts.
* `SameAsFullTree`, `SerdeMirrorsSimd`: of a document of the Chrome trace format
  (`ChromeTyped`) all readers build the same trace; the serde reader only if no number
  is a float or a text (`Integral`). `StricterThanFullTree`: off the format, what
  the streaming reader accepts the full-tree reader accepts, with as many events and
  records of the same names.
* `OwnRankIsKept`, `LastOfRankIsWhole`: files of a directory that have their rank to
  themselves are merged untouched; of files that share one the last is whole.
* `ChainCloses`: for an input that satisfies `Supported`, `decompress` succeeds, the
  restored file reads back with the same origin, and `verify` never says no to the
  input, the restored file, or the artifact against either. `verify` without an
  artifact says yes of every trace.
* `TimesAreInputTimes`: of any trace, a restored file holds the timestamps of the
  input, or `decompress` fails.
* `VerdictIsRight`: `SameContent` is what `verify.rs:3-14` documents, equal streams as
  multisets of events, in which empty arguments are no arguments and every other field
  counts, equal metadata and equal origins. Of traces with the same content `verify` says
  yes, and of others no, unless they differ in what the code is blind to (`Blind`): an
  empty category, an `=` in an argument key, the origin. `EverythingElseMatches`, which
  section 6 refutes, is the documented promise without these exceptions.
  `EveryEventCounted`: no event falls between its counts.
* `Lossless`, `GetAgrees`, `Ends` (`Slp`): decoding gives the column back, one value
  read alone is the one decoding gives, encoding terminates.

## 5. What is proved

Eight modules hold lemmas and theorems; `tlapm M.tla` checks one. They hold for all
values of the constants that satisfy these named assumptions:

* columns, templates and compressor: `WidthAssumption`, `ValueAssumption`,
  `NoneAssumption`, `LiteralAssumption`, `ConfigAssumption`, `TraceAssumption`,
  `CoordinateAssumption` are typing of the constants. `CapacityAssumption`: a
  trace has fewer than 2^32 events, because ids are `u32`. `PaddingAssumption` (for
  one column, the hypothesis `NarrowRows`): no digit run is wider than a `u8` can
  say. It is needed: `WidePadding` is the counterexample without it;
* analyses: `StreamAssumption`, that streams are not empty, since the readers create a
  stream with its first event. The raw load balance lists an empty GPU stream, which
  the columns know nothing of;
* decompressor: `OldNodeAssumption`, that a tree of version 1 is finite and its nodes
  have the fields of their variant. What these refer to is not restricted;
* the output path: `ProcessAssumption` (a process compresses or decompresses) and
  `ChunkAssumption`, for any number of processes and chunks;
* directories: `FailureAssumption`, `PoolAssumption`, `ManifestAssumption`, for any
  number of files and workers;
* the linear predictor: `SlpAssumption`, columns shorter than 2^32 values. Beyond, the
  length of a segment wraps; that is assumed away, not checked;
* fingerprints: `KeyAssumption`, that argument keys have an order and that different keys
  are different texts. Any set of keys will do;
* ingest, verification and the command line: `MaxInt64Assumption` (the largest `i64`
  is a positive number; nothing else is said of the width), `DirectoryAssumption`
  (entries of a directory differ in their names) and `InputAssumption`. The last two
  say that a file is a document, `IsDocument`: a list of entries without repeated
  keys, whose numbers are numbers. They do not say that it is a Chrome trace.

| Module | Theorem | Statement |
|---|---|---|
| `CompressorProofs` | `InductiveInvariant` | `Spec => []IInv` |
| | `TypeCorrect` | `Spec => []TypeOK` |
| | `LosslessCompression` | `Spec => []Lossless` |
| | `IndexesStayCoherent` | `Spec => []IndexCoherent` |
| | `CompactedTemplatesRest` | `Spec => NoAppendAfterFinalize` |
| | `ColumnsStayAligned` | `Spec => []ColumnsAligned` |
| | `InstancesAreEvents` | `Spec => []EachInstanceOnce` |
| | `CompressorIsArchive` | `Spec => ImplementsArchive` |
| | `AnalysesAreExact` | `Spec => []AnalysesAgree` |
| | `SystemIsCompressor` | `SystemSpec => Spec` |
| | `EventsAreRebuilt` | `SystemSpec => []EventsRebuilt` |
| `ColumnLifeProofs` | `ColumnTypeCorrect` | `Spec => []TypeOK`, under `NarrowRows` |
| | `CellsReadBack` | `Spec => []CellsFaithful`, under `NarrowRows` |
| `OutputFileProofs` | `PathTypeCorrect` | `Spec => []TypeOK` |
| | `OnlyKillsLeaveTemps` | `Spec => []TempsRemoved` |
| | `NoClobber` | `Spec => CompressorsYield` |
| | `SuccessIsKept` | `Spec => []SuccessIsThere` |
| | `ImplementsWriteOnce` | `Spec => WrittenOnce` |
| `CompressDirProofs` | `TypesHold` | `Spec => []TypeOK` |
| | `OutputIsWhole` | `Spec => []PublishedWhole` |
| | `PoolIsQuiet` | `Spec => []WorkersAreDone` |
| | `FailureIsClean` | `Spec => []FailureLeavesNothing` |
| | `RivalIsKept` | `Spec => RivalKept` |
| | `PowerLossTypeCorrect` | `LossSpec => []LossTypeOK` |
| | `NamedArtifactsAreWhole` | `LossSpec => []ArtifactsWhole` |
| | `ManifestComesLast` | `LossSpec => []ManifestVouches` |
| `SlpProofs` | `SlpTypeCorrect` | `Spec => []TypeOK` |
| | `SlpIsLossless` | `Spec => []Lossless` |
| | `SlpGetAgrees` | `Spec => []GetAgrees` |
| `TracesProofs` | `DirInvariant` | `Spec => []DirInv` (of `TraceDir`) |
| | `TypesOK` | `Spec => []TypeOK` |
| | `StreamingAgrees` | `Spec => []SameAsFullTree` |
| | `StreamingIsStricter` | `Spec => []StricterThanFullTree` |
| | `SerdeAgrees` | `Spec => []SerdeMirrorsSimd` |
| | `RanksKept` | `Spec => []OwnRankIsKept` |
| | `LastKept` | `Spec => []LastOfRankIsWhole` |
| `CommandsProofs` | `EventsCounted` | `VerifySpec => []EveryEventCounted` |
| | `VerdictIsExact` | `VerifySpec => [](verdict # None /\ Faithful => (verdict[1] <=> ObservedContent))` |
| | `RoundTripInvariant` | `RoundTripSpec => []RoundTripInv` |
| | `RoundTripTypes` | `RoundTripSpec => []RoundTripTypeOK` |
| | `CommandsVerify` | `RoundTripSpec => VerifySpec` |
| | `CommandsCount`, `CommandsJudge` | the two results about `VerifySpec`, of the commands |
| | `SelfVerified` | `verify` without an artifact never says no |
| | `TimesKept` | `RoundTripSpec => []TimesAreInputTimes` |
| | `RestoredIsRead` | `RoundTripSpec => [](Restored /\ Supported(Input) => FromFile("restored") = Plain(Input))` |
| | `ChainIsClosed` | `RoundTripSpec => []ChainCloses` |
| | `NoFalseAlarm` | `RoundTripSpec => [](verdict # None /\ SameContent => verdict[1])` |
| | `VerdictHolds` | `DecimalTexts => (VerifySpec => [](PrintedTraces => VerdictIsRight))` |
| | `CommandsHold` | `DecimalTexts => (RoundTripSpec => [](PrintedTraces => VerdictIsRight))` |

`ColumnsProofs` and the first part of `CompressorProofs` hold the lemmas about one
column and one template that the first two modules of the table rest on.

*The compressor.* `Lossless` is not inductive. That an append leaves older instances
alone requires that the template found under a signature is the one built for it
and that its columns all have as many cells as instances (or none, as the
signature says): this is `Open`, kept by `IndexInv` for every template that is not
yet compacted. That compaction keeps every instance needs counts that fit a `u32`,
so `Open` also bounds them by the number of interned events. `Shape` ties that
number to the table. `RefInv` says that the template of each reference *holds* its
event. `IInv` is the conjunction; there is one lemma per kind of step
(`KnownStep`, `NewStep`, `FinalizeStep`, `PublishStep`, `StartStep`). The steps rest
on facts about one template (the first part of the module: an append adds the event as the next
instance and keeps the others; compaction keeps all; names survive normalisation),
which rest on facts about one column (`ColumnsProofs`: a lemma per operation, for
instance `NumCompactCells`, `ArgCompactCells`, `DigitColumnCells`).

Three results are drawn from `IInv`. The columns of a template are aligned because it
is `Open` or the compaction of an `Open` one (`OpenAligned`, `CompactAligned`).
References are distinct and exhaust the instances because interning claims the next
instance of one template and the counts say there is no other (`Claimed`,
`InternCounts`, `FinalizeCounts`). The refinement of `EventArchive` needs that what
can be read is what was interned, whatever the table does (`ArchiveInv`,
`ViewIsTrace`); then interning is the abstract append and every other step the
abstract start, the seal or a stutter (`InternEffect`).

*Analyses.* Nothing in `IInv` says where the cells of a column come from, and a column
of durations has no cell for events without one, so the sums need an invariant of their
own. `MeasuresAgree` says that, whatever integer one gives to an event of a kind at a
place, the sum over the instances of all templates is the sum over the interned events:
interning adds the same on both sides (`InternAddsCell`, `InternAddsDatum`), compaction
changes no cell (`CellsStay`). `Facts` keeps that the template of a reference is named
after its event and that each template was made for some event, so that both lists of
entries have the same keys.
An analysis is then a question of adding up. A wrapped sum is congruent
to the true one modulo 2^64 (`SumOfIsSum`), so that a constant times its length
(`NumSumIsSum`) and any order of adding agree. A tally has the keys of its entries and
for each the wrapped sum of their amounts (`TallyTotals`), so that two lists of entries
with the same keys and congruent sums make the same tally (`TalliesAgree`), however
the events are split between streams on one side and templates on the other
(`HotspotsAgree`, `BalancesAgree`). The shortcut of `KernelEntries` is exact because it
asks for both coordinates to be constant (`KernelAmounts`).

*Decompression.* With `SystemIsCompressor` all of the above holds while artifacts are
read. `ReadInv` is the invariant of the traversal. `Accounted` says that, for any set of
events, those in `rebuilt` and those below the nodes in `todo` are together as many as
the trees of the streams begun hold. What a tree holds is a sum over its levels
(`Total`), and the step from a node to its children is that the total of a list is the
events of the node itself, the total of its children and that of the other nodes
(`TotalUnder`, `TotalConcat`, on `LevelConcat` and `LevelsUnder`): this is `VisitStep`,
proved once for all variants. Between streams nothing is left to visit and the counts
give the equality of the two lists as bags (`CountPlaces`). `InOrder` says of the
artifact of `compress()` that the streams rebuilt are the streams of the trace in
order, since the events of a batch are those of the stream by `Lossless`. The launches of
a launch node are rebuilt when the node around it refers to them (`EnclosedLaunches`); of
other launch nodes nothing can be proved, `KernelLaunches` being the counterexample.

*One column.* For each column type a predicate says that a column *holds* a sequence
of cells, in each of its variants; every operation keeps it. Under `NarrowRows` the
runs of all rows of a column fit the width that is stored for them, and rows of one
name pattern have their digits at the same places.

*The output path.* `PathInv` says that a compressor only writes to its own inode,
and that this inode is not at the path before the rename. With it no step of a
compressor touches another file. That the rename makes a *whole* file appear, and
that a power loss leaves it whole, needs `Progress`: what is written at each label,
that the file was synced before the rename, and that what stands at the path is whole
in memory and on disk, unless a decompressor has it open.

*Directories.* `EndInv` ties the output path and the staging directory to the stage
the main thread is in; it needs nothing of the pool. The rest of `compress-dir` does.
Its proof looks at stacks and deques through *spots*: what waits there to be begun
(`held`) and which job is there to be finished (`tokens`). `PoolInv` says that a file
waits in one spot and a job is to be finished in one (`HeldOnce`, `TokensOnce`); that
what waits in a spot is within a known job or apart from it (`Laminar`), so that the
right part of a split is a job nobody knew; that a job which is to be finished has a
join waiting for it (`Awaited`); and that under each frame lies the latch of the job
it works for, larger than the job a join waits for (`Nested`). When the latch of the
root is set, a largest other job would be joined above the latch of a larger one,
which can only be the root's, and that latch is on top: every worker is idle
(`RootAlone`, `RootLast`). While no error was seen, the files of each latch are
written or answered for by a frame above it (`Answered`): when the root is finished
every file is written, which `Collect`, the manifest and the rename carry to the
output path (`CommandInv`). For a power loss, `LossInv` orders the
journal: a name enters it after the bytes of its file are on the disk, the manifest
after the names of all artifacts, and the disk keeps a prefix of the journal.

*The linear predictor.* `SlpInv` says that the closed segments cover the first `i`
values of the column, each value being the prediction at its offset modulo 2^64, that
the open segment covers those up to `j`, and that what was decoded is a prefix.

For `GetAgrees`, what `get` has left of an index before a segment is its distance from
the offset of that segment, so that the walk ends at the one that covers the index.

*Folds.* The readers are loops over the elements of a document, which the models write
as folds. The library's induction theorems take an operator; here induction is over
*sets* of numbers (`Induction`), and a fold is given its *history*, the function of the
accumulator after each turn, whose existence is proved once for each fold
(`StagedHistory`, `PushAllHistory`, `ListFold`). What holds after every turn then
follows as for a state machine. Sums over finite sets are shown to be cardinalities of
sets of cells (`LaneSize`, `CellsFinite`), so that the laws of counting apply to them.

*Ingest.* `ParserInv` says that what the streaming reader holds is what the full-tree
readers would have staged of the elements taken so far, with the origin not yet
subtracted (`Absorbed`), that its minimum is the least timestamp of them or still the
sentinel, and that a result is there at the end of the text or when an element cannot be
read. At the end, subtracting the origin from filled streams is filling streams with
shifted events (`Rebase`). `Staged` of two readers is compared element by element
(`StagedAlike`, `SameRecords`). `DirInv` adds to it that the parse under way is that of
the next file, and that each rank is as its files left it (`Loaded`), which is inductive
because a merge touches one rank (`MergeFacts`).

*Verification.* `VerifyInv` says that the report adds up the common streams that are no
longer pending (`Listed`). Of one stream, the matches twice and the surplus are the events
of both sides (`StreamsCompared`), which gives the count; the surplus is 0 exactly when
every fingerprint occurs as often on both sides. That fingerprints tell apart exactly
what the code observes of events (`Observed`: an empty category is none, empty arguments
are none) is the hypothesis `Faithful` of `VerdictIsExact`. One half of the verdict needs
no such hypothesis: events that are the same for the documentation have the same
fingerprint (`SameFingerprint`), so traces with the same content leave no surplus
(`CoarseAgrees`) and pass. This is `NoFalseAlarm`. The other half, that no difference is
missed, needs the text of a fingerprint to be read back (`FingerprintRead`). The fields
are joined with `\x01`; a field without that character ends at the first one (`SplitAt`,
`FieldRead`), and the arguments are the last field, so they may hold it. In the arguments
a key without `=` is read up to the first one, the first token of a value tells its kind
(`FirstOfValue`), a string ends at the first quote and every other value before the `;`
(`ValueRead`), and what follows an absent key does not begin with it (`WrittenRead`,
`ArgsRead`). This takes two hypotheses, each about texts:

* `DecimalTexts`: `ToString` of two numbers, or of two arrays or objects, differs, and is
  none of the marks. The provers know nothing of `ToString`; of Rust's decimal and JSON
  texts this holds, and of TLC's on the values that occur.
* `PrintedTraces`: in the events compared no name, category or thread id holds `\x01`, and
  the quotes within a string argument are escaped, as `Value::to_string` does. Argument
  values are of any kind: numbers, strings, booleans, null, arrays and objects. Argument
  keys are any of `SortedKeys`, which `KeyAssumption` lets be any set with texts of their
  own; a key with an `=` is not excluded here but is among the blind spots of
  `VerdictIsRight`, where the code does miss differences. The traces compared in the run
  `Traces` satisfy it.

What the model abstracts limits the theorem beyond its hypotheses: floats are halves, an
array or an object is one token, and an object is therefore taken to print in one way
only, as the comment at `verify.rs:190-192` says.

*The command line.* `RoundTripInv` ties the files together: the artifact is that of the
input, the restored document is the one `decompress` writes of it, a failed `decompress`
would fail again, and a verification under way compares two whole traces. With it each
command is a step of `VerifySpec` or a stutter (`CommandsVerify`). `Sound...` say what a
reader returns of any document: streams without gaps whose events have the coordinates of
their key, timestamps above an origin that is one of them (`Based`). From this the chain
is followed field by field. Every event written is an absolute timestamp of the input
(`RestoredFacts`, `TimesKept`), and `decompress` of a supported trace succeeds because
no shift wrapped (`NotWrapped`, `SupportedTimes`). Each reader finds in the written
array the records and events it was written from (`ValuesReadBack`, `EventReadBack`,
`StagedReadBack`), the rank (`RankReadBack`) and, since an event of timestamp 0 was
written, the same origin (`OriginReadBack`); pushing the events in the order in which
the streams were written fills the same streams (`Refilled`). So the restored file is
`Plain(Input)`, the input without its empty argument maps (`RestoredIsRead`; `Built...`
are what dropping them keeps). Two traces pass whose streams have, place by place, events
of one fingerprint, and whose metadata are equal (`SameFingerprintsPass`), whatever
fingerprints tell apart; dropping an empty map changes no fingerprint
(`BuiltReadsTheSame`): this is `ChainIsClosed`.

*Only model-checked.* All liveness (`CallsReturn`, `Ends`): fairness and `ENABLED` are
outside the prover's reach.

## 6. Findings

1. `WidePadding`: `compact_digit_column` stores the width of a padded column in a
   `u8` with `max_len.min(255)`. Names with digit runs of more than 255 characters,
   padded and varying between the instances of a template, lose zeros, although the
   comment above (`src/slp.rs:198-199`) promises that padding is preserved.
2. `OverwriteRace`: `decompress` checks that the output does not exist and later
   truncates it with `File::create`. `CHANGELOG.md:23` says that output overwrites
   are rejected. The same race cannot hurt `compress`.
3. `WorkerBound`: compaction uses `par_iter_mut` inside a worker of the pool that
   processes the files. A worker that waits for a stolen half starts another file,
   so more than `--workers` files are in memory, against `README.md:46-47` and
   `docs/design.md:22-28`. With two workers the bound holds; three are needed.
4. `EmptyTrace`: `decompress` creates a rank with its first event. A trace without
   events, for instance of metadata only, is compressed and `verify` approves of the
   artifact, but `padoc decompress` fails ("requires exactly one rank, found 0"), and
   the metadata cannot be restored.
5. `KernelLaunches`: the head of `decompress.rs` (lines 13-15) says that a
   `KernelLaunch` or `KernelsLaunch` node "emits **two** events: the CPU launch under the
   tree coordinate, and the GPU kernel", and `node.rs:90` calls its first two fields the
   "CPU launch event". `visit` emits the kernels only and leaves the launch to the node
   around it (`decompress.rs:103-107`); the launch of a node that stands under no such
   node is lost. Only artifacts of version 1 hold such nodes.
6. `EmptyCategory`: after naming empty arguments as the one exception, `verify.rs:13-14`
   says "Everything else (event count, name, cat, ts, dur, ph, pid, tid, args, id, bp, s)
   must match exactly." The fingerprint writes an absent category like an empty one
   (`verify.rs:176`; `bp` and `s` likewise), so `verify` says yes of traces that differ in
   this.

The models also had to say where the program's parts differ. These are preconditions
or exceptions of properties, named in the modules, and no run is spent on them:

* Readers (`ChromeTyped`, `Integral`), against the comment at `trace.rs:85` that
  both paths give identical traces: a `tid` that is a float is "0" for the simd-json
  reader (`trace.rs:392`) and its decimal text for the streaming one
  (`trace_stream.rs:386-388`), so the size of a file decides on the stream of an event;
  booleans, integers beyond an `i64`, and metadata whose `args` are no object, make the
  streaming reader fail or keep another value. If all events stand at the largest `i64`,
  it takes that for "no event yet" and does not shift them. The serde reader, for the
  largest files, takes `ts`, `dur`, `id` and `pid` with `as_i64` alone (`trace.rs:645`),
  so floats and textual numbers become 0, though it "mirrors the simd-json path"
  (`trace.rs:523`), which truncates floats on purpose (`trace.rs:476-480`).
* Round trips (`Supported`): metadata with `"args": null` have none after MessagePack,
  so `verify --artifact` says no; the lane of a `gpu_user_annotation` is prefixed
  again when a restored file is read; a rank with leading zeros is written as a number;
  a span beyond an `i64` makes `decompress` fail.
* Verification (`Blind`), against the same sentence of `verify.rs:13-14`: keys and values
  of arguments are joined with bare `=` and `;` (`verify.rs:188-194`), so that the one
  argument `a=1;b` of value 2 collides with `a` of 1 and `b` of 2. The origin of the
  timestamps is not compared, so of two files whose `ts` all differ by one amount `verify`
  says yes, though "ts" is in the list.
* Restored files: an event with `"args": {}` comes back without `args`
  (`decompress.rs:197-200`). `verify` allows for it, as `verify.rs:11` says.
* Directories (`LastOfRankIsWhole`): of two files that name one rank, the later
  replaces whole processes of the earlier (`trace.rs:131`), silently, though from_dir
  loads files "treating each file as a separate rank" (`trace.rs:115-116`).

## 7. What is not modelled, and the plan

Not modelled: bytes (the MessagePack and zstd codecs, the artifact header, gzip, the
syntax of JSON and trailing text after a document); wording and order of reports;
the order of streams within a trace, which is that of a map; argument parsing,
`inspect` and the task list; the library facade; the synthetic generator;
`ArgColumn::Constant`, which only version 1 artifacts hold; templates of 2^32
instances. They are formatting, libraries, or without state.

The order of work so far, the most important behaviour first: columns, templates and
compressor with `EventArchive`; the output path with `WriteOnce`; the pool and
`compress-dir`; the ingest; round trips and verification; analyses, version 1 trees,
the linear predictor; a power loss during `compress-dir`; the proofs of section 5; the
documented promises that the code does not keep, as runs of their own.

Left: `ArgColumn::Constant`; and `PrintedTraces` as a consequence of a condition on the
input files, which the readers would have to be followed through; nested JSON values as
texts of their own.
