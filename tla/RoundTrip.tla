----------------------------- MODULE RoundTrip -----------------------------
(***************************************************************************)
(* The command line over the files of one user: a trace is compressed into  *)
(* an artifact, traces are verified, against the artifact or against their  *)
(* own compression in memory, the artifact is decompressed into a restored  *)
(* trace, and the restored trace is read like any other.  Commands run one  *)
(* after the other, in any order and as often as their outputs are free.    *)
(*                                                                         *)
(* Compression of the streams is what Compressor shows it to be: every      *)
(* event comes back at its place, an empty argument map excepted, which is  *)
(* for a template the same as none.  Here is the rest of compress(), the    *)
(* artifact's encoding and decompress(): what becomes of ranks, metadata,   *)
(* origins and empty argument maps.                                         *)
(***************************************************************************)
EXTENDS Verify

CONSTANTS Inputs,       \* pairs: the trace to compress, another trace of the user
          Stem          \* the stem of all file names

ASSUME InputAssumption == \A pair \in Inputs : IsDocument(pair[1]) /\ IsDocument(pair[2])

Files == {"trace", "other", "restored"}
Readers == {"simd", "stream"}        \* by size and extension of the file

VARIABLES docs,       \* file -> its document; the restored one when written
          readers,    \* file -> the reader from_file selects for it
          artifact,   \* None, then the decoded artifact of "trace"
          failure,    \* whether a `decompress` of the artifact failed
          verifying   \* None, or Some([file, against]) of the `verify` running
fileVars == <<docs, readers, artifact, failure, verifying>>
roundTripVars == <<fileVars, verifyVars>>

RoundTripInit ==
  /\ \E pair \in Inputs : docs = [trace |-> pair[1], other |-> pair[2]]
  /\ readers \in [Files -> Readers]
  /\ artifact = None
  /\ failure = FALSE
  /\ verifying = None
  /\ VerifyInit

-----------------------------------------------------------------------------
FromFile(file) == IF readers[file] = "stream" THEN StreamRead(docs[file], Stem)
                  ELSE SimdRead(docs[file], Stem)

\* Mutant of Compressed: only ranks with streams are kept.
CompressedMutant(trace) ==
  [ranks |-> [r \in {r \in DOMAIN trace.ranks : trace.ranks[r] # NoStreams} |->
                trace.ranks[r]],
   startTs |-> trace.startTs, metadata |-> trace.metadata]

\* compress() keeps metadata and origins and gives every rank an entry, empty
\* or not.
Compressed(trace) ==
  [ranks |-> trace.ranks, startTs |-> trace.startTs, metadata |-> trace.metadata]

\* What is read back of a trace that was written: in MessagePack an absent
\* argument value and a null are both nil.
NilArgs(m) == [m EXCEPT !.args = IF @ = Some(Null) THEN None ELSE @]
Stored(compressed) ==
  [compressed EXCEPT !.metadata =
     [r \in DOMAIN @ |-> [i \in DOMAIN @[r] |-> NilArgs(@[r][i])]]]

\* build_cpu_event and build_gpu_event: decode_args has no arguments for an event
\* whose template has no argument keys.
Built(e) == [e EXCEPT !.args = OrNone(@)]
BuiltStreams(streams) ==
  [k \in DOMAIN streams |-> [i \in DOMAIN streams[k] |-> Built(streams[k][i])]]

\* Mutant of Decompressed: the metadata stay in the artifact.
DecompressedMutant(a) ==
  [ok |-> TRUE, startTs |-> a.startTs, metadata |-> NoStreams,
   ranks |-> [r \in {r \in DOMAIN a.ranks : a.ranks[r] # NoStreams} |->
                BuiltStreams(a.ranks[r])]]

\* decompress(): a rank appears with its first event.
Decompressed(a) ==
  [ok |-> TRUE, startTs |-> a.startTs, metadata |-> a.metadata,
   ranks |-> [r \in {r \in DOMAIN a.ranks : a.ranks[r] # NoStreams} |->
                BuiltStreams(a.ranks[r])]]

-----------------------------------------------------------------------------
(* write_chrome_json.                                                       *)

Tagged(kind, opt) == [i \in DOMAIN opt |-> [k \in {kind} |-> opt[i]]]
Str(text) == [str |-> text]
Num(n) == [int |-> n]
Obj(f) == [obj |-> f]

\* An object of the fields that are there.
Present(fields) == [f \in {f \in DOMAIN fields : fields[f] # None} |-> fields[f][1]]

ChromeMetadata(m) ==
  Obj(Present([name |-> Some(Str(m.name)), ph |-> Some(Str(<<"M">>)),
               pid |-> Some(Num(m.pid)), tid |-> Some(Str(m.tid)), args |-> m.args]))

\* Mutant of ChromeEvent: the origin is not added back.
ChromeEventMutant(e, startTs) ==
  Obj(Present([name |-> Some(Str(e.name)), ts |-> Some(Num(e.ts)),
               ph |-> Some(Str(<<e.ph>>)), pid |-> Some(Num(e.pid)), tid |-> Some(Str(e.tid)),
               dur |-> Tagged("int", e.dur), cat |-> Tagged("str", e.cat),
               args |-> Tagged("obj", e.args)]))

\* chrome_event_value
ChromeEvent(e, startTs) ==
  Obj(Present([name |-> Some(Str(e.name)), ts |-> Some(Num(e.ts + startTs)),
               ph |-> Some(Str(<<e.ph>>)), pid |-> Some(Num(e.pid)), tid |-> Some(Str(e.tid)),
               dur |-> Tagged("int", e.dur), cat |-> Tagged("str", e.cat),
               args |-> Tagged("obj", e.args)]))

\* A rank that is a number is written as one.
ChromeRank(rank) ==
  LET n == ParseI64(rank) IN IF n = None THEN Str(rank) ELSE Num(n[1])

\* None when the trace has not exactly one rank or a timestamp overflows.
ChromeDocument(trace) ==
  LET rank    == CHOOSE r \in DOMAIN trace.ranks : TRUE
      start   == UnwrapOr(Get(trace.startTs, rank), 0)
      streams == trace.ranks[rank]
      events  == FoldSet(LAMBDA k, all : all \o streams[k], <<>>, DOMAIN streams)
      meta    == UnwrapOr(Get(trace.metadata, rank), <<>>)
  IN  IF \/ Cardinality(DOMAIN trace.ranks) # 1
         \/ \E i \in DOMAIN events : events[i].ts + start \notin Int64
      THEN None
      ELSE Some(<<[key |-> "distributedInfo", value |-> Obj([rank |-> ChromeRank(rank)])],
                  [key |-> "traceEvents", value |->
                     [arr |-> [i \in DOMAIN meta |-> ChromeMetadata(meta[i])]
                              \o [i \in DOMAIN events |-> ChromeEvent(events[i], start)]]]>>)

-----------------------------------------------------------------------------
(* The commands.                                                            *)

\* compress_file: nothing is written when the trace cannot be read, or when the
\* artifact exists.
Compress ==
  /\ verifying = None /\ artifact = None
  /\ LET trace == FromFile("trace")
     IN  trace.ok /\ artifact' = Some(Stored(Compressed(trace)))
  /\ UNCHANGED <<docs, readers, failure, verifying, verifyVars>>

\* verify_file, with --artifact and without.
VerifyFile(file, against) ==
  /\ verifying = None /\ file \in DOMAIN docs
  /\ against = "artifact" => artifact # None
  /\ LET input == FromFile(file)
         compressed == IF against = "artifact" THEN artifact[1] ELSE Compressed(input)
     IN  input.ok /\ CompareTraces(input, Decompressed(compressed))
  /\ verifying' = Some([file |-> file, against |-> against])
  /\ UNCHANGED <<docs, readers, artifact, failure>>

Comparison == VerifyStep /\ UNCHANGED fileVars

VerifyReturns ==
  /\ verdict # None
  /\ Returned
  /\ verifying' = None
  /\ UNCHANGED <<docs, readers, artifact, failure>>

\* A file is written.
Put(files, file, document) ==
  [f \in DOMAIN files \cup {file} |-> IF f = file THEN document ELSE files[f]]

\* decompress_file.  What a failed one leaves at the path is OutputFile's subject.
Decompress ==
  /\ verifying = None
  /\ artifact # None /\ "restored" \notin DOMAIN docs
  /\ LET written == ChromeDocument(Decompressed(artifact[1]))
     IN  IF written = None THEN failure' = TRUE /\ UNCHANGED docs
         ELSE docs' = Put(docs, "restored", written[1]) /\ UNCHANGED failure
  /\ UNCHANGED <<readers, artifact, verifying, verifyVars>>

RoundTripNext ==
  \/ Compress \/ Decompress \/ Comparison \/ VerifyReturns
  \/ \E file \in Files, against \in {"artifact", "itself"} : VerifyFile(file, against)

RoundTripSpec == RoundTripInit /\ [][RoundTripNext]_roundTripVars

-----------------------------------------------------------------------------
(* Properties.                                                              *)

RoundTripTypeOK ==
  /\ VerifyTypeOK
  /\ verifying # None <=> original.ok
  /\ DOMAIN docs \in {Files, Files \ {"restored"}}
  /\ failure \in BOOLEAN
  /\ artifact # None => DOMAIN artifact[1].ranks = DOMAIN artifact[1].startTs

Restored == "restored" \in DOMAIN docs
Input == FromFile("trace")
RankOf1(trace) == CHOOSE r \in DOMAIN trace.ranks : TRUE
AllEvents(trace) == EventsOf(trace.ranks[RankOf1(trace)])

\* A trace the tool reads back as it was: it has events, one of them before the
\* largest i64 and all within an i64 of each other, a rank that is not a number
\* with leading zeros, metadata with arguments of objects only, and no GPU
\* annotation whose lane was named after its thread.
Supported(trace) ==
  LET meta == trace.metadata[RankOf1(trace)] IN
  /\ AllEvents(trace) # {}
  /\ \E e \in AllEvents(trace) : e.ts + trace.startTs[RankOf1(trace)] # MaxInt64
  /\ \A e \in AllEvents(trace) : e.ts >= 0
  /\ ParseI64(RankOf1(trace)) # None => RankOf1(trace) = Text(ParseI64(RankOf1(trace))[1])
  /\ \A i \in DOMAIN meta : meta[i].args # None => IsObject(meta[i].args[1])
  /\ \A e \in AllEvents(trace) :
       e.cat = Some(<<"gpu_user_annotation">>) => StreamInArgs(e.args) # None

\* For a supported trace the whole chain closes, whichever reader either file
\* gets: decompress succeeds, the restored file has the origin of the input, and
\* verify never says no of the input, of the restored file, or of the artifact
\* against either.  Of any trace at all, verify without an artifact says yes.
ChainCloses ==
  /\ artifact # None /\ Supported(Input) =>
       /\ ~failure
       /\ Restored => /\ FromFile("restored").ok
                      /\ FromFile("restored").startTs = Input.startTs
       /\ verdict = Some(FALSE) => verifying[1].file = "other"
  /\ verdict = Some(FALSE) => verifying[1].against = "artifact"

\* Of any trace, a restored file never holds a timestamp the input did not: the
\* wrapping subtraction on input and the checked sum on output undo each other
\* or the sum fails.
Absolute(trace) ==
  LET start == trace.startTs[RankOf1(trace)]
  IN  {Wrap64(e.ts + start) : e \in AllEvents(trace)}
WrittenTimes ==
  LET arr == Entry(docs["restored"], "traceEvents")[1].arr
  IN  {arr[i].obj["ts"].int : i \in {i \in DOMAIN arr : ~IsMetadata(arr[i].obj)}}
TimesAreInputTimes == Restored => WrittenTimes = Absolute(Input)

\* `decompress` is to "Reconstruct a Chrome trace JSON file from one PADOC
\* artifact" (main.rs:45); one that verify approved of it can reconstruct.
VerifiedIsReconstructed ==
  failure /\ verdict = Some(TRUE) => verifying # Some([file |-> "trace", against |-> "artifact"])
=============================================================================
