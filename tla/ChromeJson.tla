----------------------------- MODULE ChromeJson -----------------------------
(***************************************************************************)
(* Chrome trace JSON as the three readers of padoc see it: the simd-json    *)
(* full-tree reader and the serde_json full-tree reader of trace.rs, and    *)
(* the conversions of the streaming reader of trace_stream.rs.              *)
(*                                                                         *)
(* A JSON value is a record with one field, its kind: [int |-> 3],          *)
(* [flt |-> h] for the number h/2, [str |-> text], [bool |-> b],            *)
(* [nul |-> 0], [arr |-> sequence], [obj |-> function from keys].  A text   *)
(* is a sequence of tokens, so that "stream 7" is <<"stream", "7">> and     *)
(* "07" is <<"0", "7">>.  Integers are those a u64 or an i64 can hold; an   *)
(* i64 reaches from -MaxInt64-1 to MaxInt64.                                *)
(*                                                                         *)
(* Of an event's optional fields the model keeps "dur", which stands for    *)
(* "id" too (read by the same code), and "cat", which stands for "bp" and   *)
(* "s".                                                                     *)
(***************************************************************************)
EXTENDS Integers, Sequences, SequencesExt, FiniteSetsExt, TLC

CONSTANT MaxInt64
ASSUME MaxInt64Assumption == MaxInt64 \in Nat \ {0}

Int64 == (-MaxInt64 - 1) .. MaxInt64

\* Mutant of Wrap64: the value keeps its width.
Wrap64Mutant(n) == n

\* `as i64` and the release build's subtraction.
Wrap64(n) == ((n + MaxInt64 + 1) % (2 * (MaxInt64 + 1))) - (MaxInt64 + 1)

Saturate64(n) == IF n > MaxInt64 THEN MaxInt64
                 ELSE IF n < -MaxInt64 - 1 THEN -MaxInt64 - 1 ELSE n

None == <<>>
Some(x) == <<x>>
UnwrapOr(opt, default) == IF opt = None THEN default ELSE opt[1]
OrElse(a, b) == IF a = None THEN b ELSE a
OrNone(opt) == IF opt = Some(<<>>) THEN None ELSE opt

Is(v, kind) == DOMAIN v = {kind}
Get(obj, key) == IF key \in DOMAIN obj THEN Some(obj[key]) ELSE None
IsObject(v) == Is(v, "obj")
Null == [nul |-> 0]

-----------------------------------------------------------------------------
(* The accessors both libraries offer on a value that may be absent.        *)

Text(n) == <<ToString(n)>>

AsStr(opt) == IF opt # None /\ Is(opt[1], "str") THEN Some(opt[1].str) ELSE None

AsI64(opt) ==
  IF opt # None /\ Is(opt[1], "int") /\ opt[1].int \in Int64
  THEN Some(opt[1].int) ELSE None

\* `as_f64().map(|f| f as i64)`: truncation towards zero, saturating.
Truncated(h) == Saturate64(IF h >= 0 THEN h \div 2 ELSE -((-h) \div 2))
AsF64Truncated(opt) ==
  IF opt # None /\ Is(opt[1], "flt") THEN Some(Truncated(opt[1].flt)) ELSE None

\* `str::parse::<i64>`, which accepts leading zeros.
ParseI64(text) ==
  LET Readings == {n \in Int64 : text = Text(n) \/ text = <<"0">> \o Text(n)}
  IN  IF Readings = {} THEN None ELSE Some(CHOOSE n \in Readings : TRUE)

\* `{}` of a float: f64 omits a zero fraction, serde_json::Number prints it.
FloatText(h, zeroFraction) ==
  LET size == IF h < 0 THEN -h ELSE h
  IN  (IF h < 0 THEN <<"-">> ELSE <<>>) \o Text(size \div 2)
        \o IF size % 2 = 1 THEN <<".5">> ELSE zeroFraction

-----------------------------------------------------------------------------
(* The fields of one event, per reader: "simd", "serde" or "stream".        *)

\* ts, dur and id.
SimdI64(opt) == OrElse(AsI64(opt), AsF64Truncated(opt))

\* Mutant of SerdeI64: `as_u64().map(|n| n as i64)`.
SerdeU64(opt) ==
  IF opt # None /\ Is(opt[1], "int") /\ opt[1].int >= 0
  THEN Some(Wrap64(opt[1].int)) ELSE None

SerdeI64(opt) == AsI64(opt)

StreamI64(opt) ==
  IF opt = None THEN None
  ELSE CASE Is(opt[1], "int")  -> Some(Wrap64(opt[1].int))
         [] Is(opt[1], "flt")  -> AsF64Truncated(opt)
         [] Is(opt[1], "str")  -> Some(UnwrapOr(ParseI64(opt[1].str), 0))
         [] Is(opt[1], "bool") -> Some(0)
         [] OTHER              -> None

LossyI64(reader, opt) ==
  CASE reader = "simd"   -> SimdI64(opt)
    [] reader = "serde"  -> SerdeI64(opt)
    [] reader = "stream" -> StreamI64(opt)

Pid(reader, opt) ==
  UnwrapOr(IF reader # "simd" THEN LossyI64(reader, opt)
           ELSE LET s == AsStr(opt)
                IN  OrElse(SimdI64(opt),
                           IF s = None THEN None ELSE ParseI64(s[1])), 0)

\* The thread id as written, before GPU lanes are renamed.
RawTid(reader, opt) ==
  IF opt = None THEN <<"0">>
  ELSE CASE Is(opt[1], "str") -> opt[1].str
         [] Is(opt[1], "int") -> Text(opt[1].int)
         [] Is(opt[1], "flt") /\ reader = "stream" -> FloatText(opt[1].flt, <<>>)
         [] Is(opt[1], "flt") /\ reader = "serde"  -> FloatText(opt[1].flt, <<".0">>)
         [] OTHER -> <<"0">>

\* Phase: the first byte of "ph", a complete event when there is none.
Phase(opt) == LET s == AsStr(opt) IN IF s \in {None, Some(<<>>)} THEN "X" ELSE s[1][1]

\* The argument map of an event; a value that is no object counts as absent.
Args(opt) == IF opt # None /\ IsObject(opt[1]) THEN Some(opt[1].obj) ELSE None

\* `args.stream`, an integer or a string, names the GPU stream.
StreamInArgs(args) ==
  LET v == IF args = None THEN None ELSE Get(args[1], "stream")
      n == AsI64(v)
  IN  IF n # None THEN Some(Text(n[1])) ELSE AsStr(v)

\* The lane an event goes to.
Lane(rawTid, args, cat) ==
  IF StreamInArgs(args) # None THEN <<"stream">> \o StreamInArgs(args)[1]
  ELSE IF cat = Some(<<"gpu_user_annotation">>) THEN <<"stream">> \o rawTid
  ELSE rawTid

\* build_event: an event, its timestamp still absolute.
Event(reader, obj) ==
  [name |-> UnwrapOr(AsStr(Get(obj, "name")), <<>>),
   ts   |-> UnwrapOr(LossyI64(reader, Get(obj, "ts")), 0),
   dur  |-> LossyI64(reader, Get(obj, "dur")),
   cat  |-> AsStr(Get(obj, "cat")),
   ph   |-> Phase(Get(obj, "ph")),
   pid  |-> Pid(reader, Get(obj, "pid")),
   tid  |-> Lane(RawTid(reader, Get(obj, "tid")), Args(Get(obj, "args")),
                 AsStr(Get(obj, "cat"))),
   args |-> Args(Get(obj, "args"))]

\* A metadata record keeps its coordinates as written.  The full-tree readers
\* keep any value of "args", null included; the streaming one an object only.
MetadataEvent(reader, obj) ==
  [name |-> UnwrapOr(AsStr(Get(obj, "name")), <<>>),
   pid  |-> Pid(reader, Get(obj, "pid")),
   tid  |-> RawTid(reader, Get(obj, "tid")),
   args |-> IF reader = "stream" /\ Args(Get(obj, "args")) = None THEN None
            ELSE Get(obj, "args")]

IsMetadata(obj) == Phase(Get(obj, "ph")) = "M"

-----------------------------------------------------------------------------
(* Traces.  A trace maps ranks to streams, streams map coordinates to event *)
(* sequences.  The insertion order of the maps follows the input in every   *)
(* reader and is left out.                                                  *)

KeyOf(e) == <<e.pid, e.tid, e.ph>>

\* `streams.entry(pid).or_default()....push(event)`
Push(streams, e) ==
  [k \in DOMAIN streams \cup {KeyOf(e)} |->
     IF k = KeyOf(e) THEN Append(UnwrapOr(Get(streams, k), <<>>), e) ELSE streams[k]]

NoStreams == <<>>

\* What a reader returns of a file: an error, or a trace with one rank.  The
\* three maps of a trace have one entry per rank.
Failed == [ok |-> FALSE]
Trace(rank, streams, metadata, startTs) ==
  [ok |-> TRUE, ranks |-> [r \in {rank} |-> streams],
   metadata |-> [r \in {rank} |-> metadata], startTs |-> [r \in {rank} |-> startTs]]

\* Trace::event_count.
Total(streams) == SumFunction([k \in DOMAIN streams |-> Len(streams[k])])
EventCount(trace) == SumFunction([rank \in DOMAIN trace.ranks |-> Total(trace.ranks[rank])])

\* `s.event.ts -= start_ts`, in a release build.
Shifted(e, startTs) == [e EXCEPT !.ts = Wrap64(@ - startTs)]

EventsOf(streams) == UNION {ToSet(streams[k]) : k \in DOMAIN streams}

-----------------------------------------------------------------------------
(* A document: its top-level entries in the order of the text, each a       *)
(* record [key, value].                                                     *)

Entry(doc, key) ==
  LET hits == {i \in DOMAIN doc : doc[i].key = key}
  IN  IF hits = {} THEN None ELSE Some(doc[CHOOSE i \in hits : TRUE].value)

\* What the parsers of JSON hand over: numbers are numbers, arrays are sequences,
\* and the keys of the document differ.
IsNumeric(v) == (Is(v, "int") => v.int \in Int) /\ (Is(v, "flt") => v.flt \in Int)

IsDocument(doc) ==
  /\ doc \in Seq(ToSet(doc))
  /\ \A i, j \in DOMAIN doc : doc[i].key = doc[j].key => i = j
  /\ \A i \in DOMAIN doc :
       Is(doc[i].value, "arr") =>
         LET arr == doc[i].value.arr IN
         /\ arr \in Seq(ToSet(arr))
         /\ \A k \in DOMAIN arr :
              IsObject(arr[k]) => \A f \in DOMAIN arr[k].obj : IsNumeric(arr[k].obj[f])

\* `rank.as_i64().map(to_string).or_else(as_str)` of distributedInfo.rank.
RankOf(info) ==
  LET v == IF info # None /\ IsObject(info[1]) THEN Get(info[1].obj, "rank") ELSE None
      n == AsI64(v)
  IN  IF n # None THEN Some(Text(n[1])) ELSE AsStr(v)

\* One turn of the loop over the elements of "traceEvents".
Stage(reader, st, v) ==
  IF ~IsObject(v) THEN st
  ELSE IF IsMetadata(v.obj)
       THEN [st EXCEPT !.metadata = Append(@, MetadataEvent(reader, v.obj))]
       ELSE [st EXCEPT !.staging = Append(@, Event(reader, v.obj))]

StageStart == [staging |-> <<>>, metadata |-> <<>>]
Staged(reader, arr) == FoldLeft(LAMBDA st, v : Stage(reader, st, v), StageStart, arr)

LeastTs(staging) ==
  IF staging = <<>> THEN 0 ELSE Min({staging[i].ts : i \in DOMAIN staging})

PushAll(staging, startTs) ==
  FoldLeft(LAMBDA streams, e : Push(streams, Shifted(e, startTs)), NoStreams, staging)

\* The full-tree readers: first every event into a staging area, then the
\* origin (the least timestamp) is subtracted, then the streams are filled.
FullTree(reader, doc, stem) ==
  LET events  == Entry(doc, "traceEvents")
      st      == Staged(reader, events[1].arr)
      startTs == LeastTs(st.staging)
  IN  IF events = None \/ ~Is(events[1], "arr") THEN Failed
      ELSE Trace(UnwrapOr(RankOf(Entry(doc, "distributedInfo")), stem),
                 PushAll(st.staging, startTs), st.metadata, startTs)

\* parse_chrome_trace_bytes and parse_chrome_trace_bytes_serde.
SimdRead(doc, stem) == FullTree("simd", doc, stem)
SerdeRead(doc, stem) == FullTree("serde", doc, stem)

-----------------------------------------------------------------------------
(* The streaming reader, trace_stream.rs, one event at a time.  An event    *)
(* with a field of a type RawEvent does not take is refused; fields it does *)
(* not name are ignored.                                                    *)

AnyKind == {"int", "flt", "str", "bool", "nul", "arr", "obj"}

Kinds(field) ==
  CASE field \in {"name", "ph", "cat"} -> {"str", "nul"}
    [] field \in {"ts", "dur", "pid"}  -> {"int", "flt", "str", "bool", "nul"}
    [] field = "tid"                   -> {"int", "flt", "str", "nul"}
    [] field = "args"                  -> {"obj", "nul"}
    [] OTHER                           -> AnyKind

IsRawEvent(v) ==
  /\ IsObject(v)
  /\ \A field \in DOMAIN v.obj : \E kind \in Kinds(field) : Is(v.obj[field], kind)

\* ParserState: the rank, streams and metadata so far and the running minimum.
ParserStart == [rank |-> None, streams |-> NoStreams, metadata |-> <<>>,
                minTs |-> MaxInt64]

\* Mutant of Absorb: the minimum is also taken over metadata records.
AbsorbMutant(st, obj) ==
  LET e == Event("stream", obj) IN
  IF IsMetadata(obj)
  THEN [st EXCEPT !.metadata = Append(@, MetadataEvent("stream", obj)),
                  !.minTs = Min({@, e.ts})]
  ELSE [st EXCEPT !.streams = Push(@, e), !.minTs = Min({@, e.ts})]

\* ParserState::absorb.
Absorb(st, obj) ==
  IF IsMetadata(obj)
  THEN [st EXCEPT !.metadata = Append(@, MetadataEvent("stream", obj))]
  ELSE LET e == Event("stream", obj)
       IN  [st EXCEPT !.streams = Push(@, e), !.minTs = Min({@, e.ts})]

\* The end of parse_chrome_trace_reader.
StartTs(st) == IF st.minTs = MaxInt64 THEN 0 ELSE st.minTs
Finished(st, stem) ==
  LET start == StartTs(st)
      Rebased(e) == Shifted(e, start)
  IN  Trace(UnwrapOr(st.rank, stem),
            [k \in DOMAIN st.streams |->
               [i \in DOMAIN st.streams[k] |-> Rebased(st.streams[k][i])]],
            st.metadata, start)

\* The whole parse, for the modules that load files.
StreamRead(doc, stem) ==
  LET events == Entry(doc, "traceEvents")
      objs   == IF events = None \/ ~Is(events[1], "arr") THEN <<>> ELSE events[1].arr
      AbsorbValue(st, v) == Absorb(st, v.obj)
      ranked == [ParserStart EXCEPT !.rank = RankOf(Entry(doc, "distributedInfo"))]
  IN  IF \/ events # None /\ ~Is(events[1], "arr")
         \/ \E i \in DOMAIN objs : ~IsRawEvent(objs[i])
      THEN Failed ELSE Finished(FoldLeft(AbsorbValue, ranked, objs), stem)
=============================================================================
