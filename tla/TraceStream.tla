----------------------------- MODULE TraceStream -----------------------------
(***************************************************************************)
(* The streaming reader of trace_stream.rs: a serde visitor that pulls one  *)
(* top-level entry, and within "traceEvents" one event, at a time and       *)
(* absorbs it at once.  Nothing is looked at twice: the origin of the       *)
(* timestamps is a running minimum, subtracted when the text is at its end. *)
(* A value of the wrong type ends the parse with an error.                  *)
(***************************************************************************)
EXTENDS ChromeJson

VARIABLES doc,       \* the document
          stem,      \* the file's stem, the rank of a document that names none
          entry,     \* the top-level entry next_key returns next
          element,   \* inside "traceEvents": the element next_element returns
          state,     \* ParserState
          result     \* None while parsing, then Some(what the reader returns)
parserVars == <<doc, stem, entry, element, state, result>>

NoStem == <<>>
Idle == stem = NoStem

ParserInit ==
  /\ doc = <<>> /\ stem = NoStem
  /\ entry = 1 /\ element = 0
  /\ state = ParserStart
  /\ result = None

-----------------------------------------------------------------------------
\* parse_chrome_trace_reader is called, and has returned.
Open(d, s) ==
  /\ Idle
  /\ doc' = d /\ stem' = s
  /\ UNCHANGED <<entry, element, state, result>>

Close ==
  /\ doc' = <<>> /\ stem' = NoStem
  /\ entry' = 1 /\ element' = 0
  /\ state' = ParserStart
  /\ result' = None

Busy == ~Idle /\ result = None
Parsing == Busy /\ element = 0 /\ entry <= Len(doc)

\* "distributedInfo": a rank of another type than integer or string clears
\* what an earlier entry set; no rank leaves it.
DistributedInfo ==
  /\ Parsing /\ doc[entry].key = "distributedInfo"
  /\ LET info == doc[entry].value
     IN  state' = IF IsObject(info) /\ "rank" \in DOMAIN info.obj
                  THEN [state EXCEPT !.rank = RankOf(Some(info))] ELSE state
  /\ entry' = entry + 1
  /\ UNCHANGED <<doc, stem, element, result>>

\* Any other key but "traceEvents" is skipped.
OtherEntry ==
  /\ Parsing /\ doc[entry].key \notin {"distributedInfo", "traceEvents"}
  /\ entry' = entry + 1
  /\ UNCHANGED <<doc, stem, element, state, result>>

TraceEvents ==
  /\ Parsing /\ doc[entry].key = "traceEvents"
  /\ IF Is(doc[entry].value, "arr")
     THEN element' = 1 /\ UNCHANGED result
     ELSE result' = Some(Failed) /\ UNCHANGED element
  /\ UNCHANGED <<doc, stem, entry, state>>

Elements == doc[entry].value.arr
InTraceEvents == Busy /\ element > 0

\* Mutant of NextElement: an element the deserializer refuses is skipped.
NextElementMutant ==
  /\ InTraceEvents /\ element <= Len(Elements)
  /\ state' = IF IsRawEvent(Elements[element])
              THEN Absorb(state, Elements[element].obj) ELSE state
  /\ element' = element + 1
  /\ UNCHANGED <<doc, stem, entry, result>>

NextElement ==
  /\ InTraceEvents /\ element <= Len(Elements)
  /\ IF IsRawEvent(Elements[element])
     THEN /\ state' = Absorb(state, Elements[element].obj)
          /\ element' = element + 1
          /\ UNCHANGED result
     ELSE result' = Some(Failed) /\ UNCHANGED <<state, element>>
  /\ UNCHANGED <<doc, stem, entry>>

EndOfArray ==
  /\ InTraceEvents /\ element > Len(Elements)
  /\ element' = 0
  /\ entry' = entry + 1
  /\ UNCHANGED <<doc, stem, state, result>>

EndOfText ==
  /\ Busy /\ element = 0 /\ entry > Len(doc)
  /\ result' = Some(Finished(state, stem))
  /\ UNCHANGED <<doc, stem, entry, element, state>>

ParserStep ==
  \/ DistributedInfo \/ OtherEntry \/ TraceEvents
  \/ NextElement \/ EndOfArray \/ EndOfText

-----------------------------------------------------------------------------
(* Properties.                                                              *)

ParserTypeOK ==
  /\ entry \in 1 .. Len(doc) + 1
  /\ element \in Nat
  /\ state.minTs \in Int64
  /\ \A e \in EventsOf(state.streams) : e.ts \in Int64
  /\ result # None => ~Idle /\ result[1].ok \in BOOLEAN

\* A document of the Chrome trace format: every field absent, null or of a type
\* the format gives it, integers within an i64, and no timestamp the largest
\* i64, which the streaming reader takes for "no event yet".
FormatKinds(field) ==
  CASE field \in {"name", "ph", "cat"} -> {"str", "nul"}
    [] field \in {"ts", "dur"}         -> {"int", "flt", "nul"}
    [] field = "pid"                   -> {"int", "flt", "str", "nul"}
    [] field = "tid"                   -> {"int", "str", "nul"}
    [] field = "args"                  -> {"obj"}
    [] OTHER                           -> AnyKind

ChromeTyped(d) ==
  LET events == Entry(d, "traceEvents") IN
  /\ events # None /\ Is(events[1], "arr")
  /\ \A i \in DOMAIN events[1].arr :
       /\ IsObject(events[1].arr[i])
       /\ LET obj == events[1].arr[i].obj IN
          /\ SimdI64(Get(obj, "ts")) # Some(MaxInt64)
          /\ \A field \in DOMAIN obj :
               /\ \E kind \in FormatKinds(field) : Is(obj[field], kind)
               /\ field # "tid" /\ Is(obj[field], "int") => obj[field].int \in Int64

\* On a document of the Chrome trace format the reader that keeps nothing but
\* a running minimum builds the trace the simd-json reader builds from the
\* whole tree: the same streams, metadata, rank and origin.
SameAsFullTree ==
  result # None /\ ChromeTyped(doc) => result[1] = SimdRead(doc, stem)

\* The serde_json reader for the largest files builds the same trace, of a
\* document with no number that is a float or a text where padoc keeps an i64.
Integral(d) ==
  LET arr == Entry(d, "traceEvents")[1].arr IN
  \A i \in DOMAIN arr :
    \A field \in DOMAIN arr[i].obj \cap {"ts", "dur", "pid"} :
      ~Is(arr[i].obj[field], "flt") /\ ~Is(arr[i].obj[field], "str")

SerdeMirrorsSimd ==
  ~Idle /\ ChromeTyped(doc) /\ Integral(doc) => SerdeRead(doc, stem) = SimdRead(doc, stem)

Names(trace) ==
  [rank \in DOMAIN trace.metadata |->
     [i \in DOMAIN trace.metadata[rank] |-> trace.metadata[rank][i].name]]

\* Off the format the readers part, but the streaming one is the stricter: of
\* a document with events that it accepts, the full-tree reader keeps as many
\* events, under the same rank, and records of the same names in the metadata.
StricterThanFullTree ==
  LET simd == SimdRead(doc, stem) IN
  result # None /\ result[1].ok /\ Entry(doc, "traceEvents") # None =>
    /\ simd.ok
    /\ EventCount(simd) = EventCount(result[1])
    /\ Names(simd) = Names(result[1])
=============================================================================
