------------------------------- MODULE Verify -------------------------------
(***************************************************************************)
(* The round-trip comparison of verify.rs.  Streams of both traces are      *)
(* collected under one key each, streams of one side only are listed, every *)
(* common stream is compared as a multiset of fingerprints, in the order a  *)
(* hash map yields them, and last the metadata of every rank is compared.   *)
(* The capped lists of examples the report carries are left out: they do    *)
(* not enter the verdict.                                                   *)
(***************************************************************************)
EXTENDS ChromeJson

CONSTANTS SortedKeys,   \* the argument keys that occur, in the order of their bytes
          KeyText       \* argument key -> its text, the "=" in it a token

ASSUME KeyAssumption ==
  /\ SortedKeys \in Seq(ToSet(SortedKeys)) /\ IsInjective(SortedKeys)
  /\ KeyText \in [ToSet(SortedKeys) -> Seq(STRING)] /\ IsInjective(KeyText)

VARIABLES original, reconstructed,   \* the traces compared, or NoTrace
          pending,     \* common streams compare_stream has not seen; None at first
          report,      \* VerifyReport
          verdict      \* None, then Some(is_ok())
verifyVars == <<original, reconstructed, pending, report, verdict>>

NoTrace == [ok |-> FALSE, ranks |-> <<>>, metadata |-> <<>>, startTs |-> <<>>]
EmptyReport == [matching |-> 0, mismatched |-> 0, missing |-> {}, extra |-> {},
                metadata |-> {}]

VerifyInit ==
  /\ original = NoTrace /\ reconstructed = NoTrace
  /\ pending = None
  /\ report = EmptyReport
  /\ verdict = None

\* compare_traces is called, and has returned.
CompareTraces(orig, recon) ==
  /\ original' = orig /\ reconstructed' = recon
  /\ UNCHANGED <<pending, report, verdict>>

Returned ==
  /\ original' = NoTrace /\ reconstructed' = NoTrace
  /\ pending' = None
  /\ report' = EmptyReport
  /\ verdict' = None

Comparing == original.ok /\ verdict = None

-----------------------------------------------------------------------------
\* "rank|pid|tid|ph" of collect_streams, the events of equal keys together.
StreamKey(rank, k) == rank \o <<"|">> \o Text(k[1]) \o <<"|">> \o k[2] \o <<"|", k[3]>>

CollectStreams(trace) ==
  LET coords == UNION {{<<rank, k>> : k \in DOMAIN trace.ranks[rank]} :
                         rank \in DOMAIN trace.ranks}
      Under(key) == {c \in coords : StreamKey(c[1], c[2]) = key}
  IN  [key \in {StreamKey(c[1], c[2]) : c \in coords} |->
         FoldSet(LAMBDA c, events : events \o trace.ranks[c[1]][c[2]], <<>>, Under(key))]

\* `Value::to_string`.  That of an array or an object is one token: it tells the
\* value and where it ends.
ValueText(v) == CASE Is(v, "int")  -> Text(v.int)
                  [] Is(v, "flt")  -> FloatText(v.flt, <<".0">>)
                  [] Is(v, "str")  -> <<"\"">> \o v.str \o <<"\"">>
                  [] Is(v, "bool") -> IF v.bool THEN <<"true">> ELSE <<"false">>
                  [] Is(v, "nul")  -> <<"null">>
                  [] OTHER         -> <<ToString(v)>>

\* The arguments in the order of their keys.
ArgsText(args) ==
  LET Write(text, k) ==
        IF k \in DOMAIN args
        THEN text \o KeyText[k] \o <<"=">> \o ValueText(args[k]) \o <<";">>
        ELSE text
  IN  FoldLeft(Write, <<>>, SortedKeys)

\* Mutant of Fingerprint: the duration is left out.
FingerprintMutant(e) ==
  LET sep == <<"01">> IN
  e.name \o sep \o Text(e.ts) \o sep \o sep \o <<e.ph>> \o sep
    \o Text(e.pid) \o sep \o e.tid \o sep \o UnwrapOr(e.cat, <<>>) \o sep
    \o (IF e.args = None THEN <<>> ELSE ArgsText(e.args[1]))

\* event_fingerprint: an absent optional field is written as nothing.
Fingerprint(e) ==
  LET sep == <<"01">>
      optional(n) == IF n = None THEN <<>> ELSE Text(n[1])
  IN  e.name \o sep \o Text(e.ts) \o sep \o optional(e.dur) \o sep \o <<e.ph>> \o sep
        \o Text(e.pid) \o sep \o e.tid \o sep \o UnwrapOr(e.cat, <<>>) \o sep
        \o (IF e.args = None THEN <<>> ELSE ArgsText(e.args[1]))

\* How many events of a stream have the fingerprint.
Count(events, fp) == Cardinality({i \in DOMAIN events : Fingerprint(events[i]) = fp})
Fingerprints(events) == {Fingerprint(events[i]) : i \in DOMAIN events}

-----------------------------------------------------------------------------
OrigStreams == CollectStreams(original)
ReconStreams == CollectStreams(reconstructed)

\* Missing and extra streams.
ListStreams ==
  /\ Comparing /\ pending = None
  /\ report' = [report EXCEPT !.missing = DOMAIN OrigStreams \ DOMAIN ReconStreams,
                              !.extra   = DOMAIN ReconStreams \ DOMAIN OrigStreams]
  /\ pending' = Some(DOMAIN OrigStreams \cap DOMAIN ReconStreams)
  /\ UNCHANGED <<original, reconstructed, verdict>>

\* Of the events with one fingerprint, n in the original and m in the
\* reconstruction: how many pair up, and how many are left over.
Matched(n, m) == Min({n, m})
Surplus(n, m) == Max({n, m}) - Min({n, m})

\* Mutant of AllFingerprints: only those of the original are walked.
OriginalFingerprints(orig, recon) == Fingerprints(orig)

AllFingerprints(orig, recon) == Fingerprints(orig) \cup Fingerprints(recon)

\* compare_stream.
CompareStream(key) ==
  LET orig  == OrigStreams[key]
      recon == ReconStreams[key]
      OverFingerprints(Op(_, _)) ==
        SumFunction([fp \in AllFingerprints(orig, recon) |->
                       Op(Count(orig, fp), Count(recon, fp))])
  IN  /\ Comparing /\ pending # None /\ key \in pending[1]
      /\ report' = [report EXCEPT !.matching = @ + OverFingerprints(Matched),
                                  !.mismatched = @ + OverFingerprints(Surplus)]
      /\ pending' = Some(pending[1] \ {key})
      /\ UNCHANGED <<original, reconstructed, verdict>>

\* VerifyReport::is_ok.
IsOk(r) ==
  /\ r.mismatched = 0 /\ r.missing = {} /\ r.extra = {} /\ r.metadata = {}
  /\ EventCount(original) = EventCount(reconstructed)

\* The metadata of every rank of either side, as Option<&Vec<_>>.
CompareMetadata ==
  /\ Comparing /\ pending = Some({})
  /\ LET Of(trace, rank) == Get(trace.metadata, rank)
         differ == {rank \in DOMAIN original.metadata \cup DOMAIN reconstructed.metadata :
                      Of(original, rank) # Of(reconstructed, rank)}
         r == [report EXCEPT !.metadata = differ]
     IN  report' = r /\ verdict' = Some(IsOk(r))
  /\ UNCHANGED <<original, reconstructed, pending>>

VerifyStep ==
  \/ ListStreams
  \/ \E key \in DOMAIN OrigStreams : CompareStream(key)
  \/ CompareMetadata

\* What the readers and decompress() hand over: finitely many ranks, of finitely
\* many streams each, and the metadata of some ranks.
IsTraceValue(trace) ==
  /\ trace.ok = TRUE
  /\ IsFiniteSet(DOMAIN trace.ranks)
  /\ \A rank \in DOMAIN trace.ranks :
       /\ IsFiniteSet(DOMAIN trace.ranks[rank])
       /\ \A k \in DOMAIN trace.ranks[rank] :
            trace.ranks[rank][k] \in Seq(ToSet(trace.ranks[rank][k]))
  /\ trace.metadata = [rank \in DOMAIN trace.metadata |-> trace.metadata[rank]]

\* compare_traces by itself, called on any two traces, again and again.
Called ==
  /\ ~original.ok
  /\ \E orig, recon : /\ IsTraceValue(orig) /\ IsTraceValue(recon)
                      /\ CompareTraces(orig, recon)

VerifyNext == Called \/ VerifyStep \/ (verdict # None /\ Returned)
VerifySpec == VerifyInit /\ [][VerifyNext]_verifyVars

-----------------------------------------------------------------------------
(* Properties.                                                              *)

VerifyTypeOK ==
  /\ ~original.ok => ~reconstructed.ok /\ pending = None /\ verdict = None
  /\ pending # None => pending[1] \subseteq DOMAIN OrigStreams
  /\ report.matching \in Nat /\ report.mismatched \in Nat
  /\ report.metadata \subseteq DOMAIN original.metadata \cup DOMAIN reconstructed.metadata
  /\ verdict # None => verdict[1] \in BOOLEAN

\* Two traces have the same events in the same streams, as multisets, under a
\* reading of the events' fields.
SameMultisets(Reading(_)) ==
  LET Times(events, e) == Cardinality({i \in DOMAIN events : Reading(events[i]) = Reading(e)})
  IN  /\ DOMAIN OrigStreams = DOMAIN ReconStreams
      /\ \A key \in DOMAIN OrigStreams :
           /\ Len(OrigStreams[key]) = Len(ReconStreams[key])
           /\ \A e \in ToSet(OrigStreams[key]) :
                Times(OrigStreams[key], e) = Times(ReconStreams[key], e)

\* What verify.rs:3-14 documents: orders do not matter, nor does it whether empty
\* arguments are there; everything else must match exactly.
Documented(e) == [e EXCEPT !.args = OrNone(@)]
SameContent ==
  /\ SameMultisets(Documented)
  /\ original.metadata = reconstructed.metadata
  /\ original.startTs = reconstructed.startTs

\* Where the code is blind, against that documentation: an empty category is
\* written like an absent one (verify.rs:176), the "=" in an argument key like the
\* one behind it (verify.rs:189), and origins are not compared at all.
EventsIn(trace) == UNION {EventsOf(trace.ranks[rank]) : rank \in DOMAIN trace.ranks}
EmptyCategory(e) == e.cat = Some(<<>>)
SeparatorInArgs(e) ==
  e.args # None /\ \E k \in DOMAIN e.args[1] \cap DOMAIN KeyText : "=" \in ToSet(KeyText[k])
Blind ==
  \/ \E e \in EventsIn(original) \cup EventsIn(reconstructed) :
       EmptyCategory(e) \/ SeparatorInArgs(e)
  \/ original.startTs # reconstructed.startTs

\* Traces with the same content always pass; and those that pass have the same
\* content, unless they differ in what the code is blind to.
VerdictIsRight ==
  /\ verdict # None /\ SameContent => verdict[1]
  /\ verdict = Some(TRUE) => SameContent \/ Blind

\* verify.rs:13-14: "Everything else (event count, name, cat, ts, dur, ph, pid, tid,
\* args, id, bp, s) must match exactly."
EverythingElseMatches == verdict = Some(TRUE) => SameMultisets(Documented)

\* Once every stream is compared each event of either side is counted: as half
\* of a match, as a mismatch, or in a missing or extra stream.
EveryEventCounted ==
  LET InStreams(streams, keys) == SumFunction([k \in keys |-> Len(streams[k])]) IN
  pending = Some({}) =>
    2 * report.matching + report.mismatched
      + InStreams(OrigStreams, report.missing) + InStreams(ReconStreams, report.extra)
      = EventCount(original) + EventCount(reconstructed)
=============================================================================
