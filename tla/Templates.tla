------------------------------ MODULE Templates ------------------------------
(***************************************************************************)
(* Events, the signature that buckets them into templates, and what is     *)
(* done to one template: an event is appended (core.rs), and the columns   *)
(* are compacted at the end (finalize.rs).                                 *)
(*                                                                         *)
(* Names are sequences of tokens.  A token is a maximal digit run (see     *)
(* DigitRun in Columns) or a literal, any other stretch of characters.     *)
(* The args of an event give None to the keys it does not have: a missing  *)
(* args object and an empty one are the same event (verify.rs:12).         *)
(***************************************************************************)
EXTENDS Columns

CONSTANTS
  Literals,           \* the non-digit stretches of names
  Strings,            \* values of the cat, bp and s fields
  ArgKeys,            \* argument names
  EnableNamePattern,  \* CompressorConfig::enable_name_pattern
  EnableArgsDedup     \* CompressorConfig::enable_args_dedup

ASSUME LiteralAssumption == Literals \cap DigitRun = {}

ASSUME ConfigAssumption == EnableNamePattern \in BOOLEAN /\ EnableArgsDedup \in BOOLEAN

-----------------------------------------------------------------------------
\* Names.

Name == Seq(Literals \cup DigitRun)

\* What every digit run is collapsed to.
Placeholder == [ascii |-> TRUE, zeros |-> 0, value |-> 0]

NormalizeName(name) ==
  [p \in 1..Len(name) |-> IF name[p] \in DigitRun THEN Placeholder ELSE name[p]]

ExtractDigitRuns(name) ==
  [p \in {q \in 1..Len(name) : name[q] \in DigitRun} |-> name[p]]

RestoreDigits(pattern, nums) ==
  [p \in 1..Len(pattern) |->
     IF pattern[p] = Placeholder /\ p \in DOMAIN nums THEN nums[p] ELSE pattern[p]]

-----------------------------------------------------------------------------
\* The fields of an event that do not say which stream it belongs to.

Args == [ArgKeys -> JsonValue \cup {None}]

Keys(args) == {k \in ArgKeys : args[k] # None}

Event ==
  [name : Name, ts : Int, dur : Int \cup {None}, id : Int \cup {None},
   cat : Strings \cup {None}, bp : Strings \cup {None}, s : Strings \cup {None},
   args : Args]

\* Mutant of TemplateSignature: whether an event has a duration is left out.
SignatureWithoutDur(e) ==
  [normalized_name |-> NormalizeName(e.name),
   cat |-> e.cat, bp |-> e.bp, s |-> e.s,
   has_dur |-> FALSE, has_id |-> e.id # None,
   arg_keys |-> Keys(e.args)]

TemplateSignature(e) ==
  [normalized_name |-> NormalizeName(e.name),
   cat |-> e.cat, bp |-> e.bp, s |-> e.s,
   has_dur |-> e.dur # None, has_id |-> e.id # None,
   arg_keys |-> Keys(e.args)]

-----------------------------------------------------------------------------
\* Templates.  MergeEvent and MergeKernelEvent share every field but the last
\* three, which a CPU template leaves empty.

NewTemplate(kind, e) ==
  LET sig == TemplateSignature(e)
  IN  [kind |-> kind, name_pattern |-> sig.normalized_name,
       cat |-> e.cat, bp |-> e.bp, s |-> e.s, arg_keys |-> sig.arg_keys,
       name_nums |-> NameNumsEmpty,
       args_columns |-> [k \in sig.arg_keys |-> ArgEmpty],
       ts |-> NumEmpty, dur |-> NumEmpty, id |-> NumEmpty,
       pid |-> NumEmpty, stream_tid |-> RunEmpty, ph |-> RunEmpty]

InstanceCount(t) == NumLen(t.ts)

\* An optional field adds a cell only to the events that have it.
PushOption(c, v) == IF v = None THEN c ELSE NumPush(c, v)

AppendArgs(columns, e) ==
  [k \in DOMAIN columns |->
     ArgPush(columns[k], IF e.args[k] = None THEN JsonNull ELSE e.args[k])]

AppendToMerge(t, e) ==
  [t EXCEPT !.ts = NumPush(@, e.ts),
            !.dur = PushOption(@, e.dur),
            !.id = PushOption(@, e.id),
            !.args_columns = AppendArgs(@, e),
            !.name_nums = PushNameNums(@, ExtractDigitRuns(e.name))]

\* A GPU event also stores where it came from.
AppendToKernel(t, e, at) ==
  [AppendToMerge(t, e) EXCEPT !.pid = NumPush(@, at.pid),
                              !.stream_tid = RunPush(@, at.tid),
                              !.ph = RunPush(@, at.ph)]

FinalizeNameNums(c) == IF EnableNamePattern THEN CompressNameNums(c) ELSE c

FinalizeArgs(columns) ==
  IF EnableArgsDedup THEN [k \in DOMAIN columns |-> ArgCompact(columns[k])]
  ELSE columns

CpuTemplate(t) ==
  [t EXCEPT !.name_nums = FinalizeNameNums(@),
            !.args_columns = FinalizeArgs(@),
            !.ts = NumCompact(@), !.dur = NumCompact(@), !.id = NumCompact(@)]

GpuTemplate(t) ==
  [CpuTemplate(t) EXCEPT !.pid = NumCompact(@),
                         !.stream_tid = RunCompact(@),
                         !.ph = RunCompact(@)]

=============================================================================
