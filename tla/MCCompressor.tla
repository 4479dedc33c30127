----------------------------- MODULE MCCompressor -----------------------------
(***************************************************************************)
(* Small traces for Compressor.  The events share signatures across CPU    *)
(* and GPU streams, differ by one optional field, by padding, by the kind  *)
(* of an argument whose payload is equal, or by width.  Others share       *)
(* templates across streams and processes, with durations that are absent, *)
(* equal, different or sum beyond an i64.  The trees of old artifacts stand *)
(* over one CPU and one GPU template with two instances each, with          *)
(* references that do not resolve and parallel arrays of unequal length.    *)
(***************************************************************************)
EXTENDS Analyses, Reconstruct

CONSTANTS gemm, sync   \* literal name stretches

MCI32Min == -2

MCLiterals == {gemm, sync}
MCStrings == {"kernel", ""}
MCArgKeys == {"a", "b"}
MCRanks == {"0", "1"}
MCTids == {"7", "stream 7", "stream 8"}
MCGpuTids == {"stream 7", "stream 8"}
MCPhases == {"X", "i"}

Digits10(z, n) == [ascii |-> TRUE, zeros |-> z, value |-> n]

Json(k, n) == [kind |-> k, v |-> n]

NoArgs == [k \in MCArgKeys |-> None]

Only(key, x) == [NoArgs EXCEPT ![key] = x]

Plain(name, ts) ==
  [name |-> name, ts |-> ts, dur |-> None, id |-> None, cat |-> None,
   bp |-> None, s |-> None, args |-> NoArgs]

\* gemm_7 and gemm_07, without and with dur, and a wide timestamp.
E1 == Plain(<<gemm, Digits10(0, 7)>>, 0)
E2 == Plain(<<gemm, Digits10(1, 7)>>, 9)
E3 == [Plain(<<gemm, Digits10(0, 12)>>, 0) EXCEPT !.dur = 0]
E4 == [E1 EXCEPT !.cat = ""]
\* The same keys with an integer, a float of equal payload, and null.
E5 == [Plain(<<sync>>, 3) EXCEPT !.args = Only("a", Json("int", 0))]
E6 == [E5 EXCEPT !.args = Only("a", Json("float", 0)), !.ts = -1]
E7 == [E5 EXCEPT !.args = Only("a", Json("null", 0)), !.id = 4]

At1 == [rank |-> "0", pid |-> 1, tid |-> "7", ph |-> "X"]
At2 == [rank |-> "0", pid |-> 0, tid |-> "stream 7", ph |-> "X"]
At3 == [rank |-> "1", pid |-> 5, tid |-> "stream 8", ph |-> "i"]

EventsUpTo(events, n) == UNION {[1..m -> events] : m \in 1..n}

\* A trace of one stream per coordinate of `ats`.
Streams(ats, lists) ==
  [i \in 1..Len(ats) |-> [at |-> ats[i], events |-> lists[i]]]

EventsIn(lists) == FoldSeq(LAMBDA l, sum : sum + Len(l), 0, lists)

Lists(n, events, m) == {l \in [1..n -> EventsUpTo(events, m)] : EventsIn(l) <= 3}

MCSignatures ==
  {Streams(<<At1, At2>>, l) : l \in Lists(2, {E1, E2, E3, E5, E6}, 2)}
    \cup {Streams(<<At2, At3>>, l) : l \in Lists(2, {E1, E2, E4, E7}, 2)}
    \cup {Streams(<<At1, At2, At3>>, l) : l \in Lists(3, {E2, E6}, 2)}
    \cup {Streams(<<At1>>, l) : l \in Lists(1, {E1, E2, E3, E6}, 3)}
    \cup {<<>>}

\* Durations on streams of one process or of two, under one phase or two.
For(name, dur) == [Plain(name, 0) EXCEPT !.dur = dur]
D1 == For(<<gemm>>, 3)
D2 == For(<<gemm>>, 15)
Timed ==
  {For(<<gemm>>, None), D1, D2, For(<<gemm, Digits10(0, 7)>>, -4), [D1 EXCEPT !.cat = "kernel"]}

Gpu7 == [rank |-> "0", pid |-> 1, tid |-> "stream 7", ph |-> "X"]
Gpu7Instant == [Gpu7 EXCEPT !.ph = "i"]
Gpu7Other == [Gpu7 EXCEPT !.pid = 2]
Gpu8 == [Gpu7 EXCEPT !.tid = "stream 8"]

TwoStreams(a, b) ==
  {Streams(<<a, b>>, <<l, m>>) : l \in EventsUpTo(Timed, 2), m \in EventsUpTo({D1, D2}, 2)}

MCDurations ==
  UNION {TwoStreams(At1, [At1 EXCEPT !.rank = "1", !.ph = "i"]), TwoStreams(Gpu7, At1),
         TwoStreams(Gpu7, Gpu7Other), TwoStreams(Gpu7, Gpu8), TwoStreams(Gpu7, Gpu7Instant)}

\* Few traces, for a compressor that is used again and again: what one call
\* leaves behind meets the events of the next.
MCLater ==
  {Streams(<<At1, At2>>, l) : l \in Lists(2, {E1, E6}, 2)}
    \cup {Streams(<<At2, At1>>, l) : l \in Lists(2, {E2, E5}, 1)}
    \cup {<<>>}

\* Trees over the table of one trace.
Called(ts) == Plain(<<gemm>>, ts)
MCOldTrace == Streams(<<At1, Gpu7, Gpu8>>, <<<<Called(1), Called(2)>>, <<Called(3)>>, <<Called(4)>>>>)

Cpu(t, i, children, slots) ==
  [k |-> "cpu", template |-> t, instance |-> i, children |-> children, slots |-> slots]
SameCpu(children, slots) ==
  [k |-> "same_cpu", template |-> 0, instances |-> <<0, 1>>,
   children |-> children, slots |-> slots]

Launch ==
  [k |-> "kernel_launch", cpu_template |-> 0, cpu_instance |-> 1,
   gpu_template |-> 1, gpu_instance |-> 0]
Launches ==
  [k |-> "kernels_launch", cpu_template |-> 0, cpu_instances |-> <<0, 1>>,
   gpu_templates |-> <<1, 1>>, gpu_instances |-> <<1>>]

Leaves ==
  {Cpu(0, 0, <<>>, <<>>), Cpu(1, 0, <<>>, <<>>), Cpu(2, 0, <<>>, <<>>), Launch, Launches,
   [k |-> "cpu_batch", templates |-> <<0, 0>>, instances |-> <<1>>],
   [k |-> "gpu", templates |-> <<1, 0, 1>>, instances |-> <<0, 0, 1>>]}

UpToOne(of) == {<<>>} \cup {<<node>> : node \in of}

Calls == {Cpu(0, 1, c, s) : c, s \in UpToOne(Leaves)}
Folded ==
  {SameCpu(c, <<>>) : c \in UpToOne(Leaves)}
    \cup {SameCpu(c, <<s, t>>) : c \in UpToOne({Launch, Cpu(0, 0, <<>>, <<>>)}),
                                 s, t \in UpToOne(Leaves)}

MCOldNodes ==
  Leaves \cup Calls \cup Folded
    \cup {[k |-> "root", children |-> <<a, b>>] : a \in Calls, b \in Leaves}
    \cup {[k |-> "root", children |-> <<Cpu(0, 0, <<a>>, <<>>)>>] : a \in Folded}

MCTraces == MCSignatures \cup MCDurations \cup MCLater \cup {MCOldTrace}
MCOldTraces == {MCOldTrace}

=============================================================================
