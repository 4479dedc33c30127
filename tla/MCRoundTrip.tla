---------------------------- MODULE MCRoundTrip ----------------------------
(* Traces of up to two elements: plain events, a GPU kernel and annotations, *)
(* timestamps at the ends of an i64, floats, empty arguments, metadata with  *)
(* and without arguments; with and without a rank.  Then pairs of traces     *)
(* that differ in a stream, in a field of an event, in the number of equal   *)
(* events, in the metadata, or only in what fingerprints do not tell apart.  *)
EXTENDS RoundTrip

text(s) == [str |-> <<s>>]
Base == [name |-> text("k"), ts |-> Num(3), pid |-> Num(1), tid |-> Num(2)]
With(event, field, v) == (field :> v) @@ event
OnStream(event, stream) == With(event, "args", Obj([stream |-> stream]))
record == [name |-> text("process_name"), ph |-> text("M")]

Plain == {Base, With(Base, "ts", Num(1)), With(Base, "ts", [flt |-> -3]),
          With(With(Base, "dur", Num(0)), "cat", text("cpu_op")),
          With(With(Base, "tid", text("a")), "args", Obj([a |-> Null])),
          With(Base, "args", Obj(<<>>)),
          OnStream(With(Base, "cat", text("gpu_user_annotation")), Num(5))}
Metadata == {With(record, "args", v) : v \in {Obj([name |-> text("r")]), Num(1)}}
            \cup {record}
AtTheEnds == {With(Base, "ts", Num(MaxInt64)), With(Base, "ts", Num(-MaxInt64 - 1))}
Annotation == {With(Base, "cat", text("gpu_user_annotation"))}

Doc(info, elements) ==
  info \o <<[key |-> "traceEvents", value |-> [arr |-> [i \in DOMAIN elements |->
                                                        Obj(elements[i])]]]>>
Rank(v) == <<[key |-> "distributedInfo", value |-> Obj([rank |-> v])]>>
Of(elements) == {Doc(<<>>, <<a>>) : a \in elements}
                \cup {Doc(<<>>, <<a, b>>) : a \in elements, b \in elements}
Ranked == {Doc(Rank(v), <<Base>>) : v \in {Num(4), text("4"), [str |-> <<"0", "4">>], text("a")}}

MCSupported == Of(Plain) \cup Of(Metadata \cup {Base}) \cup Ranked
MCTimes == Of(AtTheEnds \cup {Base, With(Base, "ts", Num(1))})
MCTraces == MCSupported \cup MCTimes \cup {Doc(<<>>, <<>>)} \cup Of(Annotation)

Varied == {Base, With(Base, "ts", Num(4)), With(Base, "dur", Num(0)),
           With(Base, "cat", [str |-> <<>>]), With(Base, "tid", text("a")),
           With(Base, "args", Obj(<<>>)),
           With(Base, "args", Obj([a |-> Num(1), b |-> Num(2)])),
           With(Base, "args", Obj("a=1;b" :> Num(2))),
           With(Base, "args", Obj([a |-> [bool |-> TRUE], stream |-> [flt |-> -1]])),
           With(Base, "args", Obj([b |-> [arr |-> <<Num(1)>>]]))}
Compared == {Doc(<<>>, <<Base, e>>) : e \in Varied} \cup {Doc(<<>>, <<e>>) : e \in Varied}
            \cup {Doc(<<>>, <<e, e, Base>>) : e \in {Base, With(Base, "dur", Num(0))}}
            \cup {Doc(<<>>, <<>>), Doc(Rank(Num(4)), <<Base>>)}
            \cup {Doc(<<>>, <<Base, With(record, "args", v)>>) : v \in {Null, Num(1)}}
            \cup {Doc(<<>>, <<Base, record>>), Doc(<<>>, <<Base, record, record>>)}

MCInputs == (MCTraces \X {Doc(<<>>, <<Base>>)}) \cup (Compared \X Compared)
MCNoEvents == Of(Metadata) \X {Doc(<<>>, <<Base>>)}
MCStem == <<"rank">>

\* Two traces of one event that differ in a category that is empty or absent.
MCCategories == {<<Doc(<<>>, <<Base>>), Doc(<<>>, <<With(Base, "cat", [str |-> <<>>])>>)>>}

MCSortedKeys == <<"a", "a=1;b", "b", "stream">>
MCKeyText ==
  [k \in {"a", "b", "stream"} |-> <<k>>] @@ ("a=1;b" :> <<"a", "=", "1", ";", "b">>)
=============================================================================
