------------------------------ MODULE MCTraces ------------------------------
(***************************************************************************)
(* Traces on their way in, and through the commands.  A behaviour is one of *)
(* either: a directory that is loaded, or the commands of a user; the two   *)
(* share no state, so their steps are not interleaved.                      *)
(*                                                                         *)
(* The directories.  A directory with one compressed file, of at most two   *)
(* events: a base event with any one field (or the pair args and cat, which *)
(* name the lane together) of any shape, then an event of the same or of    *)
(* another lane.  And directories of up to three entries: files that name   *)
(* their rank or not, with the same processes or others, small and read as  *)
(* a tree or compressed and streamed, twins of one stem, a file no reader   *)
(* accepts, a subdirectory, a file of another kind.                         *)
(***************************************************************************)
EXTENDS MCRoundTrip, TraceDir

FileEvent == [name |-> text("k"), ph |-> text("X"), ts |-> Num(3), pid |-> Num(1), tid |-> Num(2)]

Shapes == {Num(0), Num(2), Num(-1), Num(MaxInt64), Num(MaxInt64 + 2), [flt |-> 3], [flt |-> 4],
           [flt |-> 4 * MaxInt64], text("2"), text("a"), [str |-> <<>>],
           [bool |-> TRUE], Null, [arr |-> <<>>], [obj |-> <<>>]}
Fields == {"name", "ph", "ts", "dur", "cat", "pid", "tid", "args", "sf"}

MCEvents ==
  {With(FileEvent, field, v) : field \in Fields, v \in Shapes}
  \cup {[f \in DOMAIN FileEvent \ {field} |-> FileEvent[f]] : field \in DOMAIN FileEvent}
  \cup {With(With(event, "args", [obj |-> [stream |-> v]]), "cat", text(c)) :
          event \in {FileEvent, With(FileEvent, "ph", text("M"))},
          v \in {Num(5), text("5"), [flt |-> 3], Null},
          c \in {"kernel", "gpu_user_annotation"}}
  \cup {With(With(FileEvent, "ph", text("M")), "args", v) : v \in {Null, Num(1), [obj |-> <<>>]}}

Elements1 == {[obj |-> e] : e \in MCEvents} \cup {Null, Num(1)}
Elements2 == {[obj |-> e] : e \in {FileEvent, With(FileEvent, "ts", Num(1)), With(FileEvent, "ph", text("M")),
                                   With(With(FileEvent, "ts", [flt |-> -3]), "pid", Num(0)),
                                   With(FileEvent, "ts", Num(MaxInt64 + 2))}}
Arrays == {<<>>} \cup {<<a>> : a \in Elements1}
          \cup {<<a, b>> : a \in Elements1, b \in Elements2}

\* The value of "traceEvents", the value of distributedInfo, and the order of
\* the two entries in the text.
events(v) == [key |-> "traceEvents", value |-> v]
info(v) == [key |-> "distributedInfo", value |-> v]
MCDocuments ==
  {<<events([arr |-> a])>> : a \in Arrays}
  \cup {<<info([obj |-> [rank |-> v]]), events([arr |-> <<[obj |-> FileEvent]>>])>> :
          v \in Shapes}
  \cup {<<events([arr |-> <<[obj |-> FileEvent]>>]), [key |-> "other", value |-> Null], info(v)>> :
          v \in Shapes}
  \cup {<<events(v)>> : v \in Shapes} \cup {<<info([obj |-> <<>>])>>, <<>>}
MCSingle == {{[stem |-> 0, ext |-> ".json.gz", isFile |-> TRUE, large |-> FALSE, doc |-> d]} :
               d \in MCDocuments}

-----------------------------------------------------------------------------
event(name, ts, pid) ==
  [obj |-> [name |-> text(name), ph |-> text("X"), ts |-> Num(ts), pid |-> Num(pid)]]
Record(name) == [obj |-> [name |-> text(name), ph |-> text("M")]]
FileDoc(start, elements) == start \o <<events([arr |-> elements])>>
FileRank(n) == <<info([obj |-> [rank |-> Num(n)]])>>

MCDocs == {FileDoc(start, elements) :
             start \in {<<>>, FileRank(0), FileRank(1)},
             elements \in {<<event("a", 2, 1), event("b", 3, 2)>>,
                           <<event("c", 5, 1), Record("r")>>, <<Null>>}}
Entries == [stem : {0, 1}, ext : {".json", ".json.gz"}, isFile : {TRUE}, large : {FALSE},
            doc : MCDocs]
           \cup [stem : {2}, ext : {".json", ".txt"}, isFile : {TRUE, FALSE},
                 large : {TRUE}, doc : {FileDoc(<<>>, <<event("d", 4, 1)>>)}]
SameName(a, b) == a.stem = b.stem /\ a.ext = b.ext
MCDirectories ==
  {{}} \cup {{a, b} : a \in Entries, b \in Entries}
  \cup {{a, b, c} : a \in {e \in Entries : e.stem = 0 /\ e.ext = ".json"},
                    b \in {e \in Entries : e.stem = 1},
                    c \in {e \in Entries : e.stem = 2 /\ e.isFile}}
MCNamed == {d \in MCDirectories : \A a \in d, b \in d : SameName(a, b) => a = b}

MCAll == MCSingle \cup MCNamed

-----------------------------------------------------------------------------
VARIABLE side   \* "directory" or "commands"

NoDirectory ==
  /\ dir = {} /\ todo = None /\ combined = Empty /\ read = <<>>
  /\ outcome = "loading" /\ ParserInit

NoFiles ==
  /\ docs = [trace |-> <<>>, other |-> <<>>] /\ readers = [f \in Files |-> "simd"]
  /\ artifact = None /\ failure = FALSE /\ verifying = None /\ VerifyInit

TracesInit ==
  \/ side = "directory" /\ Init /\ NoFiles
  \/ side = "commands" /\ NoDirectory /\ RoundTripInit

TracesNext ==
  \/ side = "directory" /\ Next /\ UNCHANGED <<side, roundTripVars>>
  \/ side = "commands" /\ RoundTripNext /\ UNCHANGED <<side, vars>>

TracesSpec == TracesInit /\ [][TracesNext]_<<side, vars, roundTripVars>>
=============================================================================
