------------------------------ MODULE TraceDir ------------------------------
(***************************************************************************)
(* Trace::from_dir of trace.rs: the trace files of a directory are listed   *)
(* in the order of their names, read one after the other, each by the       *)
(* reader its name and size select, and merged into one trace.  A small     *)
(* file is read at once, by the full-tree reader; a large or compressed one *)
(* event by event, by the reader of TraceStream.                            *)
(***************************************************************************)
EXTENDS TraceStream

CONSTANTS Directories   \* sets of entries [stem, ext, isFile, large, doc]

\* Names of files differ; a stem stands for its place in the order of the names.
ASSUME DirectoryAssumption ==
  \A entries \in Directories :
    /\ \A e \in entries : e.stem \in Nat /\ IsDocument(e.doc)
    /\ \A a, b \in entries : a.stem = b.stem /\ a.ext = b.ext => a = b

VARIABLES dir,        \* the entries of the directory
          todo,       \* None, then of the files list_trace_files returned those unread
          combined,   \* the trace merged so far
          read,       \* the traces merged into it, in order
          outcome     \* "loading", then "ok" or "error"
loadVars == <<dir, todo, combined, read, outcome>>
vars == <<loadVars, parserVars>>

Empty == [ranks |-> <<>>, metadata |-> <<>>, startTs |-> <<>>]

Init ==
  /\ dir \in Directories
  /\ todo = None
  /\ combined = Empty
  /\ read = <<>>
  /\ outcome = "loading"
  /\ ParserInit

-----------------------------------------------------------------------------
\* Files are read in the order of their names: by stem, and "x.json" before
\* "x.json.gz".
Extensions == {".json", ".json.gz"}
Before(a, b) ==
  \/ a.stem < b.stem
  \/ a.stem = b.stem /\ a.ext = ".json" /\ b.ext = ".json.gz"

ListTraceFiles(entries) == {e \in entries : e.isFile /\ e.ext \in Extensions}

\* Trace::from_file: compressed and large files are streamed.
Streamed(file) == file.ext = ".json.gz" \/ file.large

Pids(streams) == {k[1] : k \in DOMAIN streams}

\* `self.extend(other)` of a map.
Extend(self, other) ==
  [k \in DOMAIN self \cup DOMAIN other |-> IF k \in DOMAIN other THEN other[k] ELSE self[k]]

\* `ranks.entry(rank).or_default().extend(streams)`: a process of the same
\* number is replaced, with all its threads.
Extended(old, streams) ==
  Extend([k \in {k \in DOMAIN old : k[1] \notin Pids(streams)} |-> old[k]], streams)

JoinMetadata(self, other) ==
  [r \in DOMAIN self.metadata \cup DOMAIN other.metadata |->
     UnwrapOr(Get(self.metadata, r), <<>>) \o UnwrapOr(Get(other.metadata, r), <<>>)]

ExtendRanks(self, other) ==
  Extend(self.ranks, [r \in DOMAIN other.ranks |->
                        Extended(UnwrapOr(Get(self.ranks, r), NoStreams), other.ranks[r])])

\* Mutant of Merge: the origin of a rank is kept when it has one.
MergeFirstOrigin(self, other) ==
  [ranks    |-> ExtendRanks(self, other),
   metadata |-> JoinMetadata(self, other),
   startTs  |-> Extend(other.startTs, self.startTs)]

\* Mutant of Merge: one origin for the whole trace.
MergeOneOrigin(self, other) ==
  [ranks    |-> ExtendRanks(self, other),
   metadata |-> JoinMetadata(self, other),
   startTs  |-> [r \in DOMAIN self.startTs \cup DOMAIN other.startTs |->
                   other.startTs[CHOOSE o \in DOMAIN other.startTs : TRUE]]]

Merge(self, other) ==
  [ranks    |-> ExtendRanks(self, other),
   metadata |-> JoinMetadata(self, other),
   startTs  |-> Extend(self.startTs, other.startTs)]

-----------------------------------------------------------------------------
List ==
  /\ todo = None
  /\ todo' = Some(ListTraceFiles(dir))
  /\ UNCHANGED <<dir, combined, read, outcome, parserVars>>

Loading == todo # None /\ outcome = "loading"
ToRead == Loading /\ todo[1] # {}
File == CHOOSE f \in todo[1] : \A g \in todo[1] \ {f} : Before(f, g)

\* `let single = Self::from_file(&entry)?; combined.merge(single)`.
Take(single) ==
  /\ IF single.ok
     THEN /\ combined' = Merge(combined, single)
          /\ read' = Append(read, single)
          /\ todo' = Some(todo[1] \ {File})
          /\ UNCHANGED outcome
     ELSE outcome' = "error" /\ UNCHANGED <<combined, read, todo>>
  /\ UNCHANGED dir

ReadTree ==
  /\ ToRead /\ ~Streamed(File)
  /\ Take(SimdRead(File.doc, Text(File.stem)))
  /\ UNCHANGED parserVars

OpenStream ==
  /\ ToRead /\ Streamed(File)
  /\ Open(File.doc, Text(File.stem))
  /\ UNCHANGED loadVars

ReadStream == ParserStep /\ UNCHANGED loadVars

StreamEnds ==
  /\ result # None
  /\ Take(result[1])
  /\ Close

\* The file cannot be opened, or reading it fails on the way.
ReadFails ==
  /\ ToRead /\ result = None
  /\ outcome' = "error"
  /\ Close
  /\ UNCHANGED <<dir, todo, combined, read>>

Done ==
  /\ Loading /\ todo[1] = {}
  /\ outcome' = "ok"
  /\ UNCHANGED <<dir, todo, combined, read, parserVars>>

Next ==
  \/ List \/ ReadTree \/ OpenStream \/ ReadStream \/ StreamEnds
  \/ ReadFails \/ Done

Spec == Init /\ [][Next]_vars

-----------------------------------------------------------------------------
(* Properties.                                                              *)

TypeOK ==
  /\ ParserTypeOK
  /\ ~Idle => ToRead /\ doc = File.doc
  /\ outcome \in {"loading", "ok", "error"}
  /\ DOMAIN combined.ranks = DOMAIN combined.metadata
  /\ DOMAIN combined.ranks = DOMAIN combined.startTs
  /\ DOMAIN combined.ranks = UNION {DOMAIN read[i].ranks : i \in DOMAIN read}

RankOfRead(i) == CHOOSE r \in DOMAIN read[i].ranks : TRUE

\* A file keeps its rank to itself when no other file read so far has it: then
\* its streams, metadata and origin are in the combined trace as they were read,
\* whatever the other files hold and in whatever order they came.
OwnRankIsKept ==
  \A i \in DOMAIN read :
    LET r == RankOfRead(i) IN
    (\A j \in DOMAIN read \ {i} : RankOfRead(j) # r) =>
      /\ combined.ranks[r] = read[i].ranks[r]
      /\ combined.metadata[r] = read[i].metadata[r]
      /\ combined.startTs[r] = read[i].startTs[r]

\* When files share a rank, the last of them is whole and in step with the
\* origin, and no metadata is lost.
LastOfRankIsWhole ==
  \A i \in DOMAIN read :
    LET r == RankOfRead(i)
        last == \A j \in DOMAIN read : j > i => RankOfRead(j) # r
    IN  last => /\ \A k \in DOMAIN read[i].ranks[r] :
                     combined.ranks[r][k] = read[i].ranks[r][k]
                /\ combined.startTs[r] = read[i].startTs[r]
                /\ ToSet(read[i].metadata[r]) \subseteq ToSet(combined.metadata[r])
=============================================================================
