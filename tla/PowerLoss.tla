------------------------------ MODULE PowerLoss ------------------------------
(***************************************************************************)
(* What a power loss leaves of `padoc compress-dir`.  Workers write their   *)
(* artifacts to temporary files of the staging directory, flush them to the *)
(* disk and give them their names (write_to_path in trace.rs); then the     *)
(* main thread writes the manifest and renames the directory, flushing      *)
(* neither (write_new_json and compress_directory in main.rs).              *)
(*                                                                         *)
(* The file system is not part of the program.  It is taken to journal the  *)
(* changes of directories and to commit them in order, at any time; the     *)
(* bytes of a file reach the disk at any time, and at the latest when       *)
(* sync_all returns.  The disk of every state is what is found again if the *)
(* power goes in that state.                                                *)
(***************************************************************************)
EXTENDS Naturals, Sequences

CONSTANTS
  Artifacts,  \* one for each input file
  Manifest    \* manifest.json, as an entry of the staging directory

ASSUME ManifestAssumption == Manifest \notin Artifacts

VARIABLES
  step,       \* per file, how far write_to_path is
  main,       \* how far the main thread is
  journal,    \* directory changes in order: the names given, then Published
  committed,  \* how many of them are on the disk
  data        \* the files all bytes of which are on the disk
lossVars == <<step, main, journal, committed, data>>

Published == <<"published">>
Named(x) == <<"named", x>>

LossInit ==
  /\ step = [f \in Artifacts |-> "absent"]
  /\ main = "pool"
  /\ journal = <<>> /\ committed = 0
  /\ data = {}

-----------------------------------------------------------------------------
Advance(f, from, to) == step[f] = from /\ step' = [step EXCEPT ![f] = to]

\* The temporary file with header and frame, finish() and into_inner().
WriteTemp(f) ==
  /\ Advance(f, "absent", "written")
  /\ UNCHANGED <<main, journal, committed, data>>

\* Mutant of SyncAll: the file is flushed to the system only.
SyncAllMutant(f) ==
  /\ Advance(f, "written", "synced")
  /\ UNCHANGED <<main, journal, committed, data>>

\* sync_all
SyncAll(f) ==
  /\ Advance(f, "written", "synced")
  /\ data' = data \cup {f}
  /\ UNCHANGED <<main, journal, committed>>

\* persist_noclobber
Persist(f) ==
  /\ Advance(f, "synced", "named")
  /\ journal' = Append(journal, Named(f))
  /\ UNCHANGED <<main, committed, data>>

\* Mutant of CreateManifest: the pool is not waited for.
CreateManifestMutant ==
  /\ main = "pool" /\ \A f \in Artifacts : step[f] # "absent"
  /\ main' = "created"
  /\ journal' = Append(journal, Named(Manifest))
  /\ UNCHANGED <<step, committed, data>>

\* The pool has collected every entry; create_new.
CreateManifest ==
  /\ main = "pool" /\ \A f \in Artifacts : step[f] = "named"
  /\ main' = "created"
  /\ journal' = Append(journal, Named(Manifest))
  /\ UNCHANGED <<step, committed, data>>

\* to_writer_pretty and flush.
FillManifest ==
  /\ main = "created"
  /\ main' = "written"
  /\ UNCHANGED <<step, journal, committed, data>>

\* rename
RenameStaging ==
  /\ main = "written"
  /\ main' = "published"
  /\ journal' = Append(journal, Published)
  /\ UNCHANGED <<step, committed, data>>

\* The system commits the next directory change.
Commit ==
  /\ committed < Len(journal)
  /\ committed' = committed + 1
  /\ UNCHANGED <<step, main, journal, data>>

\* The system writes a file's bytes back, all of which were given to it.
WriteBack(x) ==
  /\ \/ x \in Artifacts /\ step[x] # "absent"
     \/ x = Manifest /\ main \in {"written", "published"}
  /\ data' = data \cup {x}
  /\ UNCHANGED <<step, main, journal, committed>>

LossNext ==
  \/ \E f \in Artifacts : WriteTemp(f) \/ SyncAll(f) \/ Persist(f)
  \/ CreateManifest \/ FillManifest \/ RenameStaging
  \/ Commit
  \/ \E x \in Artifacts \cup {Manifest} : WriteBack(x)

LossSpec == LossInit /\ [][LossNext]_lossVars

-----------------------------------------------------------------------------
(* Properties.                                                              *)

LossTypeOK ==
  /\ step \in [Artifacts -> {"absent", "written", "synced", "named"}]
  /\ main \in {"pool", "created", "written", "published"}
  /\ journal \in Seq({Published} \cup {Named(x) : x \in Artifacts \cup {Manifest}})
  /\ committed \in 0..Len(journal)
  /\ data \subseteq Artifacts \cup {Manifest}

OnDisk == {journal[n] : n \in 1..committed}

\* After a power loss every file with the name of an artifact holds the whole
\* artifact, in a staging directory that was left as well as in a published one.
ArtifactsWhole == \A f \in Artifacts : Named(f) \in OnDisk => f \in data

\* A manifest found again, torn or whole, stands in a directory with every
\* artifact, and so does a published directory.
ManifestVouches ==
  Named(Manifest) \in OnDisk \/ Published \in OnDisk =>
    \A f \in Artifacts : Named(f) \in OnDisk /\ f \in data
=============================================================================
