------------------------------ MODULE OutputFile ------------------------------
(***************************************************************************)
(* Processes that write to the same output path, under kills, I/O errors   *)
(* and a power loss: `padoc compress`, through write_to_path, and          *)
(* `padoc decompress`, through write_chrome_json (trace.rs, main.rs).      *)
(*                                                                         *)
(* A process creates at most one inode, which bears its name.  A file is   *)
(* NumChunks writes long, and every chunk knows who wrote it.  The system  *)
(* writes back in any order: a power loss leaves each chunk as it was in   *)
(* memory or as it was last synced, and keeps or loses the directory       *)
(* entry, which nobody syncs.                                              *)
(***************************************************************************)
EXTENDS Naturals, FiniteSets

CONSTANTS
  Compressors,    \* processes that run compress_file and write_to_path
  Decompressors,  \* processes that run decompress_file
  Missing,        \* no inode, or a chunk nobody wrote
  NumChunks,      \* bound: the writes that make up one file
  MayLosePower    \* whether the machine may lose power, once

Procs == Compressors \cup Decompressors

ASSUME ProcessAssumption ==
  Compressors \cap Decompressors = {} /\ Missing \notin Procs

ASSUME ChunkAssumption == NumChunks \in Nat \ {0} /\ MayLosePower \in BOOLEAN

VARIABLES
  pc,       \* where each process is
  handle,   \* the inode a process has open for writing
  written,  \* how many chunks it has written
  entry,    \* the inode the output path names
  temps,    \* the inodes that have a temporary name
  data,     \* the chunks of each inode, as a reader sees them
  synced,   \* the chunks of each inode that were made durable
  power     \* FALSE after the machine lost power

vars == <<pc, handle, written, entry, temps, data, synced, power>>

Chunks == 1..NumChunks

Blank == [c \in Chunks |-> Missing]

WholeFile(p) == [c \in Chunks |-> p]

Init ==
  /\ pc = [p \in Procs |-> "start"]
  /\ handle = [p \in Procs |-> Missing]
  /\ written = [p \in Procs |-> 0]
  /\ entry = Missing
  /\ temps = {}
  /\ data = [p \in Procs |-> Blank]
  /\ synced = [p \in Procs |-> Blank]
  /\ power = TRUE

Goto(p, label) == pc' = [pc EXCEPT ![p] = label]

\* ensure_output_is_new, before the input is read.
CheckOutput(p) ==
  /\ pc[p] = "start"
  /\ Goto(p, IF entry # Missing THEN "failed"
             ELSE IF p \in Compressors THEN "recheck" ELSE "create")
  /\ UNCHANGED <<handle, written, entry, temps, data, synced, power>>

\* write_to_path looks once more, after the trace was compressed.
Recheck(p) ==
  /\ pc[p] = "recheck"
  /\ Goto(p, IF entry # Missing THEN "failed" ELSE "create")
  /\ UNCHANGED <<handle, written, entry, temps, data, synced, power>>

\* NamedTempFile::new_in(parent).
CreateTemp(p) ==
  /\ pc[p] = "create" /\ p \in Compressors
  /\ temps' = temps \cup {p}
  /\ handle' = [handle EXCEPT ![p] = p]
  /\ Goto(p, "write")
  /\ UNCHANGED <<written, entry, data, synced, power>>

\* File::create(path): a file that appeared since the check is truncated.
CreateOutput(p) ==
  /\ pc[p] = "create" /\ p \in Decompressors
  /\ LET inode == IF entry = Missing THEN p ELSE entry
     IN  /\ entry' = inode
         /\ handle' = [handle EXCEPT ![p] = inode]
         /\ data' = [data EXCEPT ![inode] = Blank]
  /\ Goto(p, "write")
  /\ UNCHANGED <<written, temps, synced, power>>

\* Mutant of WriteChunk: it does not know when the file is complete.
WriteChunkEndless(p) ==
  /\ pc[p] = "write"
  /\ written' = [written EXCEPT ![p] = @ + 1]
  /\ data' = [data EXCEPT ![handle[p]] = [c \in Chunks |-> IF c = written'[p] THEN p ELSE @[c]]]
  /\ UNCHANGED <<pc, handle, entry, temps, synced, power>>

\* The header and the encoded payload, or the pieces of the JSON text.
WriteChunk(p) ==
  /\ pc[p] = "write"
  /\ written[p] < NumChunks
  /\ written' = [written EXCEPT ![p] = @ + 1]
  /\ data' = [data EXCEPT ![handle[p]][written[p] + 1] = p]
  /\ UNCHANGED <<pc, handle, entry, temps, synced, power>>

\* A decompressor is done after the last flush, a compressor goes on to sync.
FinishWriting(p) ==
  /\ pc[p] = "write"
  /\ written[p] = NumChunks
  /\ Goto(p, IF p \in Compressors THEN "sync" ELSE "ok")
  /\ UNCHANGED <<handle, written, entry, temps, data, synced, power>>

\* Mutant of Sync: the data is handed to the system and not made durable.
FlushOnly(p) ==
  /\ pc[p] = "sync"
  /\ Goto(p, "persist")
  /\ UNCHANGED <<handle, written, entry, temps, data, synced, power>>

\* sync_all on the temporary file.
Sync(p) ==
  /\ pc[p] = "sync"
  /\ synced' = [synced EXCEPT ![handle[p]] = data[handle[p]]]
  /\ Goto(p, "persist")
  /\ UNCHANGED <<handle, written, entry, temps, data, power>>

\* Mutants of Persist: a plain rename, and a refusal that leaves the file behind.
PersistClobber(p) ==
  /\ pc[p] = "persist"
  /\ entry' = handle[p]
  /\ Goto(p, "measure")
  /\ temps' = temps \ {p}
  /\ UNCHANGED <<handle, written, data, synced, power>>

PersistKeepTemp(p) ==
  /\ pc[p] = "persist"
  /\ IF entry = Missing
     THEN entry' = handle[p] /\ temps' = temps \ {p} /\ Goto(p, "measure")
     ELSE Goto(p, "failed") /\ UNCHANGED <<entry, temps>>
  /\ UNCHANGED <<handle, written, data, synced, power>>

\* persist_noclobber renames unless the path exists; a refused file is dropped.
Persist(p) ==
  /\ pc[p] = "persist"
  /\ IF entry = Missing
     THEN entry' = handle[p] /\ Goto(p, "measure")
     ELSE Goto(p, "failed") /\ UNCHANGED entry
  /\ temps' = temps \ {p}
  /\ UNCHANGED <<handle, written, data, synced, power>>

\* compress_file asks for the artifact's size before it reports success.
Measure(p) ==
  /\ pc[p] = "measure"
  /\ Goto(p, "ok")
  /\ UNCHANGED <<handle, written, entry, temps, data, synced, power>>

Running(p) == pc[p] \notin {"start", "ok", "failed", "killed"}

\* An error from any call returns at once.  Dropping a NamedTempFile unlinks it;
\* what a decompressor wrote stays, and so does an artifact that was persisted.
Fail(p) ==
  /\ Running(p)
  /\ Goto(p, "failed")
  /\ temps' = temps \ {p}
  /\ UNCHANGED <<handle, written, entry, data, synced, power>>

\* Nothing is dropped when the process is killed.
Kill(p) ==
  /\ Running(p)
  /\ Goto(p, "killed")
  /\ UNCHANGED <<handle, written, entry, temps, data, synced, power>>

\* Processes that have not started yet do so after the reboot.
PowerLoss ==
  /\ MayLosePower /\ power
  /\ power' = FALSE
  /\ pc' = [p \in Procs |-> IF Running(p) THEN "killed" ELSE pc[p]]
  /\ entry' \in {entry, Missing}
  /\ \E lost \in SUBSET (Procs \X Chunks) :
       data' = [p \in Procs |-> [c \in Chunks |->
                  IF <<p, c>> \in lost THEN synced[p][c] ELSE data[p][c]]]
  /\ UNCHANGED <<handle, written, temps, synced>>

Step(p) ==
  \/ CheckOutput(p) \/ Recheck(p)
  \/ CreateTemp(p) \/ CreateOutput(p)
  \/ WriteChunk(p) \/ FinishWriting(p)
  \/ Sync(p) \/ Persist(p) \/ Measure(p)

Next ==
  \/ \E p \in Procs : Step(p) \/ Fail(p) \/ Kill(p)
  \/ PowerLoss

Spec == Init /\ [][Next]_vars

-----------------------------------------------------------------------------
Labels == {"start", "recheck", "create", "write", "sync", "persist", "measure",
           "ok", "failed", "killed"}

\* Processes, inodes and chunks stay within their sets.
TypeOK ==
  /\ pc \in [Procs -> Labels]
  /\ handle \in [Procs -> Procs \cup {Missing}]
  /\ written \in [Procs -> 0..NumChunks]
  /\ entry \in Procs \cup {Missing}
  /\ temps \subseteq Compressors
  /\ data \in [Procs -> [Chunks -> Procs \cup {Missing}]]
  /\ synced \in [Procs -> [Chunks -> Procs \cup {Missing}]]
  /\ power \in BOOLEAN

\* A temporary file outlives its writer only when the writer was killed: on every
\* other way out of write_to_path it was renamed or removed.
TempsRemoved ==
  \A p \in temps : Running(p) \/ pc[p] = "killed"

\* A decompressor opened the file of p, which it may do after its only check.
Intruded(p) == \E d \in Decompressors : handle[d] = p

\* Until the power fails, a compressor that reported success left its artifact at
\* the path, so no two of them can: the loser of a race between path.exists and
\* persist_noclobber is told.  Only a decompressor that opened the file itself
\* can have changed it.
SuccessIsThere ==
  power => \A p \in Compressors :
    pc[p] = "ok" => entry = p /\ (data[p] = WholeFile(p) \/ Intruded(p))

\* What a reader of the path finds.
Visible ==
  IF entry = Missing THEN Missing
  ELSE IF Intruded(entry) THEN "foreign"
  ELSE IF data[entry] = WholeFile(entry) THEN entry ELSE "partial"

Once == INSTANCE WriteOnce
  WITH Writers <- Compressors, Others <- Decompressors,
       Nothing <- Missing, Foreign <- "foreign", file <- Visible

\* Compressors implement WriteOnce: unless a decompressor opened the file, no
\* reader ever finds part of an artifact, not even after a power loss, and none
\* is replaced.
WrittenOnce == Once!OnceSpec

\* Whatever stands at the path, and whoever put it there, no step of a compressor
\* touches it: persist_noclobber holds against decompressors as well.
CompressorsYield ==
  [][\A p \in Compressors :
       /\ entry # Missing /\ power' = power
       /\ pc'[p] # pc[p] \/ written'[p] # written[p]
       => entry' = entry /\ data'[entry] = data[entry]]_vars

\* CHANGELOG.md:23: output overwrites are rejected.  A file that was reported as
\* written is not changed by a process that writes to the same path.
OverwritesRejected ==
  [][\A p \in Procs :
       pc[p] = "ok" /\ data[handle[p]] = WholeFile(p) =>
         data'[handle[p]] = data[handle[p]]]_vars

=============================================================================
