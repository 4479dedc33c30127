------------------------------ MODULE CompressDir ------------------------------
(***************************************************************************)
(* `padoc compress-dir` (compress_directory and compress_file in main.rs): *)
(* the main thread builds a staging directory, a pool of workers           *)
(* compresses each file into it, and the directory is renamed to the       *)
(* output path after everything succeeded.  Templates are compacted with   *)
(* par_iter_mut on the same pool (finalize_templates in core.rs).  Files   *)
(* may be unreadable, another process may take the output path, and the    *)
(* process may be killed.                                                  *)
(***************************************************************************)
EXTENDS WorkPool

CONSTANTS
  MayFail,   \* the files that may turn out unreadable or unwritable
  Rivalry,   \* whether another process may create the output path
  MayDie     \* whether the process may be killed

Files == 1..NumFiles

ASSUME FailureAssumption ==
  MayFail \subseteq Files /\ Rivalry \in BOOLEAN /\ MayDie \in BOOLEAN

VARIABLES
  stage,      \* where the main thread is, or how the process ended
  output,     \* what the output path names
  staging,    \* whether the staging directory exists
  artifacts,  \* the files with an artifact in it, and later in the output
  manifest,   \* the entries of manifest.json in it; {} without a manifest
  file,       \* per file, how far compress_file is
  full        \* while_some saw an error: no further file is started

mainVars == <<stage, output, staging, artifacts, manifest>>
workVars == <<file, full>>
vars == <<mainVars, workVars, poolVars>>

Init ==
  /\ PoolInit
  /\ stage = "begin"
  /\ output = "absent"
  /\ staging = FALSE
  /\ artifacts = {}
  /\ manifest = {}
  /\ file = [f \in Files |-> "todo"]
  /\ full = FALSE

\* Mutant of GiveUp: nobody owns the staging directory.
GiveUpKeeping ==
  /\ stage' = "failed"
  /\ UNCHANGED <<output, staging, artifacts, manifest>>

\* TempDir::drop removes the staging directory on every return with an error.
GiveUp ==
  /\ stage' = "failed"
  /\ staging' = FALSE
  /\ artifacts' = {}
  /\ manifest' = {}
  /\ UNCHANGED output

\* ensure_output_is_new, then the staging directory beside the output, which may
\* not be possible.
Stage ==
  /\ stage = "begin"
  /\ \/ /\ output = "absent"
        /\ stage' = "staged" /\ staging' = TRUE
        /\ UNCHANGED <<output, artifacts, manifest>>
     \/ GiveUp
  /\ UNCHANGED <<workVars, poolVars>>

\* No input files, two that map to one artifact name, or no threads for the pool.
RejectInputs ==
  /\ stage = "staged"
  /\ GiveUp
  /\ UNCHANGED <<workVars, poolVars>>

Install(w) ==
  /\ stage = "staged"
  /\ stage' = "pool"
  /\ Inject(w)
  /\ UNCHANGED <<output, staging, artifacts, manifest, workVars>>

-----------------------------------------------------------------------------
\* compress_file, on the worker whose top frame it is.

Current(w) == Last(stack[w]).file

\* Mutant of NextFile: the range includes its end.
NextFileInclusive(w) ==
  /\ Top(w, "rest")
  /\ LET r == Last(stack[w])
     IN  IF r.lo > r.hi + 1 \/ full
         THEN Replace(w, <<>>) /\ UNCHANGED file
         ELSE /\ Replace(w, <<RestFrame(r.lo + 1, r.hi), FileFrame(r.lo)>>)
              /\ file' = [f \in Files |-> IF f = r.lo THEN "reading" ELSE file[f]]
  /\ UNCHANGED <<deque, finished, mainVars, full>>

\* The fold over a range takes its next file, unless the collection is full.
NextFile(w) ==
  /\ Top(w, "rest")
  /\ LET r == Last(stack[w])
     IN  IF r.lo > r.hi \/ full
         THEN Replace(w, <<>>) /\ UNCHANGED file
         ELSE /\ Replace(w, <<RestFrame(r.lo + 1, r.hi), FileFrame(r.lo)>>)
              /\ file' = [file EXCEPT ![r.lo] = "reading"]
  /\ UNCHANGED <<deque, finished, mainVars, full>>

\* compress_file fails while it reads, while it writes, or when it asks for the size
\* of an artifact that is already there.
FileFails(w) ==
  /\ Top(w, "file")
  /\ Current(w) \in MayFail
  /\ \/ file[Current(w)] = "reading" /\ UNCHANGED artifacts
     \/ /\ file[Current(w)] = "compacting"
        /\ artifacts' \in {artifacts, artifacts \cup {Current(w)}}
  /\ file' = [file EXCEPT ![Current(w)] = "failed"]
  /\ full' = TRUE
  /\ Replace(w, <<>>)
  /\ UNCHANGED <<deque, finished, stage, output, staging, manifest>>

\* Trace::from_file and the interning of compress().
ReadFile(w) ==
  /\ Top(w, "file")
  /\ file[Current(w)] = "reading"
  /\ file' = [file EXCEPT ![Current(w)] = "interned"]
  /\ UNCHANGED <<poolVars, mainVars, full>>

\* finalize_templates: a parallel iterator inside a pool worker.  The second half
\* of the templates is set aside while the worker compacts the first.
FinalizeTemplates(w) ==
  /\ Top(w, "file")
  /\ file[Current(w)] = "interned"
  /\ file' = [file EXCEPT ![Current(w)] = "compacting"]
  /\ deque' = [deque EXCEPT ![w] = Append(@, HalfJob(Current(w)))]
  /\ stack' = [stack EXCEPT ![w] = Append(@, JoinFrame(HalfJob(Current(w))))]
  /\ UNCHANGED <<finished, mainVars, full>>

\* write_to_path, see OutputFile.
WriteArtifact(w) ==
  /\ Top(w, "file")
  /\ file[Current(w)] = "compacting"
  /\ file' = [file EXCEPT ![Current(w)] = "done"]
  /\ artifacts' = artifacts \cup {Current(w)}
  /\ Replace(w, <<>>)
  /\ UNCHANGED <<deque, finished, stage, output, staging, manifest, full>>

Work(w) ==
  \/ PoolStep(w) /\ UNCHANGED <<mainVars, workVars>>
  \/ NextFile(w) \/ FileFails(w) \/ ReadFile(w)
  \/ FinalizeTemplates(w) \/ WriteArtifact(w)

-----------------------------------------------------------------------------
Continue == stage' = "manifest" /\ UNCHANGED <<output, staging, artifacts, manifest>>

\* Mutants of Collect: errors are dropped; an error returns before the pool is
\* quiet; an error is waited out for ever.
CollectWhatWorked ==
  /\ stage = "pool" /\ Root \in finished
  /\ Continue
  /\ UNCHANGED <<workVars, poolVars>>

CollectAtFirstError ==
  /\ stage = "pool"
  /\ (full /\ GiveUp) \/ (Root \in finished /\ Continue)
  /\ UNCHANGED <<workVars, poolVars>>

CollectSuccess ==
  /\ stage = "pool" /\ Root \in finished /\ ~full
  /\ Continue
  /\ UNCHANGED <<workVars, poolVars>>

\* install returns when the outer iterator is done.
Collect ==
  /\ stage = "pool"
  /\ Root \in finished
  /\ IF full THEN GiveUp ELSE Continue
  /\ UNCHANGED <<workVars, poolVars>>

\* One entry for each collected file; create_new may fail, and so may the write.
WriteManifest ==
  /\ stage = "manifest"
  /\ \/ /\ stage' = "recheck"
        /\ manifest' = {f \in Files : file[f] = "done"}
        /\ UNCHANGED <<output, staging, artifacts>>
     \/ GiveUp
  /\ UNCHANGED <<workVars, poolVars>>

Recheck ==
  /\ stage = "recheck"
  /\ IF output = "absent"
     THEN stage' = "rename" /\ UNCHANGED <<output, staging, artifacts, manifest>>
     ELSE GiveUp
  /\ UNCHANGED <<workVars, poolVars>>

\* Mutant of Publish: whatever is at the output path is replaced.
PublishForced ==
  /\ stage = "rename"
  /\ stage' = "ok" /\ output' = "ours" /\ staging' = FALSE
  /\ UNCHANGED <<artifacts, manifest, workVars, poolVars>>

\* rename(2) of a directory replaces an empty directory and nothing else; it may
\* fail for other reasons.
Publish ==
  /\ stage = "rename"
  /\ \/ /\ output \in {"absent", "empty directory"}
        /\ stage' = "ok" /\ output' = "ours" /\ staging' = FALSE
        /\ UNCHANGED <<artifacts, manifest>>
     \/ GiveUp
  /\ UNCHANGED <<workVars, poolVars>>

Main ==
  \/ Stage \/ RejectInputs \/ (\E w \in Workers : Install(w))
  \/ Collect \/ WriteManifest \/ Recheck \/ Publish

\* Another process creates an empty directory there, or anything that rename
\* refuses to replace: a file, a directory with entries.
Rival ==
  /\ Rivalry /\ output = "absent"
  /\ output' \in {"empty directory", "occupied"}
  /\ UNCHANGED <<stage, staging, artifacts, manifest, workVars, poolVars>>

Ended == stage \in {"ok", "failed", "killed"}

\* Nothing is dropped; the threads and what they had in memory are gone.
Kill ==
  /\ MayDie /\ ~Ended
  /\ stage' = "killed"
  /\ deque' = [w \in Workers |-> <<>>]
  /\ stack' = [w \in Workers |-> <<>>]
  /\ finished' = {}
  /\ UNCHANGED <<output, staging, artifacts, manifest, workVars>>

Next ==
  \/ Main
  \/ \E w \in Workers : Work(w)
  \/ Rival
  \/ Kill

Spec == Init /\ [][Next]_vars

\* Each thread goes on as long as it can.
FairSpec == Spec /\ WF_vars(Main) /\ \A w \in Workers : WF_vars(Work(w))

-----------------------------------------------------------------------------
Stages == {"begin", "staged", "pool", "manifest", "recheck", "rename",
           "ok", "failed", "killed"}

\* The flags, sets and labels keep their types.
TypeOK ==
  /\ stage \in Stages
  /\ output \in {"absent", "empty directory", "occupied", "ours"}
  /\ staging \in BOOLEAN /\ full \in BOOLEAN
  /\ artifacts \subseteq Files /\ manifest \subseteq Files
  /\ file \in [Files -> {"todo", "reading", "interned", "compacting", "done", "failed"}]
  /\ \A w \in Workers : \A n \in 1..Len(stack[w]) :
       stack[w][n].op = "file" => stack[w][n].file \in Files

\* The output path never names a directory of ours that lacks an artifact or the
\* manifest, whatever failed, whoever was killed, and in whichever order the
\* workers finished (design.md:34-36).
PublishedWhole ==
  output = "ours" => artifacts = Files /\ manifest = Files

\* compress-dir fails without a trace: nothing of ours at the output path and no
\* staging directory.  Only a killed process leaves one behind.
FailureLeavesNothing ==
  /\ stage = "failed" => output # "ours" /\ ~staging
  /\ stage = "ok" => output = "ours" /\ ~staging

\* The main thread goes on, removes the staging directory or renames it, only when
\* no worker is inside a file: no artifact is written to a directory that is gone.
WorkersAreDone ==
  stage \in {"manifest", "recheck", "rename", "ok", "failed"} =>
    \A w \in Workers : stack[w] = <<>> /\ deque[w] = <<>>

\* What another process put at the output path, other than an empty directory, is
\* still there afterwards: rename refuses what ensure_output_is_new missed.
RivalKept ==
  [][output = "occupied" => output' = output]_vars

\* Workers that wait for each other's stolen halves always find a way out: the
\* command ends.
Ends == stage = "pool" ~> Ended

\* README.md:46, main.rs:39: --workers is the maximum number of files processed
\* concurrently.
InProgress == {f \in Files : file[f] \in {"reading", "interned", "compacting"}}

FilesBounded == Cardinality(InProgress) <= Cardinality(Workers)

=============================================================================
