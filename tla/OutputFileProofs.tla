--------------------------- MODULE OutputFileProofs ---------------------------
(***************************************************************************)
(* For any number of processes, chunks and kills: what the steps of        *)
(* write_to_path promise about the output path.                            *)
(*                                                                         *)
(* WrittenOnce is not inductive: that the rename makes a whole file appear *)
(* needs the writes and the sync before it to be complete, and that it     *)
(* stays whole needs every writer to hold an inode of its own.             *)
(***************************************************************************)
EXTENDS OutputFile, TLAPS

Opened == {"write", "sync", "persist"}

\* Labels of a process that may have renamed its file to the output path.
Renamed == {"measure", "ok", "failed", "killed"}

\* A process that has a file open has one that exists.
HandlesOpen == \A p \in Procs : pc[p] \in Opened => handle[p] \in Procs

\* A compressor writes to its own inode, which has a temporary name until the
\* rename and is not at the output path before it.  Only a compressor that was
\* killed leaves the name behind.  A decompressor neither syncs nor renames.
Private ==
  /\ \A p \in Compressors :
       /\ pc[p] \in Opened => handle[p] = p
       /\ entry = p => pc[p] \in Renamed
       /\ p \in temps => pc[p] \in Opened \cup {"killed"}
  /\ \A p \in Decompressors : pc[p] \notin {"recheck", "sync", "persist", "measure"}

\* How much of a compressor's file is there at each label; what is at the path is
\* whole and durable, unless a decompressor opened it; and a decompressor opens
\* only a file that is at the path.
Progress ==
  /\ \A p \in Compressors :
       /\ pc[p] \in {"start", "recheck", "create"} => written[p] = 0
       /\ pc[p] = "write" => \A c \in 1..written[p] : data[p][c] = p
       /\ pc[p] \in {"sync", "persist"} => data[p] = WholeFile(p)
       /\ pc[p] = "persist" => synced[p] = WholeFile(p)
       /\ power /\ pc[p] \in {"measure", "ok"} => entry = p
       /\ Intruded(p) => pc[p] \in Renamed
  /\ entry # Missing /\ ~Intruded(entry) =>
       /\ entry \in Compressors
       /\ data[entry] = WholeFile(entry) /\ synced[entry] = WholeFile(entry)

PathInv == TypeOK /\ HandlesOpen /\ Private

WholeInv == PathInv /\ Progress

-----------------------------------------------------------------------------
\* Initially nothing is open and nothing is there.
LEMMA PathInit == Init => PathInv
<1> SUFFICES ASSUME Init PROVE PathInv
  OBVIOUS
<1> USE ProcessAssumption, ChunkAssumption DEF Init
<1>1. TypeOK
  BY DEF TypeOK, Labels, Blank
<1>2. HandlesOpen /\ Private
  BY DEF HandlesOpen, Private, Opened, Procs
<1> QED
  BY <1>1, <1>2 DEF PathInv

\* The type invariant is kept by every step.
LEMMA TypeStep == TypeOK /\ HandlesOpen /\ [Next]_vars => TypeOK'
<1> SUFFICES ASSUME TypeOK, HandlesOpen, [Next]_vars PROVE TypeOK'
  OBVIOUS
<1> USE ProcessAssumption, ChunkAssumption DEF TypeOK, Goto
<1>1. ASSUME NEW p \in Procs, CheckOutput(p) \/ Recheck(p) PROVE TypeOK'
  BY <1>1 DEF CheckOutput, Recheck, Labels
<1>2. ASSUME NEW p \in Procs, CreateTemp(p) PROVE TypeOK'
  BY <1>2 DEF CreateTemp, Labels
<1>3. ASSUME NEW p \in Procs, CreateOutput(p) PROVE TypeOK'
  BY <1>3 DEF CreateOutput, Labels, Blank
<1>4. ASSUME NEW p \in Procs, WriteChunk(p) PROVE TypeOK'
  <2>1. handle[p] \in Procs /\ written[p] + 1 \in Chunks /\ written[p] + 1 \in 0..NumChunks
    BY <1>4 DEF WriteChunk, HandlesOpen, Opened, Chunks
  <2>2. data' \in [Procs -> [Chunks -> Procs \cup {Missing}]]
    BY <1>4, <2>1 DEF WriteChunk
  <2>3. written' \in [Procs -> 0..NumChunks]
    BY <1>4, <2>1 DEF WriteChunk
  <2> QED
    BY <1>4, <2>2, <2>3 DEF WriteChunk
<1>5. ASSUME NEW p \in Procs, FinishWriting(p) PROVE TypeOK'
  BY <1>5 DEF FinishWriting, Labels
<1>6. ASSUME NEW p \in Procs, Sync(p) PROVE TypeOK'
  BY <1>6 DEF Sync, Labels, HandlesOpen, Opened
<1>7. ASSUME NEW p \in Procs, Persist(p) PROVE TypeOK'
  BY <1>7 DEF Persist, Labels, HandlesOpen, Opened
<1>8. ASSUME NEW p \in Procs, Measure(p) \/ Fail(p) \/ Kill(p) PROVE TypeOK'
  BY <1>8 DEF Measure, Fail, Kill, Labels
<1>9. ASSUME PowerLoss PROVE TypeOK'
  <2>1. pc' \in [Procs -> Labels]
    BY <1>9 DEF PowerLoss, Labels
  <2>2. data' \in [Procs -> [Chunks -> Procs \cup {Missing}]]
    BY <1>9 DEF PowerLoss
  <2> QED
    BY <1>9, <2>1, <2>2 DEF PowerLoss
<1>10. CASE UNCHANGED vars
  BY <1>10 DEF vars
<1> QED
  BY <1>1, <1>2, <1>3, <1>4, <1>5, <1>6, <1>7, <1>8, <1>9, <1>10 DEF Next, Step

\* No step makes a compressor share an inode, or keep a name it should not have.
LEMMA PrivateStep ==
  TypeOK /\ HandlesOpen /\ Private /\ [Next]_vars => HandlesOpen' /\ Private'
<1> SUFFICES ASSUME TypeOK, HandlesOpen, Private, [Next]_vars
             PROVE  HandlesOpen' /\ Private'
  OBVIOUS
<1> USE ProcessAssumption DEF TypeOK, HandlesOpen, Private, Opened, Renamed, Procs, Goto
<1>1. ASSUME NEW p \in Procs, CheckOutput(p) \/ Recheck(p) PROVE HandlesOpen' /\ Private'
  BY <1>1 DEF CheckOutput, Recheck
<1>2. ASSUME NEW p \in Procs, CreateTemp(p) PROVE HandlesOpen' /\ Private'
  BY <1>2 DEF CreateTemp
<1>3. ASSUME NEW p \in Procs, CreateOutput(p) PROVE HandlesOpen' /\ Private'
  BY <1>3 DEF CreateOutput
<1>4. ASSUME NEW p \in Procs, WriteChunk(p) PROVE HandlesOpen' /\ Private'
  BY <1>4 DEF WriteChunk
<1>5. ASSUME NEW p \in Procs, FinishWriting(p) \/ Sync(p) PROVE HandlesOpen' /\ Private'
  BY <1>5 DEF FinishWriting, Sync
<1>6. ASSUME NEW p \in Procs, Persist(p) PROVE HandlesOpen' /\ Private'
  <2>1. p \in Compressors /\ handle[p] = p
    BY <1>6 DEF Persist
  <2> QED
    BY <1>6, <2>1 DEF Persist
<1>7. ASSUME NEW p \in Procs, Measure(p) \/ Fail(p) \/ Kill(p) PROVE HandlesOpen' /\ Private'
  BY <1>7 DEF Measure, Fail, Kill, Running
<1>8. ASSUME PowerLoss PROVE HandlesOpen' /\ Private'
  BY <1>8 DEF PowerLoss, Running
<1>9. CASE UNCHANGED vars
  BY <1>9 DEF vars
<1> QED
  BY <1>1, <1>2, <1>3, <1>4, <1>5, <1>6, <1>7, <1>8, <1>9 DEF Next, Step

\* What a decompressor does to files touches only the one it opened at the path.
LEMMA DecompressorStep ==
  ASSUME WholeInv, NEW p \in Decompressors, CreateOutput(p) \/ WriteChunk(p)
  PROVE  Progress'
<1> USE ProcessAssumption, ChunkAssumption
    DEF WholeInv, PathInv, TypeOK, HandlesOpen, Private, Progress, Opened, Renamed, Procs,
        Goto
<1>1. CASE CreateOutput(p)
  <2> DEFINE inode == IF entry = Missing THEN p ELSE entry
  <2>1. /\ inode \in Procs /\ entry' = inode /\ handle' = [handle EXCEPT ![p] = inode]
        /\ \A q \in Procs : q # inode => data'[q] = data[q]
        /\ \A q \in Procs : q # p => pc'[q] = pc[q]
        /\ UNCHANGED <<written, synced, power>>
    BY <1>1 DEF CreateOutput
  <2>2. \A q \in Procs : Intruded(q)' => Intruded(q) \/ q = inode
    BY <2>1 DEF Intruded
  <2>3. Intruded(inode)'
    BY <2>1 DEF Intruded
  <2>4. \A q \in Compressors : q = inode => pc[q] \in Renamed /\ entry = q
    OBVIOUS
  <2>5. \A q \in Compressors : q # p
    OBVIOUS
  <2> QED
    BY <2>1, <2>2, <2>3, <2>4, <2>5
<1>2. CASE WriteChunk(p)
  <2>1. handle[p] \in Procs /\ pc[p] = "write"
    BY <1>2 DEF WriteChunk
  <2>2. Intruded(handle[p])
    BY DEF Intruded
  <2>3. \A q \in Procs : q # handle[p] => data'[q] = data[q]
    BY <1>2, <2>1 DEF WriteChunk
  <2>4. \A q \in Compressors : q = handle[p] => pc[q] \in Renamed
    BY <2>2
  <2>5. /\ \A q \in Compressors : written'[q] = written[q]
        /\ UNCHANGED <<pc, handle, entry, synced, power>>
    BY <1>2 DEF WriteChunk
  <2>6. \A q \in Procs : Intruded(q)' <=> Intruded(q)
    BY <2>5 DEF Intruded
  <2> QED
    BY <2>1, <2>2, <2>3, <2>4, <2>5, <2>6
<1> QED
  BY <1>1, <1>2

\* A compressor writes one more chunk of its own file.
LEMMA CompressorWrites ==
  ASSUME WholeInv, NEW p \in Compressors, WriteChunk(p)
  PROVE  Progress'
<1> USE ProcessAssumption, ChunkAssumption
    DEF WholeInv, PathInv, TypeOK, Private, Progress, Opened, Renamed, Procs
<1>1. pc[p] = "write" /\ written[p] < NumChunks /\ written[p] \in 0..NumChunks
  BY DEF WriteChunk
<1>2. handle[p] = p /\ entry # p
  BY <1>1
<1>3. written[p] + 1 \in Chunks
  BY <1>1 DEF Chunks
<1>4. \A q \in Procs : q # p => data'[q] = data[q] /\ written'[q] = written[q]
  BY <1>2 DEF WriteChunk
<1>5. \A c \in 1..written'[p] : data'[p][c] = p
  <2> SUFFICES ASSUME NEW c \in 1..written'[p] PROVE data'[p][c] = p
    OBVIOUS
  <2>1. written'[p] = written[p] + 1 /\ data'[p] = [data[p] EXCEPT ![written[p] + 1] = p]
    BY <1>2 DEF WriteChunk
  <2>2. c \in Chunks /\ data[p] \in [Chunks -> Procs \cup {Missing}]
    BY <1>3, <2>1 DEF Chunks
  <2>3. CASE c = written[p] + 1
    BY <1>3, <2>1, <2>2, <2>3
  <2>4. CASE c # written[p] + 1
    <3>1. c \in 1..written[p]
      BY <2>1, <2>4
    <3> QED
      BY <1>1, <1>3, <2>1, <2>2, <2>4, <3>1
  <2> QED
    BY <2>3, <2>4
<1>6. UNCHANGED <<pc, handle, entry, synced, power>>
  BY DEF WriteChunk
<1>7. \A q \in Procs : Intruded(q)' <=> Intruded(q)
  BY <1>6 DEF Intruded
<1> QED
  BY <1>1, <1>2, <1>4, <1>5, <1>6, <1>7

\* What is at the path and what is written of every other file stay as Progress
\* says.
LEMMA ProgressStep ==
  ASSUME WholeInv, [Next]_vars
  PROVE  Progress'
<1> USE ProcessAssumption, ChunkAssumption
    DEF WholeInv, PathInv, TypeOK, Private, Progress, Opened, Renamed, Procs, Goto
<1>1. ASSUME NEW p \in Procs, CheckOutput(p) \/ Recheck(p) PROVE Progress'
  <2>1. \A q \in Procs : Intruded(q)' <=> Intruded(q)
    BY <1>1 DEF CheckOutput, Recheck, Intruded
  <2> QED
    BY <1>1, <2>1 DEF CheckOutput, Recheck
<1>2. ASSUME NEW p \in Procs, CreateTemp(p) PROVE Progress'
  <2>1. \A q \in Procs : Intruded(q)' <=> Intruded(q)
    BY <1>2 DEF CreateTemp, Intruded
  <2> QED
    BY <1>2, <2>1 DEF CreateTemp
<1>3. ASSUME NEW p \in Procs, CreateOutput(p) PROVE Progress'
  BY <1>3, DecompressorStep DEF CreateOutput
<1>4. ASSUME NEW p \in Procs, WriteChunk(p) PROVE Progress'
  <2>1. CASE p \in Decompressors
    BY <1>4, <2>1, DecompressorStep
  <2>2. CASE p \in Compressors
    BY <1>4, <2>2, CompressorWrites
  <2> QED
    BY <2>1, <2>2
<1>5. ASSUME NEW p \in Procs, FinishWriting(p) PROVE Progress'
  <2>1. ASSUME p \in Compressors PROVE data[p] = WholeFile(p)
    <3>1. data[p] \in [Chunks -> Procs \cup {Missing}]
      OBVIOUS
    <3>2. \A c \in Chunks : data[p][c] = p
      BY <1>5, <2>1 DEF FinishWriting, Chunks
    <3> QED
      BY <3>1, <3>2 DEF WholeFile
  <2>2. \A q \in Procs : Intruded(q)' <=> Intruded(q)
    BY <1>5 DEF FinishWriting, Intruded
  <2> QED
    BY <1>5, <2>1, <2>2 DEF FinishWriting
<1>6. ASSUME NEW p \in Procs, Sync(p) PROVE Progress'
  <2>1. p \in Compressors /\ handle[p] = p /\ entry # p
    BY <1>6 DEF Sync
  <2>2. \A q \in Procs : Intruded(q)' <=> Intruded(q)
    BY <1>6 DEF Sync, Intruded
  <2> QED
    BY <1>6, <2>1, <2>2 DEF Sync
<1>7. ASSUME NEW p \in Procs, Persist(p) PROVE Progress'
  <2>1. p \in Compressors /\ handle[p] = p
    BY <1>7 DEF Persist
  <2>2. \A q \in Procs : Intruded(q)' <=> Intruded(q)
    BY <1>7 DEF Persist, Intruded
  <2> QED
    BY <1>7, <2>1, <2>2 DEF Persist
<1>8. ASSUME NEW p \in Procs, Measure(p) \/ Fail(p) \/ Kill(p) PROVE Progress'
  <2>1. \A q \in Procs : Intruded(q)' <=> Intruded(q)
    BY <1>8 DEF Measure, Fail, Kill, Intruded
  <2> QED
    BY <1>8, <2>1 DEF Measure, Fail, Kill, Running
<1>9. ASSUME PowerLoss PROVE Progress'
  <2>1. \A p \in Procs : pc'[p] = (IF Running(p) THEN "killed" ELSE pc[p])
    BY <1>9 DEF PowerLoss
  <2>2. \A p \in Procs : pc'[p] \notin {"recheck", "create", "write", "sync", "persist"}
    BY <2>1 DEF Running
  <2>3. \A p \in Compressors : pc'[p] = "start" => written'[p] = 0
    BY <1>9, <2>1 DEF PowerLoss, Running
  <2>4. \A q \in Procs : Intruded(q)' <=> Intruded(q)
    BY <1>9 DEF PowerLoss, Intruded
  <2>5. ASSUME entry' # Missing, ~Intruded(entry)'
        PROVE  /\ entry' \in Compressors
               /\ data'[entry'] = WholeFile(entry') /\ synced'[entry'] = WholeFile(entry')
    <3>1. entry' = entry /\ entry \in Procs /\ synced' = synced
      BY <1>9, <2>5 DEF PowerLoss
    <3>2. entry \in Compressors /\ data[entry] = WholeFile(entry)
          /\ synced[entry] = WholeFile(entry)
      BY <2>4, <2>5, <3>1
    <3>3. PICK lost \in SUBSET (Procs \X Chunks) :
            data' = [p \in Procs |-> [c \in Chunks |->
                       IF <<p, c>> \in lost THEN synced[p][c] ELSE data[p][c]]]
      BY <1>9 DEF PowerLoss
    <3>4. data'[entry] = [c \in Chunks |-> entry]
      BY <3>1, <3>2, <3>3 DEF WholeFile
    <3> QED
      BY <3>1, <3>2, <3>4 DEF WholeFile
  <2>6. \A q \in Compressors : Intruded(q)' => pc'[q] \in Renamed
    BY <2>1, <2>4 DEF Running
  <2> QED
    BY <1>9, <2>2, <2>3, <2>5, <2>6 DEF PowerLoss
<1>10. CASE UNCHANGED vars
  <2>1. \A q \in Procs : Intruded(q)' <=> Intruded(q)
    BY <1>10 DEF vars, Intruded
  <2> QED
    BY <1>10, <2>1 DEF vars
<1> QED
  BY <1>1, <1>2, <1>3, <1>4, <1>5, <1>6, <1>7, <1>8, <1>9, <1>10 DEF Next, Step

-----------------------------------------------------------------------------
\* Compressors and decompressors together, with kills and a power loss.

\* PathInv is an inductive invariant.
THEOREM PathInvariant == Spec => []PathInv
<1>1. PathInv /\ [Next]_vars => PathInv'
  BY TypeStep, PrivateStep DEF PathInv
<1> QED
  BY PathInit, <1>1, PTL DEF Spec

\* The type invariant, for any number of processes and chunks.
THEOREM PathTypeCorrect == Spec => []TypeOK
<1>1. PathInv => TypeOK
  BY DEF PathInv
<1> QED
  BY PathInvariant, <1>1, PTL

\* Every way out of write_to_path but a kill removes or renames the temporary
\* file: whoever else writes to the path, a name that is left belongs to a
\* process that runs or was killed.
THEOREM OnlyKillsLeaveTemps == Spec => []TempsRemoved
<1>1. PathInv => TempsRemoved
  BY DEF PathInv, TypeOK, Private, TempsRemoved, Opened, Running
<1> QED
  BY PathInvariant, <1>1, PTL

\* A compressor never changes what stands at the path, even if a decompressor put
\* it there between the two checks and the rename.
THEOREM NoClobber == Spec => CompressorsYield
<1> DEFINE Yields(p) ==
             /\ entry # Missing /\ power' = power
             /\ pc'[p] # pc[p] \/ written'[p] # written[p]
             => entry' = entry /\ data'[entry] = data[entry]
<1>1. PathInv /\ [Next]_vars => [\A p \in Compressors : Yields(p)]_vars
  <2> SUFFICES ASSUME PathInv, Next, NEW p \in Compressors, entry # Missing, power' = power,
                      pc'[p] # pc[p] \/ written'[p] # written[p]
               PROVE  entry' = entry /\ data'[entry] = data[entry]
    OBVIOUS
  <2> USE ProcessAssumption DEF PathInv, TypeOK, Private, Opened, Renamed, Procs, Goto
  <2>1. ASSUME NEW q \in Procs, q # p, Step(q) \/ Fail(q) \/ Kill(q)
        PROVE  pc'[p] = pc[p] /\ written'[p] = written[p]
    BY <2>1 DEF Step, CheckOutput, Recheck, CreateTemp, CreateOutput, WriteChunk,
                FinishWriting, Sync, Persist, Measure, Fail, Kill
  <2>2. ~CreateOutput(p)
    BY DEF CreateOutput
  <2>3. CASE WriteChunk(p)
    <3>1. pc[p] = "write" /\ entry' = entry
      BY <2>3 DEF WriteChunk
    <3>2. handle[p] = p /\ entry # p
      BY <3>1
    <3> QED
      BY <2>3, <3>1, <3>2 DEF WriteChunk
  <2>4. CASE \/ CheckOutput(p) \/ Recheck(p) \/ CreateTemp(p) \/ FinishWriting(p)
             \/ Sync(p) \/ Persist(p) \/ Measure(p) \/ Fail(p) \/ Kill(p)
    BY <2>4 DEF CheckOutput, Recheck, CreateTemp, FinishWriting, Sync, Persist,
                Measure, Fail, Kill
  <2>5. ~PowerLoss
    BY DEF PowerLoss
  <2> QED
    BY <2>1, <2>2, <2>3, <2>4, <2>5 DEF Next, Step
<1> QED
  BY PathInvariant, <1>1, PTL DEF Spec, CompressorsYield

-----------------------------------------------------------------------------
\* What is at the path.

\* WholeInv is an inductive invariant.
THEOREM WholeInvariant == Spec => []WholeInv
<1>1. Init => WholeInv
  <2> SUFFICES ASSUME Init PROVE Progress
    BY PathInit DEF WholeInv
  <2>1. \A p \in Compressors : ~Intruded(p)
    BY ProcessAssumption DEF Init, Intruded, Procs
  <2> QED
    BY <2>1 DEF Init, Progress, Procs
<1>2. WholeInv /\ [Next]_vars => WholeInv'
  BY TypeStep, PrivateStep, ProgressStep DEF WholeInv, PathInv
<1> QED
  BY <1>1, <1>2, PTL DEF Spec

\* Until a power loss, the artifact of a compressor that reported success is at
\* the path, and whole unless a decompressor opened that file; so at most one of
\* any number of rivals succeeds.
THEOREM SuccessIsKept == Spec => []SuccessIsThere
<1>1. WholeInv => SuccessIsThere
  BY ProcessAssumption DEF WholeInv, PathInv, TypeOK, Progress, SuccessIsThere, Procs
<1> QED
  BY WholeInvariant, <1>1, PTL

\* write_to_path implements WriteOnce: a reader finds nothing or one whole
\* artifact at every moment, a kill and a power loss included, and the rename is
\* the step that takes the path.  The one step that spoils it is a decompressor's
\* open of a path it found free before.
THEOREM ImplementsWriteOnce == Spec => WrittenOnce
<1> USE ProcessAssumption DEF Procs
<1>1. Init => Once!OnceInit
  BY DEF Init, Once!OnceInit, Once!Free, Visible
<1> DEFINE Shown == IF entry = Missing THEN Missing
                    ELSE IF Intruded(entry) THEN "foreign" ELSE entry
<1>2. WholeInv => Visible = Shown
  BY DEF WholeInv, Progress, Visible
<1>3. WholeInv /\ WholeInv' /\ [Next]_vars => [Once!OnceNext]_Once!onceVars
  <2> SUFFICES ASSUME WholeInv, WholeInv', [Next]_vars
               PROVE  [Once!OnceNext]_Once!onceVars
    OBVIOUS
  <2>1. Visible = Shown /\ Visible' = Shown'
    BY <1>2 DEF WholeInv, Progress, Visible
  <2> HIDE DEF Shown
  <2>2. ASSUME NEW p \in Procs, Persist(p), entry = Missing
        PROVE  Once!Take(p) /\ p \in Compressors
    <3>1. p \in Compressors /\ handle[p] = p
      BY <2>2 DEF WholeInv, PathInv, Private, Opened, Persist
    <3>2. ~Intruded(p)
      BY <2>2, <3>1 DEF WholeInv, Progress, Renamed, Persist
    <3>3. ~Intruded(p)' /\ entry' = p /\ power' = power
      BY <2>2, <3>1, <3>2 DEF Persist, Intruded
    <3>4. Missing # p
      BY <3>1
    <3> QED
      BY <2>1, <2>2, <3>1, <3>3, <3>4 DEF Once!Take, Once!Free, Shown
  <2>3. ASSUME NEW p \in Procs, Persist(p), entry # Missing
        PROVE  UNCHANGED Once!onceVars
    BY <2>1, <2>3 DEF Persist, Once!onceVars, Shown, Intruded
  <2>4. ASSUME NEW p \in Procs,
               \/ CheckOutput(p) \/ Recheck(p) \/ WriteChunk(p)
               \/ FinishWriting(p) \/ Sync(p) \/ Measure(p) \/ Fail(p) \/ Kill(p)
        PROVE  UNCHANGED Once!onceVars
    <3>1. UNCHANGED <<entry, handle, power>>
      BY <2>4 DEF CheckOutput, Recheck, WriteChunk, FinishWriting, Sync, Measure, Fail, Kill
    <3> QED
      BY <2>1, <3>1 DEF Once!onceVars, Shown, Intruded
  <2>5. ASSUME NEW p \in Procs, CreateTemp(p) PROVE UNCHANGED Once!onceVars
    <3>1. /\ UNCHANGED <<entry, power>>
          /\ \A d \in Decompressors : handle'[d] = handle[d]
      BY <2>5 DEF CreateTemp, WholeInv, PathInv, TypeOK
    <3> QED
      BY <2>1, <3>1 DEF Once!onceVars, Shown, Intruded
  <2>6. ASSUME NEW p \in Procs, CreateOutput(p) PROVE Once!Spoil
    <3>1. p \in Decompressors /\ handle'[p] = entry' /\ entry' # Missing /\ power' = power
      BY <2>6 DEF CreateOutput, WholeInv, PathInv, TypeOK
    <3> QED
      BY <2>1, <3>1 DEF Once!Spoil, Shown, Intruded
  <2>7. ASSUME PowerLoss PROVE Once!LosePower
    <3>1. /\ power /\ power' = FALSE /\ handle' = handle
          /\ entry' \in {entry, Missing}
      BY <2>7 DEF PowerLoss
    <3> QED
      BY <2>1, <3>1 DEF Once!LosePower, Shown, Intruded
  <2>8. CASE UNCHANGED vars
    BY <2>1, <2>8 DEF vars, Once!onceVars, Shown, Intruded
  <2> QED
    BY <2>2, <2>3, <2>4, <2>5, <2>6, <2>7, <2>8 DEF Next, Step, Once!OnceNext
<1> QED
  BY <1>1, <1>3, WholeInvariant, PTL DEF Spec, WrittenOnce, Once!OnceSpec

=============================================================================
